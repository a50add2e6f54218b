SPECIFICATION Spec
CONSTANTS
  Mains = {"m"}
  Hidden = {"a", "b"}
  Openings <- MCOpenings
INVARIANTS
  BindingsHold
  AnswersBelongToTheirCodes
  CodesShownAreInForce
PROPERTIES
  ReviewsAreHeeded
  CodesGoWithClaims
CHECK_DEADLOCK FALSE
