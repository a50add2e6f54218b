---------------------------- MODULE MCLocalAuth ----------------------------
EXTENDS LocalAuth

MCEmailOf == [id \in Ids |-> IF id = Super THEN "e1" ELSE "e2"]
OwnBrowsers == [pg \in Pages |-> pg]
Tokens == [b \in Browsers |-> IF b = "w1" THEN 1 ELSE 2]
OneHome == [pg \in Pages |-> IF pg = "w1" THEN "p1" ELSE "p2"]
SomeLoggedIn ==
  {[b \in Browsers |-> IF b \in admin THEN "i1" ELSE IF b \in other THEN "i2" ELSE Nobody] :
     admin \in {{}, {"w1"}}, other \in {{}}} \cup {[b \in Browsers |-> IF b = "w1" THEN "i1" ELSE "i2"]}
=============================================================================
