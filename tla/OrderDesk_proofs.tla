-------------------------- MODULE OrderDesk_proofs --------------------------
(***************************************************************************)
(* Proofs about OrderDesk: what the Apple IDs hold is what the orders and  *)
(* the movements account for, a form takes effect once however often it is *)
(* tried, no correction, refund, return or movement is ever lost, and the  *)
(* server refuses nothing that a page has checked on the current versions. *)
(*                                                                         *)
(* The plans are nested operators on records, and the money is summed over *)
(* finite sets.  So the sums come first, then what each plan makes of      *)
(* typed documents, then what each action does in those terms; the         *)
(* invariants are proved over these descriptions and not over the actions  *)
(* themselves.  DeskInv has these parts: types, with a ledger that belongs *)
(* to the orders (Typed); copies and requests that are of what is stored   *)
(* or are behind it (InStep); where a form may be (Placed); forms for new  *)
(* orders, each of whose submissions has a number that no order has yet    *)
(* (OwnNumbers) and which are counted by the orders they made (NewCounted); *)
(* and other forms that took effect, which are spent (SpentForms).         *)
(*                                                                         *)
(* The page and the server judge with other code, so their agreement needs *)
(* each of the server's checks of what each form's plan makes: of the      *)
(* ledger, after its own forms, after an order was charged and after a     *)
(* form about an order; then of the orders, row by row.  PageInv adds to   *)
(* DeskInv what these need: stored documents a form can be made on         *)
(* (PageSound: orders whose money holds, now and with their last correction *)
(* taken back; marks of undone movements that match; refunds with numbers  *)
(* of their own) and requests that are what the page makes of copies that  *)
(* were stored once (Origins).                                             *)
(***************************************************************************)
EXTENDS OrderClaims, SequenceTheorems, FunctionTheorems, FiniteSetTheorems, TLAPS

-----------------------------------------------------------------------------
(* Sums over finite sets. *)

(* SumFunctionOnSet is a fold: the value on a set of the function that      *)
(* solves, on all its subsets, the equation below.                          *)
Chosen(s) == CHOOSE x \in s : TRUE
SumBody(f, g, s) == IF s = {} THEN 0 ELSE f[Chosen(s)] + g[s \ {Chosen(s)}]
Solves(g, f, S) == g = [s \in SUBSET S |-> SumBody(f, g, s)]
Totals(f, S) == CHOOSE g : Solves(g, f, S)

(* The fold, written out. *)
LEMMA SumIsTotal ==
  ASSUME NEW f, NEW S
  PROVE  SumFunctionOnSet(f, S) = Totals(f, S)[S]
BY Zenon DEF SumFunctionOnSet, FoldFunctionOnSet, MapThenFoldSet, Totals, Solves, SumBody, Chosen

(* The least counterexample among the subsets of a finite set. *)
LEMMA Smallest ==
  ASSUME NEW S, IsFiniteSet(S), NEW T, T \subseteq SUBSET S, T # {}
  PROVE  \E s \in T : \A t \in T : t \subseteq s => t = s
<1>1. IsWellFoundedOn(StrictSubsetOrdering(S), SUBSET S)
  BY FS_StrictSubsetOrderingWellFounded, FS_FiniteSubsetsOfFinite
<1>2. PICK s \in T : \A t \in T : ~ (<<t, s>> \in StrictSubsetOrdering(S))
  BY <1>1, WFMin
<1>. QED
  BY <1>2 DEF StrictSubsetOrdering

(* The equation, at one subset. *)
LEMMA SolvesAt ==
  ASSUME NEW f, NEW S, NEW g, Solves(g, f, S), NEW s \in SUBSET S
  PROVE  g[s] = SumBody(f, g, s)
BY DEF Solves

(* There is one solution at most, on a set and on the sets it is part of. *)
LEMMA SolutionsAgree ==
  ASSUME NEW f, NEW S, IsFiniteSet(S), NEW T \in SUBSET S, NEW g, NEW h,
         Solves(g, f, S), Solves(h, f, T)
  PROVE  \A s \in SUBSET T : g[s] = h[s]
<1>. DEFINE Bad == {s \in SUBSET T : g[s] # h[s]}
<1>. SUFFICES ASSUME Bad # {} PROVE FALSE
  OBVIOUS
<1>1. IsFiniteSet(T) /\ Bad \subseteq SUBSET T
  BY FS_Subset
<1>2. PICK s \in Bad : \A t \in Bad : t \subseteq s => t = s
  <2>. HIDE DEF Bad
  <2>. QED
    BY <1>1, Smallest
<1>3. g[s] = SumBody(f, g, s) /\ h[s] = SumBody(f, h, s)
  BY SolvesAt
<1>4. s # {} => Chosen(s) \in s
  BY DEF Chosen
<1>5. s # {} => g[s \ {Chosen(s)}] = h[s \ {Chosen(s)}]
  BY <1>2, <1>4
<1>. QED
  BY <1>3, <1>5 DEF SumBody

(* And there is one. *)
LEMMA TotalsSolve ==
  ASSUME NEW f, NEW S, IsFiniteSet(S)
  PROVE  Solves(Totals(f, S), f, S)
<1>. DEFINE Bad == {s \in SUBSET S : ~Solves(Totals(f, s), f, s)}
<1>. SUFFICES ASSUME Bad # {} PROVE FALSE
  OBVIOUS
<1>1. PICK s \in Bad : \A t \in Bad : t \subseteq s => t = s
  <2>1. Bad \subseteq SUBSET S
    OBVIOUS
  <2>. HIDE DEF Bad
  <2>. QED
    BY <2>1, Smallest
<1>2. \A t \in SUBSET s : t # s => Solves(Totals(f, t), f, t) /\ IsFiniteSet(t)
  BY <1>1, FS_Subset
<1>. DEFINE h == [t \in SUBSET s |-> IF t = {} THEN 0
                    ELSE f[Chosen(t)] + Totals(f, t \ {Chosen(t)})[t \ {Chosen(t)}]]
<1>3. ASSUME NEW t \in SUBSET s, t # s PROVE h[t] = Totals(f, t)[t]
  <2>1. Totals(f, t)[t] = SumBody(f, Totals(f, t), t)
    BY <1>2, <1>3, SolvesAt
  <2>2. CASE t = {}
    BY <2>1, <2>2 DEF SumBody
  <2>3. CASE t # {}
    <3>. DEFINE u == t \ {Chosen(t)}
    <3>1. u \in SUBSET t /\ u \in SUBSET s /\ u # s
      BY <1>3
    <3>2. Totals(f, t)[u] = Totals(f, u)[u]
      BY <1>2, <1>3, <3>1, SolutionsAgree
    <3>. QED
      BY <2>1, <2>3, <3>2 DEF SumBody
  <2>. QED
    BY <2>2, <2>3
<1>4. \A t \in SUBSET s : h[t] = SumBody(f, h, t)
  <2>. SUFFICES ASSUME NEW t \in SUBSET s, t # {} PROVE h[t] = SumBody(f, h, t)
    BY DEF SumBody
  <2>1. Chosen(t) \in t
    BY DEF Chosen
  <2>2. t \ {Chosen(t)} \in SUBSET s /\ t \ {Chosen(t)} # s
    BY <2>1
  <2>. QED
    BY <1>3, <2>2 DEF SumBody
<1>5. Solves(h, f, s)
  BY <1>4 DEF h, Solves
<1>6. Solves(Totals(f, s), f, s)
  BY <1>5 DEF Totals
<1>. QED
  BY <1>1, <1>6

(* So a sum is that of all but one element, plus the one. *)
LEMMA SumStep ==
  ASSUME NEW f, NEW S, IsFiniteSet(S)
  PROVE  SumFunctionOnSet(f, S) =
           IF S = {} THEN 0 ELSE f[Chosen(S)] + SumFunctionOnSet(f, S \ {Chosen(S)})
<1>1. Solves(Totals(f, S), f, S)
  BY TotalsSolve
<1>2. Totals(f, S)[S] = SumBody(f, Totals(f, S), S)
  BY <1>1, SolvesAt
<1>3. CASE S = {}
  BY <1>2, <1>3, SumIsTotal DEF SumBody
<1>4. CASE S # {}
  <2>. DEFINE T == S \ {Chosen(S)}
  <2>1. T \in SUBSET S /\ IsFiniteSet(T)
    BY FS_Subset
  <2>2. Solves(Totals(f, T), f, T)
    BY <2>1, TotalsSolve
  <2>3. Totals(f, S)[T] = Totals(f, T)[T]
    BY <1>1, <2>1, <2>2, SolutionsAgree
  <2>. QED
    BY <1>2, <1>4, <2>3, SumIsTotal DEF SumBody
<1>. QED
  BY <1>3, <1>4

IntOn(f, S) == \A x \in S : f[x] \in Int

LEMMA SumOfNone ==
  ASSUME NEW f
  PROVE  SumFunctionOnSet(f, {}) = 0
BY FS_EmptySet, SumStep

(* A sum of integers is an integer. *)
LEMMA SumInt ==
  ASSUME NEW f, NEW S, IsFiniteSet(S), IntOn(f, S)
  PROVE  SumFunctionOnSet(f, S) \in Int
<1>. DEFINE Bad == {s \in SUBSET S : SumFunctionOnSet(f, s) \notin Int}
<1>. SUFFICES ASSUME Bad # {} PROVE FALSE
  OBVIOUS
<1>1. PICK s \in Bad : \A t \in Bad : t \subseteq s => t = s
  <2>1. Bad \subseteq SUBSET S
    OBVIOUS
  <2>. HIDE DEF Bad
  <2>. QED
    BY <2>1, Smallest
<1>2. IsFiniteSet(s)
  BY FS_Subset
<1>3. s # {} /\ Chosen(s) \in s
  BY SumOfNone DEF Chosen
<1>4. SumFunctionOnSet(f, s \ {Chosen(s)}) \in Int
  BY <1>1, <1>3
<1>5. f[Chosen(s)] \in Int
  BY <1>3 DEF IntOn
<1>6. SumFunctionOnSet(f, s) = f[Chosen(s)] + SumFunctionOnSet(f, s \ {Chosen(s)})
  BY <1>2, <1>3, SumStep
<1>. QED
  BY <1>4, <1>5, <1>6

(* It does not matter which element comes first. *)
LEMMA SumRemove ==
  ASSUME NEW f, NEW S, IsFiniteSet(S), IntOn(f, S), NEW x \in S
  PROVE  SumFunctionOnSet(f, S) = f[x] + SumFunctionOnSet(f, S \ {x})
<1>. DEFINE Bad == {s \in SUBSET S :
                      \E y \in s : SumFunctionOnSet(f, s) # f[y] + SumFunctionOnSet(f, s \ {y})}
<1>. SUFFICES ASSUME Bad # {} PROVE FALSE
  OBVIOUS
<1>1. PICK s \in Bad : \A t \in Bad : t \subseteq s => t = s
  <2>1. Bad \subseteq SUBSET S
    OBVIOUS
  <2>. HIDE DEF Bad
  <2>. QED
    BY <2>1, Smallest
<1>2. PICK y \in s : SumFunctionOnSet(f, s) # f[y] + SumFunctionOnSet(f, s \ {y})
  OBVIOUS
<1>. DEFINE z == Chosen(s)
            t == s \ {y}
            u == s \ {z}
            v == s \ {y, z}
<1>3. z \in s
  BY DEF Chosen
<1>4. IsFiniteSet(s) /\ IsFiniteSet(v)
  BY FS_Subset
<1>5. SumFunctionOnSet(f, s) = f[z] + SumFunctionOnSet(f, u)
  BY <1>2, <1>4, SumStep
<1>6. y # z
  BY <1>2, <1>5
<1>7. t \notin Bad /\ u \notin Bad
  BY <1>1, <1>2, <1>3
<1>8. t \ {z} = v /\ u \ {y} = v /\ z \in t /\ y \in u
  BY <1>3, <1>6
<1>9. SumFunctionOnSet(f, t) = f[z] + SumFunctionOnSet(f, v)
  BY <1>7, <1>8
<1>10. SumFunctionOnSet(f, u) = f[y] + SumFunctionOnSet(f, v)
  BY <1>7, <1>8
<1>11. f[y] \in Int /\ f[z] \in Int /\ SumFunctionOnSet(f, v) \in Int
  BY <1>3, <1>4, SumInt DEF IntOn
<1>. QED
  BY <1>2, <1>5, <1>9, <1>10, <1>11

(* The sum over two sets with nothing in common is the sum of their sums. *)
LEMMA SumUnion ==
  ASSUME NEW f, NEW S, NEW T, IsFiniteSet(S), IsFiniteSet(T), S \cap T = {}, IntOn(f, S \cup T)
  PROVE  SumFunctionOnSet(f, S \cup T) = SumFunctionOnSet(f, S) + SumFunctionOnSet(f, T)
<1>. DEFINE Bad == {t \in SUBSET T :
                      SumFunctionOnSet(f, S \cup t) # SumFunctionOnSet(f, S) + SumFunctionOnSet(f, t)}
<1>. SUFFICES ASSUME Bad # {} PROVE FALSE
  OBVIOUS
<1>1. PICK t \in Bad : \A u \in Bad : u \subseteq t => u = t
  <2>1. Bad \subseteq SUBSET T
    OBVIOUS
  <2>. HIDE DEF Bad
  <2>. QED
    BY <2>1, Smallest
<1>2. IsFiniteSet(t) /\ IsFiniteSet(S \cup t) /\ IntOn(f, S) /\ IntOn(f, t) /\ IntOn(f, S \cup t)
  BY FS_Subset, FS_Union DEF IntOn
<1>3. SumFunctionOnSet(f, S) \in Int
  BY <1>2, SumInt
<1>4. t # {}
  BY <1>3, SumOfNone
<1>5. PICK x \in t : TRUE
  BY <1>4
<1>. DEFINE u == t \ {x}
<1>6. SumFunctionOnSet(f, t) = f[x] + SumFunctionOnSet(f, u)
  BY <1>2, SumRemove
<1>7. SumFunctionOnSet(f, S \cup t) = f[x] + SumFunctionOnSet(f, S \cup u)
  BY <1>2, SumRemove
<1>8. SumFunctionOnSet(f, S \cup u) = SumFunctionOnSet(f, S) + SumFunctionOnSet(f, u)
  BY <1>1
<1>9. f[x] \in Int /\ SumFunctionOnSet(f, u) \in Int
  BY <1>2, FS_Subset, SumInt DEF IntOn
<1>. QED
  BY <1>3, <1>6, <1>7, <1>8, <1>9

(* Functions that agree, or differ by a third one, at every element. *)
LEMMA SumDifference ==
  ASSUME NEW f, NEW g, NEW h, NEW S, IsFiniteSet(S), IntOn(f, S), IntOn(g, S),
         \A x \in S : h[x] = f[x] - g[x]
  PROVE  SumFunctionOnSet(h, S) = SumFunctionOnSet(f, S) - SumFunctionOnSet(g, S)
<1>. DEFINE Bad == {s \in SUBSET S :
                      SumFunctionOnSet(h, s) # SumFunctionOnSet(f, s) - SumFunctionOnSet(g, s)}
<1>. SUFFICES ASSUME Bad # {} PROVE FALSE
  OBVIOUS
<1>1. PICK s \in Bad : \A t \in Bad : t \subseteq s => t = s
  <2>1. Bad \subseteq SUBSET S
    OBVIOUS
  <2>. HIDE DEF Bad
  <2>. QED
    BY <2>1, Smallest
<1>2. IsFiniteSet(s) /\ IntOn(f, s) /\ IntOn(g, s) /\ IntOn(h, s)
  BY FS_Subset DEF IntOn
<1>3. s # {}
  <2>1. 0 = SumFunctionOnSet(f, {}) /\ 0 = SumFunctionOnSet(g, {}) /\ 0 = SumFunctionOnSet(h, {})
    BY SumOfNone
  <2>. QED
    BY <2>1
<1>4. PICK x \in s : TRUE
  BY <1>3
<1>. DEFINE t == s \ {x}
<1>5. /\ SumFunctionOnSet(f, s) = f[x] + SumFunctionOnSet(f, t)
      /\ SumFunctionOnSet(g, s) = g[x] + SumFunctionOnSet(g, t)
      /\ SumFunctionOnSet(h, s) = h[x] + SumFunctionOnSet(h, t)
  BY <1>2, SumRemove
<1>6. SumFunctionOnSet(h, t) = SumFunctionOnSet(f, t) - SumFunctionOnSet(g, t)
  BY <1>1
<1>7. /\ f[x] \in Int /\ g[x] \in Int
      /\ SumFunctionOnSet(f, t) \in Int /\ SumFunctionOnSet(g, t) \in Int
  BY <1>2, FS_Subset, SumInt DEF IntOn
<1>. QED
  BY <1>5, <1>6, <1>7

(* A sum of zeros is zero. *)
LEMMA SumOfNothing ==
  ASSUME NEW f, NEW S, IsFiniteSet(S), \A x \in S : f[x] = 0
  PROVE  SumFunctionOnSet(f, S) = 0
BY SumDifference, SumInt DEF IntOn

(* Functions that agree on a set have the same sum over it. *)
LEMMA SumEqual ==
  ASSUME NEW f, NEW g, NEW S, IsFiniteSet(S), IntOn(f, S), \A x \in S : g[x] = f[x]
  PROVE  SumFunctionOnSet(g, S) = SumFunctionOnSet(f, S)
<1>. DEFINE zero == [x \in S |-> 0]
<1>1. IntOn(zero, S) /\ \A x \in S : zero[x] = 0 /\ g[x] = f[x] - zero[x]
  BY DEF IntOn
<1>. HIDE DEF zero
<1>2. SumFunctionOnSet(g, S) = SumFunctionOnSet(f, S) - SumFunctionOnSet(zero, S)
  BY <1>1, SumDifference
<1>. QED
  BY <1>1, <1>2, SumOfNothing, SumInt

(* The sum over one element. *)
LEMMA SumOne ==
  ASSUME NEW f, NEW x, f[x] \in Int
  PROVE  SumFunctionOnSet(f, {x}) = f[x]
<1>1. IsFiniteSet({x}) /\ IntOn(f, {x}) /\ x \in {x} /\ {x} \ {x} = {}
  BY FS_Singleton DEF IntOn
<1>. QED
  BY <1>1, SumRemove, SumOfNone

(* What is summed may be grouped by a key. *)
Keyed(key, S, L) == {x \in S : key[x] \in L}

(* The elements of one key, and those of the others, are the two parts of a *)
(* group.                                                                   *)
LEMMA KeyedParts ==
  ASSUME NEW f, NEW key, NEW S, IsFiniteSet(S), IntOn(f, S), NEW L, NEW k \in L
  PROVE  /\ IsFiniteSet(Keyed(key, S, L)) /\ IntOn(f, Keyed(key, S, L))
         /\ SumFunctionOnSet(f, Keyed(key, S, L)) =
              SumFunctionOnSet(f, Keyed(key, S, L \ {k})) + SumFunctionOnSet(f, Keyed(key, S, {k}))
BY FS_Subset, SumUnion DEF Keyed, IntOn

HasKeys(key, S, K) == \A x \in S : key[x] \in K
Groups(g, f, key, S, K) == \A k \in K : g[k] = SumFunctionOnSet(f, Keyed(key, S, {k}))

(* A sum over the elements is the sum over the keys of each key's sum: what *)
(* the ledger's booking by order adds up to.                                *)
LEMMA SumGrouped ==
  ASSUME NEW f, NEW key, NEW S, NEW K, IsFiniteSet(S), IsFiniteSet(K), IntOn(f, S),
         HasKeys(key, S, K), NEW g, Groups(g, f, key, S, K)
  PROVE  SumFunctionOnSet(f, S) = SumFunctionOnSet(g, K)
<1>. DEFINE Bad == {L \in SUBSET K : SumFunctionOnSet(f, Keyed(key, S, L)) # SumFunctionOnSet(g, L)}
<1>1. Keyed(key, S, K) = S
  BY DEF Keyed, HasKeys
<1>. SUFFICES ASSUME Bad # {} PROVE FALSE
  BY <1>1
<1>2. PICK L \in Bad : \A M \in Bad : M \subseteq L => M = L
  <2>1. Bad \subseteq SUBSET K
    OBVIOUS
  <2>. HIDE DEF Bad
  <2>. QED
    BY <2>1, Smallest
<1>3. SumFunctionOnSet(f, Keyed(key, S, L)) # SumFunctionOnSet(g, L) /\ L \in SUBSET K
  OBVIOUS
<1>4. L # {}
  BY <1>3, SumOfNone DEF Keyed
<1>5. PICK k \in L : TRUE
  BY <1>4
<1>6. SumFunctionOnSet(f, Keyed(key, S, L \ {k})) = SumFunctionOnSet(g, L \ {k})
  BY <1>2, <1>5
<1>. HIDE DEF Bad
<1>7. \A j \in K : g[j] = SumFunctionOnSet(f, Keyed(key, S, {j})) /\ g[j] \in Int
  <2>. SUFFICES ASSUME NEW j \in K
                PROVE  g[j] = SumFunctionOnSet(f, Keyed(key, S, {j})) /\ g[j] \in Int
    OBVIOUS
  <2>2. g[j] = SumFunctionOnSet(f, Keyed(key, S, {j}))
    BY DEF Groups
  <2>3. IsFiniteSet(Keyed(key, S, {j})) /\ IntOn(f, Keyed(key, S, {j}))
    BY KeyedParts
  <2>4. SumFunctionOnSet(f, Keyed(key, S, {j})) \in Int
    BY <2>3, SumInt
  <2>. QED
    BY <2>2, <2>4
<1>8. IsFiniteSet(L) /\ IntOn(g, L)
  BY <1>3, <1>7, FS_Subset DEF IntOn
<1>9. SumFunctionOnSet(g, L) = g[k] + SumFunctionOnSet(g, L \ {k}) /\ g[k] \in Int
  BY <1>5, <1>8, SumRemove DEF IntOn
<1>10. SumFunctionOnSet(f, Keyed(key, S, L)) =
         SumFunctionOnSet(f, Keyed(key, S, L \ {k})) + g[k]
  <2>1. SumFunctionOnSet(f, Keyed(key, S, L)) =
          SumFunctionOnSet(f, Keyed(key, S, L \ {k})) + SumFunctionOnSet(f, Keyed(key, S, {k}))
    BY <1>5, KeyedParts
  <2>2. k \in K
    BY <1>3, <1>5
  <2>. QED
    BY <1>7, <2>1, <2>2
<1>11. SumFunctionOnSet(g, L \ {k}) \in Int
  BY <1>8, FS_Subset, SumInt DEF IntOn
<1>. QED
  BY <1>3, <1>6, <1>9, <1>10, <1>11

-----------------------------------------------------------------------------

(* With: a function with one value set. *)
LEMMA WithDomain ==
  ASSUME NEW f, NEW x, NEW v
  PROVE  DOMAIN With(f, x, v) = DOMAIN f \cup {x}
BY DEF With

LEMMA WithAt ==
  ASSUME NEW f, NEW x, NEW v
  PROVE  With(f, x, v)[x] = v
BY DEF With

LEMMA WithElse ==
  ASSUME NEW f, NEW x, NEW v
  PROVE  \A y \in DOMAIN f : y # x => With(f, x, v)[y] = f[y]
BY DEF With

(* A ledger as a record of its five fields, so that an update is a record   *)
(* again.                                                                   *)
Shaped(l) ==
  l = [version |-> l.version, wallets |-> l.wallets, allocations |-> l.allocations,
       movements |-> l.movements, refunds |-> l.refunds]

Ledger(v, w, a, m, r) == [version |-> v, wallets |-> w, allocations |-> a, movements |-> m, refunds |-> r]

LEMMA LedgerWith ==
  ASSUME NEW l, Shaped(l), NEW x
  PROVE  /\ [l EXCEPT !.version = x] = Ledger(x, l.wallets, l.allocations, l.movements, l.refunds)
         /\ [l EXCEPT !.wallets = x] = Ledger(l.version, x, l.allocations, l.movements, l.refunds)
         /\ [l EXCEPT !.allocations = x] = Ledger(l.version, l.wallets, x, l.movements, l.refunds)
         /\ [l EXCEPT !.movements = x] = Ledger(l.version, l.wallets, l.allocations, x, l.refunds)
         /\ [l EXCEPT !.refunds = x] = Ledger(l.version, l.wallets, l.allocations, l.movements, x)
BY DEF Shaped, Ledger

LEMMA LedgerFields ==
  ASSUME NEW v, NEW w, NEW a, NEW m, NEW r
  PROVE  /\ Shaped(Ledger(v, w, a, m, r))
         /\ Ledger(v, w, a, m, r).version = v
         /\ Ledger(v, w, a, m, r).wallets = w
         /\ Ledger(v, w, a, m, r).allocations = a
         /\ Ledger(v, w, a, m, r).movements = m
         /\ Ledger(v, w, a, m, r).refunds = r
BY DEF Shaped, Ledger

(* The parts of a ledger's type. *)
AllocationsTyped(a) == \A o \in DOMAIN a : a[o] \in Allocation
RefundsTyped(r) ==
  (\A q \in DOMAIN r : r[q] \in Refund) /\ IsFiniteSet(DOMAIN r) /\ DOMAIN r \subseteq Nat

(* The ledger's type, field by field. *)
LEMMA LedgerParts ==
  ASSUME NEW l
  PROVE  LedgerTyped(l) <=>
           /\ Shaped(l) /\ l.version \in Int /\ l.wallets \in [AppleIds -> Wallet]
           /\ l.movements \in Seq(Movement)
           /\ AllocationsTyped(l.allocations) /\ RefundsTyped(l.refunds)
BY DEF LedgerTyped, Shaped, AllocationsTyped, RefundsTyped

(* What a movement of the money is booked as. *)
Details == {d \in [kind : {"charge", "reversal", "apple-refund", "manual", "manual-undo"},
                   form : Int, order : Int, of : Int] :
              d.kind \in {"charge", "reversal"} => d.order # 0}

(* A movement keeps the ledger's type, its refunds, its allocations and the *)
(* movements before it, and moves on the wallet's version.                  *)
LEMMA PushTyped ==
  ASSUME NEW l, LedgerTyped(l), NEW id \in AppleIds, NEW amount \in Int, NEW d \in Details
  PROVE  LET is == PushMovement(l, id, amount, d) IN
           /\ LedgerTyped(is)
           /\ is.refunds = l.refunds /\ is.allocations = l.allocations
           /\ is.wallets[id].version = l.wallets[id].version + 1
           /\ \A n \in DOMAIN l.movements : n \in DOMAIN is.movements /\ is.movements[n] = l.movements[n]
<1>. DEFINE wallet == [balance |-> l.wallets[id].balance + amount, version |-> l.wallets[id].version + 1]
            entry == [appleId |-> id, amount |-> amount, after |-> wallet.balance, version |-> wallet.version,
                      undone |-> 0, kind |-> d.kind, form |-> d.form, order |-> d.order, of |-> d.of]
            w == [l.wallets EXCEPT ![id] = wallet]
            m == Append(l.movements, entry)
            paid == [l EXCEPT !.wallets = w]
            is == Ledger(l.version, w, l.allocations, m, l.refunds)
<1>0. /\ Shaped(l) /\ l.version \in Int /\ l.wallets \in [AppleIds -> Wallet] /\ l.movements \in Seq(Movement)
      /\ AllocationsTyped(l.allocations) /\ RefundsTyped(l.refunds)
  BY LedgerParts
<1>1. PushMovement(l, id, amount, d) = is
  <2>1. PushMovement(l, id, amount, d) = [paid EXCEPT !.movements = m]
    BY DEF PushMovement
  <2>. HIDE DEF m, w
  <2>2. paid = Ledger(l.version, w, l.allocations, l.movements, l.refunds)
    BY <1>0, LedgerWith
  <2>. HIDE DEF paid
  <2>3. /\ Shaped(paid) /\ paid.version = l.version /\ paid.wallets = w
        /\ paid.allocations = l.allocations /\ paid.refunds = l.refunds
    BY <2>2, LedgerFields
  <2>4. [paid EXCEPT !.movements = m] =
          Ledger(paid.version, paid.wallets, paid.allocations, m, paid.refunds)
    BY <2>3, LedgerWith, Zenon
  <2>. QED
    BY <2>1, <2>3, <2>4, Zenon
<1>2. l.wallets[id] \in Wallet
  BY <1>0
<1>3. wallet \in Wallet
  BY <1>2 DEF Wallet
<1>4. entry \in Movement
  BY <1>3 DEF Details, Movement, Wallet
<1>5. w \in [AppleIds -> Wallet] /\ w[id] = wallet
  BY <1>0, <1>3
<1>8. wallet.version = l.wallets[id].version + 1
  OBVIOUS
<1>. HIDE DEF entry, wallet
<1>7. m \in Seq(Movement) /\ \A n \in DOMAIN l.movements : n \in DOMAIN m /\ m[n] = l.movements[n]
  BY <1>0, <1>4
<1>. HIDE DEF m, w
<1>9. LedgerTyped(is)
  BY <1>0, <1>5, <1>7, LedgerFields, LedgerParts
<1>. QED
  BY <1>1, <1>5, <1>7, <1>8, <1>9, LedgerFields

LEMMA DetailTyped ==
  ASSUME NEW kind \in {"charge", "reversal", "apple-refund", "manual", "manual-undo"},
         NEW form \in Int, NEW order \in Int, NEW of \in Int,
         kind \in {"charge", "reversal"} => order # 0
  PROVE  Detail(kind, form, order, of) \in Details
BY DEF Detail, Details

(* The changes an order asks of the wallets, and their booking. *)
ChangeTyped(c) == c.appleId \in AppleIds /\ c.amount \in Int /\ c.kind \in {"charge", "reversal"}

LEMMA MoveTyped ==
  ASSUME NEW l, LedgerTyped(l), NEW order, order.id \in Nat \ {0}, NEW c, ChangeTyped(c), NEW form \in Int
  PROVE  LET is == MoveFor(l, order, c, form) IN LedgerTyped(is) /\ is.refunds = l.refunds
BY DetailTyped, PushTyped DEF ChangeTyped, MoveFor

LEMMA MovedTyped ==
  ASSUME NEW l, LedgerTyped(l), NEW order, order.id \in Nat \ {0}, NEW changes,
         \A n \in 1..Len(changes) : ChangeTyped(changes[n]),
         changes = << >> \/ Len(changes) = 1 \/ Len(changes) = 2, NEW form \in Int
  PROVE  LET is == Moved(l, order, changes, form) IN LedgerTyped(is) /\ is.refunds = l.refunds
<1>1. CASE changes = << >>
  BY <1>1 DEF Moved
<1>2. CASE changes # << >> /\ Len(changes) = 1
  BY <1>2, MoveTyped DEF Moved
<1>3. CASE changes # << >> /\ Len(changes) = 2
  <2>1. ChangeTyped(changes[1]) /\ ChangeTyped(changes[2])
    BY <1>3
  <2>. DEFINE first == MoveFor(l, order, changes[1], form)
  <2>2. LedgerTyped(first) /\ first.refunds = l.refunds
    BY <2>1, MoveTyped
  <2>. HIDE DEF first
  <2>3. Moved(l, order, changes, form) = MoveFor(first, order, changes[2], form)
    BY <1>3 DEF Moved, first
  <2>. QED
    BY <2>1, <2>2, <2>3, MoveTyped
<1>. QED
  BY <1>1, <1>2, <1>3

(* The fields of an order. *)
LEMMA OrderNumbers ==
  ASSUME NEW order \in Order
  PROVE  /\ order.id \in Nat \ {0} /\ order.account \in Nat
         /\ order.paid \in Int /\ order.received \in Int /\ order.version \in Int
BY DEF Order

LEMMA OrderLists ==
  ASSUME NEW order \in Order
  PROVE  /\ order.refunds \in Seq([id : Int, amount : Int, payment : {"bank", "apple"}])
         /\ order.returns \in Seq(Int) /\ order.corrections \in Seq(Correction)
BY DEF Order

LEMMA OrderEvidence ==
  ASSUME NEW order \in Order
  PROVE  order.evidence \subseteq {"bank", "apple", "receipt"} /\ order.payment \in {"bank", "apple"}
BY DEF Order

LEMMA OrderPayer ==
  ASSUME NEW order \in Order
  PROVE  /\ order.appleId \in AppleIds \cup {""}
         /\ order.payment = "apple" => order.appleId \in AppleIds
         /\ Charged(order) => order.appleId \in AppleIds
BY DEF Order, Charged

LEMMA NoName == "" \notin AppleIds
BY OrderDeskAssumption

(* The fields of an allocation, and of the one an order without any has. *)
LEMMA NoAllocationFields ==
  /\ NoAllocation.amount = 0 /\ NoAllocation.returned = 0 /\ NoAllocation.version = 0
  /\ NoAllocation.appleId = ""
BY DEF NoAllocation

LEMMA AllocationFields ==
  ASSUME NEW l, LedgerTyped(l), NEW o
  PROVE  /\ AllocationOf(l, o).amount \in Int /\ AllocationOf(l, o).returned \in Int
         /\ AllocationOf(l, o).version \in Int
         /\ o \in DOMAIN l.allocations => AllocationOf(l, o).appleId \in AppleIds
         /\ AllocationOf(l, o).appleId \in AppleIds => o \in DOMAIN l.allocations
<1>1. CASE o \in DOMAIN l.allocations
  BY <1>1 DEF LedgerTyped, AllocationOf, Allocation
<1>2. CASE o \notin DOMAIN l.allocations
  <2>1. AllocationOf(l, o) = NoAllocation
    BY <1>2 DEF AllocationOf
  <2>. QED
    <3>1. /\ AllocationOf(l, o).amount = 0 /\ AllocationOf(l, o).returned = 0
          /\ AllocationOf(l, o).version = 0 /\ AllocationOf(l, o).appleId = ""
      BY <2>1, NoAllocationFields
    <3>2. 0 \in Int
      OBVIOUS
    <3>. QED
      BY <1>2, <3>1, <3>2, NoName, Zenon
<1>. QED
  BY <1>1, <1>2

(* An order asks for two changes at most: the old Apple ID's money back,    *)
(* the new one's out.                                                       *)
LEMMA TwoChanges ==
  ASSUME NEW a, NEW b, ChangeTyped(a), ChangeTyped(b)
  PROVE  Len(<<a, b>>) = 2 /\ \A n \in 1..Len(<<a, b>>) : ChangeTyped(<<a, b>>[n])
OBVIOUS

LEMMA OneChange ==
  ASSUME NEW a, ChangeTyped(a)
  PROVE  Len(<<a>>) = 1 /\ \A n \in 1..Len(<<a>>) : ChangeTyped(<<a>>[n])
OBVIOUS

LEMMA ChangesTyped ==
  ASSUME NEW l, LedgerTyped(l), NEW order \in Order
  PROVE  LET changes == Changes(l, order) IN
           /\ \A n \in 1..Len(changes) : ChangeTyped(changes[n])
           /\ changes = << >> \/ Len(changes) = 1 \/ Len(changes) = 2
<1>. DEFINE prior == AllocationOf(l, order.id)
            had == order.id \in DOMAIN l.allocations
            moved == had /\ Charged(order) /\ prior.appleId # order.appleId
            more == order.paid - prior.amount
            changes == Changes(l, order)
<1>1. /\ prior.amount \in Int /\ Net(prior) \in Int /\ order.paid \in Int
      /\ had => prior.appleId \in AppleIds
      /\ Charged(order) => order.appleId \in AppleIds
  <2>1. /\ prior.amount \in Int /\ prior.returned \in Int
        /\ had => prior.appleId \in AppleIds
    BY AllocationFields
  <2>2. order.paid \in Int /\ (Charged(order) => order.appleId \in AppleIds)
    BY OrderNumbers, OrderPayer
  <2>. HIDE DEF prior, had
  <2>. QED
    BY <2>1, <2>2 DEF Net
<1>2. \A id \in AppleIds, amount \in Int : ChangeTyped(Change(id, amount))
  BY DEF ChangeTyped, Change
<1>3. changes = IF moved THEN <<Change(prior.appleId, Net(prior)), Change(order.appleId, -order.paid)>>
                ELSE IF Charged(order) /\ more # 0 THEN <<Change(order.appleId, -more)>>
                ELSE IF had /\ ~Charged(order) /\ Net(prior) > 0 THEN <<Change(prior.appleId, Net(prior))>>
                ELSE << >>
  BY DEF Changes
<1>. DEFINE none == Change(prior.appleId, Net(prior))
            first == Change(order.appleId, -order.paid)
            diff == Change(order.appleId, -more)
<1>8. /\ had => ChangeTyped(none)
      /\ Charged(order) => ChangeTyped(first) /\ ChangeTyped(diff)
  BY <1>1, <1>2
<1>9. changes = IF moved THEN <<none, first>>
                ELSE IF Charged(order) /\ more # 0 THEN <<diff>>
                ELSE IF had /\ ~Charged(order) /\ Net(prior) > 0 THEN <<none>>
                ELSE << >>
  BY <1>3
<1>. HIDE DEF changes, prior, none, first, diff, more
<1>. DEFINE Good == /\ \A n \in 1..Len(changes) : ChangeTyped(changes[n])
                    /\ changes = << >> \/ Len(changes) = 1 \/ Len(changes) = 2
<1>4. ASSUME moved PROVE Good
  BY <1>4, <1>8, <1>9, TwoChanges
<1>5. ASSUME ~moved, Charged(order) /\ more # 0 PROVE Good
  BY <1>5, <1>8, <1>9, OneChange
<1>6. ASSUME ~moved, ~(Charged(order) /\ more # 0), had /\ ~Charged(order) /\ Net(prior) > 0 PROVE Good
  BY <1>6, <1>8, <1>9, OneChange
<1>7. ASSUME changes = << >> PROVE Good
  BY <1>7
<1>10. Good
  BY <1>9, <1>4, <1>5, <1>6, <1>7
<1>. QED
  BY <1>10 DEF changes

(* Committing an order keeps the ledger's type and its refunds. *)
LEMMA CommitTyped ==
  ASSUME NEW l, LedgerTyped(l), NEW order \in Order, NEW reversal, NEW form \in Int
  PROVE  LET is == CommitOrder(l, order, reversal, form).ledger IN
           LedgerTyped(is) /\ is.refunds = l.refunds
<1>. DEFINE moved == Moved(l, order, Changes(l, order), form)
            a == NextAllocations(l, order)
            is == [moved EXCEPT !.allocations = a]
<1>1. LedgerTyped(moved) /\ moved.refunds = l.refunds
  <2>1. order.id \in Nat \ {0}
    BY OrderNumbers
  <2>. DEFINE changes == Changes(l, order)
  <2>2. /\ \A n \in 1..Len(changes) : ChangeTyped(changes[n])
        /\ changes = << >> \/ Len(changes) = 1 \/ Len(changes) = 2
    BY ChangesTyped
  <2>. HIDE DEF changes
  <2>. QED
    BY <2>1, <2>2, MovedTyped DEF changes
<1>2. AllocationsTyped(a)
  <2>. DEFINE rest == Restrict(l.allocations, DOMAIN l.allocations \ {order.id})
              one == NextAllocation(l, order)
  <2>1. AllocationsTyped(rest)
    BY DEF Restrict, LedgerTyped, AllocationsTyped
  <2>2. Charged(order) => one \in Allocation
    <3>1. /\ AllocationOf(l, order.id).returned \in Int /\ AllocationOf(l, order.id).version \in Int
      BY AllocationFields
    <3>2. order.paid \in Int /\ (Charged(order) => order.appleId \in AppleIds)
      BY OrderNumbers, OrderPayer
    <3>. QED
      BY <3>1, <3>2 DEF NextAllocation, Allocation
  <2>. HIDE DEF rest, one
  <2>3. a = IF Charged(order) THEN With(rest, order.id, one) ELSE rest
    BY DEF NextAllocations, rest, one
  <2>. QED
    <3>1. CASE Charged(order)
      <4>1. one \in Allocation /\ a = With(rest, order.id, one)
        BY <2>2, <2>3, <3>1
      <4>. HIDE DEF a
      <4>2. DOMAIN a = DOMAIN rest \cup {order.id}
        BY <4>1, WithDomain
      <4>3. a[order.id] = one
        BY <4>1, WithAt
      <4>4. \A y \in DOMAIN rest : y # order.id => a[y] = rest[y]
        BY <4>1, WithElse
      <4>. QED
        BY <2>1, <4>1, <4>2, <4>3, <4>4 DEF AllocationsTyped
    <3>. QED
      BY <2>1, <2>3, <3>1
<1>. HIDE DEF moved, a
<1>3. is = Ledger(moved.version, moved.wallets, a, moved.movements, moved.refunds)
  BY <1>1, LedgerWith, LedgerParts
<1>. HIDE DEF is
<1>4. LedgerTyped(is) /\ is.refunds = l.refunds
  BY <1>1, <1>2, <1>3, LedgerParts, LedgerFields
<1>. QED
  BY <1>4 DEF CommitOrder, Done, Refused, is, moved, a

-----------------------------------------------------------------------------
(* The orders. *)

(* The fields of what a form says of an order. *)
LEMMA ValueFields ==
  ASSUME NEW v \in Value
  PROVE  v.payment \in {"bank", "apple"} /\ v.paid \in Int /\ v.received \in Int
BY DEF Value

LEMMA ValuePayer ==
  ASSUME NEW v \in Value
  PROVE  v.appleId \in AppleIds \cup {""} /\ (v.payment = "apple" => v.appleId \in AppleIds)
BY DEF Value

(* What an order says of itself has their type. *)
LEMMA ValuesTyped ==
  ASSUME NEW order \in Order
  PROVE  Values(order) \in Value
BY DEF Values, Value, Order

LEMMA EvidenceTyped ==
  ASSUME NEW v, v.payment \in {"bank", "apple"}
  PROVE  CurrentFinancialEvidence(v) \subseteq {"bank", "apple", "receipt"}
BY DEF CurrentFinancialEvidence

(* An order with other values, or with one field updated, is an order with  *)
(* the same history.                                                        *)
LEMMA WithValuesTyped ==
  ASSUME NEW order \in Order, NEW v \in Value
  PROVE  LET is == WithValues(order, v) IN
           /\ is \in Order
           /\ is.id = order.id /\ is.version = order.version
           /\ is.refunds = order.refunds /\ is.returns = order.returns /\ is.corrections = order.corrections
BY DEF Order, Value, WithValues

OrderRefunds == Seq([id : Int, amount : Int, payment : {"bank", "apple"}])

LEMMA WithCancelled ==
  ASSUME NEW order \in Order, NEW n \in Int, NEW c \in BOOLEAN
  PROVE  LET is == [order EXCEPT !.version = n, !.cancelled = c] IN
           /\ is \in Order
           /\ is.id = order.id /\ is.version = n
           /\ is.refunds = order.refunds /\ is.returns = order.returns /\ is.corrections = order.corrections
BY DEF Order

LEMMA WithEvidence ==
  ASSUME NEW order \in Order, NEW n \in Int, NEW evidence \in SUBSET {"bank", "apple", "receipt"}
  PROVE  LET is == [order EXCEPT !.version = n, !.evidence = evidence] IN
           /\ is \in Order
           /\ is.id = order.id /\ is.version = n
           /\ is.refunds = order.refunds /\ is.returns = order.returns /\ is.corrections = order.corrections
BY DEF Order

LEMMA JustEvidence ==
  ASSUME NEW order \in Order, NEW evidence \in SUBSET {"bank", "apple", "receipt"}
  PROVE  LET is == [order EXCEPT !.evidence = evidence] IN
           /\ is \in Order
           /\ is.id = order.id /\ is.version = order.version
           /\ is.refunds = order.refunds /\ is.returns = order.returns /\ is.corrections = order.corrections
           /\ is.payment = order.payment
BY DEF Order

-----------------------------------------------------------------------------

(* A sequence that stays or gets one more entry has lost nothing. *)
LEMMA PrefixSelf ==
  ASSUME NEW S, NEW s \in Seq(S)
  PROVE  IsPrefix(s, s)
BY DEF IsPrefix

LEMMA PrefixAppend ==
  ASSUME NEW S, NEW s \in Seq(S), NEW e \in S
  PROVE  IsPrefix(s, Append(s, e))
BY DEF IsPrefix

(* So has an order whose history gets one entry at most. *)
LEMMA GrowsBy ==
  ASSUME NEW order \in Order, NEW is, is.version = order.version + 1,
         is.corrections = order.corrections \/ \E e \in Correction : is.corrections = Append(order.corrections, e),
         is.refunds = order.refunds
           \/ \E e \in [id : Int, amount : Int, payment : {"bank", "apple"}] : is.refunds = Append(order.refunds, e),
         is.returns = order.returns \/ \E e \in Int : is.returns = Append(order.returns, e)
  PROVE  OrderGrows(order, is)
<1>1. /\ order.refunds \in Seq([id : Int, amount : Int, payment : {"bank", "apple"}])
      /\ order.returns \in Seq(Int) /\ order.corrections \in Seq(Correction)
  BY OrderLists
<1>2. IsPrefix(order.corrections, is.corrections)
  <2>1. CASE is.corrections = order.corrections
    BY <1>1, <2>1, PrefixSelf
  <2>2. ASSUME NEW e \in Correction, is.corrections = Append(order.corrections, e)
        PROVE  IsPrefix(order.corrections, is.corrections)
    BY <1>1, <2>2, PrefixAppend
  <2>. QED
    BY <2>1, <2>2
<1>3. IsPrefix(order.refunds, is.refunds)
  <2>. DEFINE E == [id : Int, amount : Int, payment : {"bank", "apple"}]
  <2>0. order.refunds \in Seq(E)
    BY <1>1
  <2>1. CASE is.refunds = order.refunds
    BY <2>0, <2>1, PrefixSelf
  <2>2. ASSUME NEW e \in E, is.refunds = Append(order.refunds, e)
        PROVE  IsPrefix(order.refunds, is.refunds)
    <3>. HIDE DEF E
    <3>. QED
      BY <2>0, <2>2, PrefixAppend
  <2>. QED
    BY <2>1, <2>2
<1>4. IsPrefix(order.returns, is.returns)
  <2>1. CASE is.returns = order.returns
    BY <1>1, <2>1, PrefixSelf
  <2>2. ASSUME NEW e \in Int, is.returns = Append(order.returns, e)
        PROVE  IsPrefix(order.returns, is.returns)
    BY <1>1, <2>2, PrefixAppend
  <2>. QED
    BY <2>1, <2>2
<1>. QED
  BY <1>2, <1>3, <1>4 DEF OrderGrows

(* Each change of an order makes an order, which has the next version and   *)
(* the whole history.                                                       *)
LEMMA CancelTyped ==
  ASSUME NEW order \in Order, NEW c \in BOOLEAN
  PROVE  LET is == Cancel(order, c) IN
           is \in Order /\ is.id = order.id /\ OrderGrows(order, is)
<1>. DEFINE n == order.version + 1
            is == [order EXCEPT !.version = n, !.cancelled = c]
<1>1. n \in Int
  BY OrderNumbers
<1>. HIDE DEF n
<1>2. /\ is \in Order
      /\ is.id = order.id /\ is.version = n
      /\ is.refunds = order.refunds /\ is.returns = order.returns /\ is.corrections = order.corrections
  BY <1>1, WithCancelled, ZenonT(60)
<1>. HIDE DEF is
<1>3. OrderGrows(order, is)
  BY <1>2, GrowsBy DEF n
<1>. QED
  BY <1>2, <1>3 DEF Cancel, is, n

LEMMA BankReturnTyped ==
  ASSUME NEW order \in Order, NEW amount \in Int
  PROVE  LET is == RegisterBankReturn(order, amount) IN
           is \in Order /\ is.id = order.id /\ OrderGrows(order, is)
<1>. DEFINE n == order.version + 1
            returns == Append(order.returns, amount)
            is == [order EXCEPT !.version = n, !.returns = returns]
<1>1. n \in Int /\ returns \in Seq(Int)
  BY OrderNumbers, OrderLists
<1>. HIDE DEF n, returns
<1>2. /\ is \in Order
      /\ is.id = order.id /\ is.version = n
      /\ is.refunds = order.refunds /\ is.returns = returns /\ is.corrections = order.corrections
  BY <1>1 DEF Order
<1>. HIDE DEF is
<1>3. OrderGrows(order, is)
  BY <1>2, GrowsBy DEF n, returns
<1>. QED
  BY <1>2, <1>3 DEF RegisterBankReturn, is, n, returns

LEMMA RefundTyped ==
  ASSUME NEW order \in Order, NEW id \in Int, NEW amount \in Int
  PROVE  LET is == RegisterRefund(order, id, amount) IN
           /\ is \in Order /\ is.id = order.id /\ OrderGrows(order, is)
           /\ \E refund : refund.id = id /\ is.refunds = Append(order.refunds, refund)
<1>. DEFINE n == order.version + 1
            refund == [id |-> id, amount |-> amount, payment |-> order.payment]
            refunds == Append(order.refunds, refund)
            is == [order EXCEPT !.version = n, !.refunds = refunds]
<1>1. n \in Int /\ refund \in [id : Int, amount : Int, payment : {"bank", "apple"}] /\ refund.id = id
  BY OrderNumbers, OrderEvidence
<1>. HIDE DEF n, refund
<1>4. refunds \in OrderRefunds
  BY <1>1, OrderLists DEF OrderRefunds
<1>. HIDE DEF refunds
<1>2. /\ is \in Order
      /\ is.id = order.id /\ is.version = n
      /\ is.refunds = refunds /\ is.returns = order.returns /\ is.corrections = order.corrections
  BY <1>1, <1>4 DEF Order, OrderRefunds
<1>. HIDE DEF is
<1>3. OrderGrows(order, is)
  BY <1>1, <1>2, GrowsBy DEF n, refunds
<1>5. RegisterRefund(order, id, amount) = is
  BY DEF RegisterRefund, is, n, refund, refunds
<1>. QED
  BY <1>1, <1>2, <1>3, <1>5 DEF refunds

LEMMA FinancialEvidenceTyped ==
  ASSUME NEW order \in Order
  PROVE  FinancialEvidence(order) \subseteq {"bank", "apple", "receipt"}
<1>1. order.evidence \subseteq {"bank", "apple", "receipt"} /\ order.payment \in {"bank", "apple"}
  BY OrderEvidence
<1>2. \A n \in DOMAIN order.corrections : order.corrections[n].previous.payment \in {"bank", "apple"}
  <2>1. order.corrections \in Seq(Correction)
    BY OrderLists
  <2>2. \A n \in DOMAIN order.corrections : order.corrections[n] \in Correction
    BY <2>1
  <2>. QED
    BY <2>2 DEF Correction, Value
<1>3. CurrentFinancialEvidence(order) \subseteq {"bank", "apple", "receipt"}
  BY <1>1, EvidenceTyped
<1>4. \A n \in DOMAIN order.corrections :
        CurrentFinancialEvidence(order.corrections[n].previous) \subseteq {"bank", "apple", "receipt"}
  BY <1>2, EvidenceTyped
<1>. QED
  BY <1>1, <1>3, <1>4 DEF FinancialEvidence

LEMMA CorrectTyped ==
  ASSUME NEW order \in Order, NEW v \in Value, NEW allocation \in Allocation \cup {NoAllocation}
  PROVE  LET is == CorrectOrder(order, v, allocation) IN
           is \in Order /\ is.id = order.id /\ OrderGrows(order, is)
<1>. DEFINE n == order.version + 1
            note == [previous |-> Values(order), versionAfter |-> n, ledgerAfter |-> allocation]
            evidence == FinancialEvidence(order) \cup CurrentFinancialEvidence(v)
            corrections == Append(order.corrections, note)
            row == WithValues(order, v)
            is == [row EXCEPT !.version = n, !.evidence = evidence, !.corrections = corrections]
<1>1. n \in Int
  BY OrderNumbers
<1>2. note \in Correction
  BY <1>1, ValuesTyped DEF Correction
<1>3. evidence \in SUBSET {"bank", "apple", "receipt"}
  BY FinancialEvidenceTyped, ValueFields, EvidenceTyped
<1>. HIDE DEF note, evidence
<1>4. corrections \in Seq(Correction)
  BY <1>2, OrderLists
<1>5. /\ row \in Order /\ row.id = order.id
      /\ row.refunds = order.refunds /\ row.returns = order.returns
  BY WithValuesTyped
<1>6. CorrectOrder(order, v, allocation) = is
  BY DEF CorrectOrder, note, evidence
<1>. HIDE DEF n, corrections, row
<1>7. /\ is \in Order
      /\ is.id = row.id /\ is.version = n
      /\ is.refunds = row.refunds /\ is.returns = row.returns /\ is.corrections = corrections
  BY <1>1, <1>3, <1>4, <1>5 DEF Order
<1>. HIDE DEF is
<1>8. OrderGrows(order, is)
  BY <1>2, <1>5, <1>7, GrowsBy DEF n, corrections
<1>. QED
  BY <1>5, <1>6, <1>7, <1>8

LEMMA UndoneTyped ==
  ASSUME NEW order \in Order, order.corrections # << >>
  PROVE  LET is == Undone(order) IN
           /\ is \in Order
           /\ is.id = order.id /\ is.version = order.version
           /\ is.refunds = order.refunds /\ is.returns = order.returns /\ is.corrections = order.corrections
<1>. DEFINE v == Last(order.corrections).previous
<1>1. Last(order.corrections) \in Correction
  BY OrderLists DEF Last
<1>2. v \in Value
  BY <1>1 DEF Correction
<1>. HIDE DEF v
<1>. QED
  BY <1>2, WithValuesTyped DEF Undone, v

LEMMA UndoTyped ==
  ASSUME NEW order \in Order, order.corrections # << >>
  PROVE  LET is == UndoCorrection(order) IN
           is \in Order /\ is.id = order.id /\ OrderGrows(order, is)
<1>. DEFINE n == order.version + 1
            evidence == FinancialEvidence(order)
            row == Undone(order)
            is == [row EXCEPT !.version = n, !.evidence = evidence]
<1>1. n \in Int
  BY OrderNumbers
<1>3. evidence \in SUBSET {"bank", "apple", "receipt"}
  BY FinancialEvidenceTyped
<1>5. /\ row \in Order /\ row.id = order.id
      /\ row.refunds = order.refunds /\ row.returns = order.returns /\ row.corrections = order.corrections
  BY UndoneTyped
<1>6. UndoCorrection(order) = is
  BY DEF UndoCorrection
<1>. HIDE DEF n, row, evidence
<1>7. /\ is \in Order
      /\ is.id = row.id /\ is.version = n
      /\ is.refunds = row.refunds /\ is.returns = row.returns /\ is.corrections = row.corrections
  BY <1>1, <1>3, <1>5, WithEvidence, ZenonT(60)
<1>. HIDE DEF is
<1>8. OrderGrows(order, is)
  BY <1>5, <1>7, GrowsBy DEF n
<1>. QED
  BY <1>5, <1>6, <1>7, <1>8

(* A new order is an order. *)
LEMMA NewTyped ==
  ASSUME NEW id \in Nat \ {0}, NEW kind \in {"stock", "renewal"}, NEW account \in Nat, NEW v \in Value
  PROVE  LET is == NewOrder(id, kind, account, v) IN is \in Order /\ is.id = id
<1>. DEFINE evidence == CurrentFinancialEvidence(v)
            owner == IF kind = "stock" THEN id ELSE account
<1>1. evidence \in SUBSET {"bank", "apple", "receipt"}
  BY ValueFields, EvidenceTyped
<1>2. << >> \in Seq(Correction) /\ << >> \in Seq(Int) /\ << >> \in OrderRefunds
  BY DEF OrderRefunds
<1>3. /\ v.payment \in {"bank", "apple"} /\ v.paid \in Int /\ v.received \in Int
      /\ v.appleId \in AppleIds \cup {""} /\ (v.payment = "apple" => v.appleId \in AppleIds)
  BY ValueFields, ValuePayer
<1>4. owner \in Nat /\ 1 \in Int /\ FALSE \in BOOLEAN
  OBVIOUS
<1>. DEFINE gone == FALSE
            none == << >>
            row == [id |-> id, kind |-> kind, account |-> owner, payment |-> v.payment,
                    appleId |-> v.appleId, paid |-> v.paid, received |-> v.received,
                    cancelled |-> gone, refunds |-> none, returns |-> none, corrections |-> none,
                    evidence |-> evidence, version |-> 1]
<1>5. NewOrder(id, kind, account, v) = row
  BY DEF NewOrder
<1>6. gone \in BOOLEAN /\ none \in OrderRefunds /\ none \in Seq(Int) /\ none \in Seq(Correction)
  BY <1>2
<1>. HIDE DEF evidence, owner, gone, none
<1>7. row \in Order /\ row.id = id
  BY <1>1, <1>3, <1>4, <1>6 DEF Order, OrderRefunds
<1>. QED
  BY <1>5, <1>7

-----------------------------------------------------------------------------
(* The plans the page makes of its copies. *)

(* The fields of a form that was filled in. *)
LEMMA FormFields ==
  ASSUME NEW f, FormTyped(f)
  PROVE  /\ f.op \in OrderForms \cup LedgerForms /\ f.target \in Nat /\ f.id \in Nat \ {0} /\ f.n \in Nat
         /\ f.amount \in Int /\ f.back \in Int
BY DEF FormTyped

LEMMA FormDrawn ==
  ASSUME NEW f, FormTyped(f)
  PROVE  DrawnFor(f.n, f.id)
BY DEF FormTyped

LEMMA FormRest ==
  ASSUME NEW f, FormTyped(f)
  PROVE  /\ f.kind \in {"stock", "renewal"} /\ f.values \in Value
         /\ f.op = "adjust" => f.appleId \in AppleIds
BY DEF FormTyped

LEMMA FormSeen ==
  ASSUME NEW f, FormTyped(f), f.op \notin {"new", "undo-adjust"}
  PROVE  f.seen[1] \in Int
<1>1. f.seen \in Seq(Int) /\ f.seen # << >>
  BY DEF FormTyped
<1>. QED
  BY <1>1

(* A row put into the orders. *)
LEMMA OrdersPut ==
  ASSUME NEW orders, OrdersTyped(orders), NEW row \in Order
  PROVE  OrdersTyped(With(orders, row.id, row))
<1>. DEFINE is == With(orders, row.id, row)
<1>1. DOMAIN is = DOMAIN orders \cup {row.id}
  BY WithDomain
<1>2. is[row.id] = row
  BY WithAt
<1>3. \A o \in DOMAIN orders : o # row.id => is[o] = orders[o]
  BY WithElse
<1>. HIDE DEF is
<1>4. IsFiniteSet(DOMAIN is)
  BY <1>1, FS_AddElement DEF OrdersTyped
<1>5. \A o \in DOMAIN is : is[o] \in Order /\ is[o].id = o
  BY <1>1, <1>2, <1>3 DEF OrdersTyped
<1>. QED
  BY <1>4, <1>5 DEF OrdersTyped, is

LEMMA OrdersPutPlanned ==
  ASSUME NEW f, NEW orders, NEW row, row.id = Own(f),
         f.op # "new" =>
           /\ f.target \in DOMAIN orders /\ orders[f.target].version = f.seen[1]
           /\ OrderGrows(orders[f.target], row),
         f.op = "refund" =>
           \E refund : refund.id = f.id /\ row.refunds = Append(orders[f.target].refunds, refund)
  PROVE  OrdersPlanned(f, orders, With(orders, row.id, row))
<1>. DEFINE is == With(orders, row.id, row)
<1>1. DOMAIN is = DOMAIN orders \cup {row.id}
  BY WithDomain
<1>2. is[row.id] = row
  BY WithAt
<1>3. \A o \in DOMAIN orders : o # row.id => is[o] = orders[o]
  BY WithElse
<1>. HIDE DEF is
<1>4. f.op # "new" => is[f.target] = row
  BY <1>2 DEF Own
<1>5. f.op = "refund" => f.op # "new"
  OBVIOUS
<1>6. OrdersPlanned(f, orders, is)
  BY <1>1, <1>3, <1>4, <1>5 DEF OrdersPlanned
<1>. QED
  BY <1>6 DEF is

(* A ledger with the same refunds keeps what is asked of them. *)
LEMMA RefundsStay ==
  ASSUME NEW f, NEW was, NEW is, LedgerTyped(was), is.refunds = was.refunds
  PROVE  RefundsPlanned(f, was, is)
BY DEF RefundsPlanned, LedgerTyped, Refund

LEMMA OrderLedger ==
  ASSUME NEW f, f.op \in OrderForms, NEW was, NEW is, RefundsPlanned(f, was, is)
  PROVE  LedgerPlanned(f, was, is)
BY DEF LedgerPlanned, OrderForms

(* The fields of a plan. *)
LEMMA PlanParts ==
  ASSUME NEW ok, NEW orders, NEW ledger
  PROVE  /\ Plan(ok, orders, ledger).ok = ok /\ Plan(ok, orders, ledger).orders = orders
         /\ Plan(ok, orders, ledger).ledger = ledger
BY DEF Plan

(* A form about an order makes one row of it. *)
LEMMA OrderPlanGood ==
  ASSUME NEW f, FormTyped(f), f.op \in OrderForms,
         NEW orders, OrdersTyped(orders), NEW ledger, LedgerTyped(ledger),
         NEW row \in Order, row.id = Own(f),
         f.op # "new" =>
           /\ f.target \in DOMAIN orders /\ orders[f.target].version = f.seen[1]
           /\ OrderGrows(orders[f.target], row),
         f.op = "refund" =>
           \E refund : refund.id = f.id /\ row.refunds = Append(orders[f.target].refunds, refund),
         NEW charge, LedgerTyped(charge.ledger), RefundsPlanned(f, ledger, charge.ledger)
  PROVE  PlanGood(f, orders, ledger, WithOrder(row, orders, charge))
<1>. DEFINE plan == WithOrder(row, orders, charge)
            is == With(orders, row.id, row)
<1>1. plan.orders = is /\ plan.ledger = charge.ledger
  BY PlanParts DEF WithOrder
<1>2. OrdersTyped(is) /\ OrdersPlanned(f, orders, is)
  BY OrdersPut, OrdersPutPlanned
<1>3. LedgerPlanned(f, ledger, charge.ledger)
  BY OrderLedger
<1>4. f.op \notin LedgerForms
  BY DEF OrderForms, LedgerForms
<1>. HIDE DEF plan, is
<1>. QED
  BY <1>1, <1>2, <1>3, <1>4 DEF PlanGood, plan

(* A new order. *)
LEMMA NewPlan ==
  ASSUME NEW f, FormTyped(f), f.op = "new", NEW orders, OrdersTyped(orders), NEW ledger, LedgerTyped(ledger)
  PROVE  PlanGood(f, orders, ledger, PlanOrder(f, orders, ledger))
<1>. DEFINE row == NewOrder(f.id, f.kind, f.target, f.values)
            charge == CommitOrder(ledger, row, FALSE, f.id)
<1>1. f.id \in Nat \ {0} /\ f.target \in Nat /\ f.kind \in {"stock", "renewal"} /\ f.values \in Value
  BY FormFields, FormRest
<1>2. row \in Order /\ row.id = f.id
  BY <1>1, NewTyped
<1>3. PlanOrder(f, orders, ledger) = WithOrder(row, orders, charge)
  BY DEF PlanOrder
<1>. HIDE DEF row
<1>4. LedgerTyped(charge.ledger) /\ charge.ledger.refunds = ledger.refunds
  <2>. DEFINE unsaid == FALSE
  <2>. HIDE DEF unsaid
  <2>1. LET is == CommitOrder(ledger, row, unsaid, f.id).ledger IN
          LedgerTyped(is) /\ is.refunds = ledger.refunds
    BY <1>1, <1>2, CommitTyped
  <2>. QED
    BY <2>1 DEF unsaid
<1>. HIDE DEF charge
<1>5. RefundsPlanned(f, ledger, charge.ledger)
  BY <1>4, RefundsStay
<1>6. row.id = Own(f) /\ f.op \in OrderForms
  BY <1>2 DEF Own, OrderForms
<1>. QED
  BY <1>2, <1>3, <1>4, <1>5, <1>6, OrderPlanGood

(* The order a form is about. *)
About(f, orders) ==
  f.target \in DOMAIN orders /\ orders[f.target].version = f.seen[1]

(* The row a form is about. *)
LEMMA TargetTyped ==
  ASSUME NEW f, NEW orders, OrdersTyped(orders), About(f, orders)
  PROVE  orders[f.target] \in Order /\ orders[f.target].id = f.target
BY DEF OrdersTyped, About

LEMMA AllocationTyped ==
  ASSUME NEW l, LedgerTyped(l), NEW o
  PROVE  AllocationOf(l, o) \in Allocation \cup {NoAllocation}
BY DEF LedgerTyped, AllocationOf

(* A correction. *)
LEMMA CorrectPlan ==
  ASSUME NEW f, FormTyped(f), f.op = "correct", NEW orders, OrdersTyped(orders), About(f, orders),
         NEW ledger, LedgerTyped(ledger), PlanCorrection(f, orders, ledger).ok
  PROVE  PlanGood(f, orders, ledger, PlanCorrection(f, orders, ledger))
<1>. DEFINE order == orders[f.target]
            charge == CommitOrder(ledger, WithValues(order, f.values), f.reversal, f.id)
            allocation == AllocationOf(charge.ledger, f.target)
            row == CorrectOrder(order, f.values, allocation)
<1>1. order \in Order /\ order.id = f.target
  BY TargetTyped
<1>2. f.id \in Nat \ {0} /\ f.values \in Value
  BY FormFields, FormRest
<1>3. PlanCorrection(f, orders, ledger) = WithOrder(row, orders, charge)
  BY PlanParts DEF PlanCorrection
<1>4. About(f, orders)
  OBVIOUS
<1>. HIDE DEF order
<1>5. LedgerTyped(charge.ledger) /\ charge.ledger.refunds = ledger.refunds
  <2>. DEFINE valued == WithValues(order, f.values)
  <2>1. valued \in Order
    BY <1>1, <1>2, WithValuesTyped
  <2>. HIDE DEF valued
  <2>2. LET is == CommitOrder(ledger, valued, f.reversal, f.id).ledger IN
           LedgerTyped(is) /\ is.refunds = ledger.refunds
    BY <1>2, <2>1, CommitTyped
  <2>. QED
    BY <2>2 DEF valued
<1>. HIDE DEF charge
<1>6. row \in Order /\ row.id = f.target /\ OrderGrows(order, row)
  BY <1>5, AllocationTyped, <1>1, <1>2, CorrectTyped
<1>. HIDE DEF row
<1>7. RefundsPlanned(f, ledger, charge.ledger)
  BY <1>5, RefundsStay
<1>8. row.id = Own(f) /\ f.op \in OrderForms /\ OrderGrows(orders[f.target], row)
  BY <1>6 DEF Own, OrderForms, order
<1>. QED
  BY <1>3, <1>4, <1>5, <1>6, <1>7, <1>8, OrderPlanGood DEF About

(* A refund: the refund's entry in the ledger, then the row in the orders. *)
LEMMA PrepareGood ==
  ASSUME NEW f, FormTyped(f), f.op = "refund", NEW ledger, LedgerTyped(ledger),
         NEW order \in Order, order.id = f.target, order.payment = "apple"
  PROVE  LET is == PrepareRefund(ledger, order, f.id, f.back).ledger IN
           LedgerTyped(is) /\ RefundsPlanned(f, ledger, is)
<1>. DEFINE entry == [order |-> order.id, appleId |-> order.appleId, amount |-> f.back, version |-> 1,
                      status |-> IF f.back > 0 THEN "pending" ELSE "none"]
            refunds == With(ledger.refunds, f.id, entry)
            is == [ledger EXCEPT !.refunds = refunds]
<1>1. order.id \in Nat \ {0} /\ order.appleId \in AppleIds
  BY OrderNumbers, OrderPayer
<1>2. f.back \in Int /\ f.id \in Nat \ {0}
  BY FormFields
<1>3. entry \in Refund
  BY <1>1, <1>2 DEF Refund
<1>4. PrepareRefund(ledger, order, f.id, f.back) \in {Refused(ledger), Done(is)}
  BY DEF PrepareRefund
<1>0. entry.order = f.target
  OBVIOUS
<1>. HIDE DEF entry
<1>5. DOMAIN refunds = DOMAIN ledger.refunds \cup {f.id}
  BY WithDomain
<1>6. refunds[f.id] = entry
  BY WithAt
<1>7. \A q \in DOMAIN ledger.refunds : q # f.id => refunds[q] = ledger.refunds[q]
  BY WithElse
<1>. HIDE DEF refunds
<1>8. /\ Shaped(ledger) /\ ledger.version \in Int /\ ledger.wallets \in [AppleIds -> Wallet]
      /\ ledger.movements \in Seq(Movement)
      /\ AllocationsTyped(ledger.allocations) /\ RefundsTyped(ledger.refunds)
  BY LedgerParts
<1>9. RefundsTyped(refunds)
  <2>1. IsFiniteSet(DOMAIN refunds)
    <3>1. IsFiniteSet(DOMAIN ledger.refunds)
      BY <1>8 DEF RefundsTyped
    <3>2. IsFiniteSet(DOMAIN ledger.refunds \cup {f.id})
      BY <3>1, FS_AddElement
    <3>. QED
      BY <1>5, <3>2
  <2>2. DOMAIN refunds \subseteq Nat
    BY <1>2, <1>5, <1>8 DEF RefundsTyped
  <2>3. \A q \in DOMAIN refunds : refunds[q] \in Refund
    BY <1>3, <1>5, <1>6, <1>7, <1>8 DEF RefundsTyped
  <2>. QED
    BY <2>1, <2>2, <2>3 DEF RefundsTyped
<1>10. is = Ledger(ledger.version, ledger.wallets, ledger.allocations, ledger.movements, refunds)
  BY <1>8, LedgerWith
<1>. HIDE DEF is
<1>11. LedgerTyped(is) /\ is.refunds = refunds
  BY <1>8, <1>9, <1>10, LedgerParts, LedgerFields
<1>12. RefundsPlanned(f, ledger, is)
  BY <1>5, <1>11, <1>0, <1>6, <1>7, <1>8 DEF RefundsPlanned, RefundsTyped, Refund
<1>13. LedgerTyped(ledger) /\ RefundsPlanned(f, ledger, ledger)
  BY RefundsStay
<1>14. PrepareRefund(ledger, order, f.id, f.back).ledger \in {ledger, is}
  BY <1>4 DEF Refused, Done
<1>. QED
  BY <1>11, <1>12, <1>13, <1>14

LEMMA RefundPlan ==
  ASSUME NEW f, FormTyped(f), f.op = "refund", NEW orders, OrdersTyped(orders), About(f, orders),
         NEW ledger, LedgerTyped(ledger), PlanRefund(f, orders, ledger).ok
  PROVE  PlanGood(f, orders, ledger, PlanRefund(f, orders, ledger))
<1>. DEFINE order == orders[f.target]
            back == IF order.payment = "apple" THEN PrepareRefund(ledger, order, f.id, f.back) ELSE Done(ledger)
            row == RegisterRefund(order, f.id, f.amount)
<1>1. order \in Order /\ order.id = f.target
  BY TargetTyped
<1>2. f.id \in Nat \ {0} /\ f.amount \in Int
  BY FormFields
<1>3. PlanRefund(f, orders, ledger) = WithOrder(row, orders, back)
  BY PlanParts DEF PlanRefund
<1>4. About(f, orders)
  OBVIOUS
<1>. HIDE DEF order
<1>5. LedgerTyped(back.ledger) /\ RefundsPlanned(f, ledger, back.ledger)
  BY <1>1, PrepareGood, RefundsStay DEF Done
<1>. HIDE DEF back
<1>6. row \in Order /\ row.id = f.target /\ OrderGrows(order, row)
      /\ \E refund : refund.id = f.id /\ row.refunds = Append(order.refunds, refund)
  BY <1>1, <1>2, RefundTyped
<1>. HIDE DEF row
<1>8. row.id = Own(f) /\ f.op \in OrderForms /\ OrderGrows(orders[f.target], row)
      /\ \E refund : refund.id = f.id /\ row.refunds = Append(orders[f.target].refunds, refund)
  BY <1>6 DEF Own, OrderForms, order
<1>. QED
  BY <1>3, <1>4, <1>5, <1>6, <1>8, OrderPlanGood DEF About

(* A bank return. *)
LEMMA ReturnPlan ==
  ASSUME NEW f, FormTyped(f), f.op = "return", NEW orders, OrdersTyped(orders), About(f, orders),
         NEW ledger, LedgerTyped(ledger), PlanBankReturn(f, orders, ledger).ok
  PROVE  PlanGood(f, orders, ledger, PlanBankReturn(f, orders, ledger))
<1>. DEFINE order == orders[f.target]
            row == RegisterBankReturn(order, f.amount)
<1>1. order \in Order /\ order.id = f.target
  BY TargetTyped
<1>2. f.amount \in Int
  BY FormFields
<1>3. PlanBankReturn(f, orders, ledger) = WithOrder(row, orders, Done(ledger))
  BY PlanParts DEF PlanBankReturn
<1>4. About(f, orders)
  OBVIOUS
<1>. HIDE DEF order
<1>5. LedgerTyped(Done(ledger).ledger) /\ RefundsPlanned(f, ledger, Done(ledger).ledger)
  BY RefundsStay DEF Done
<1>6. row \in Order /\ row.id = f.target /\ OrderGrows(order, row)
  BY <1>1, <1>2, BankReturnTyped
<1>. HIDE DEF row
<1>8. row.id = Own(f) /\ f.op \in OrderForms /\ OrderGrows(orders[f.target], row)
  BY <1>6 DEF Own, OrderForms, order
<1>. QED
  BY <1>3, <1>4, <1>5, <1>6, <1>8, OrderPlanGood DEF About

(* An undo, a cancellation and a restoration. *)
LEMMA RowPlan ==
  ASSUME NEW f, FormTyped(f), f.op \in {"undo", "cancel", "restore"}, NEW orders, OrdersTyped(orders),
         About(f, orders), NEW ledger, LedgerTyped(ledger),
         NEW row \in Order, row.id = f.target, OrderGrows(orders[f.target], row),
         NEW back, LedgerTyped(back.ledger), back.ledger.refunds = ledger.refunds
  PROVE  PlanGood(f, orders, ledger, WithOrder(row, orders, back))
BY RefundsStay, OrderPlanGood DEF Own, OrderForms, About

LEMMA ReversalPlan ==
  ASSUME NEW f, FormTyped(f), f.op \in {"undo", "cancel", "restore"}, NEW orders, OrdersTyped(orders),
         About(f, orders), NEW ledger, LedgerTyped(ledger), PlanReversal(f, orders, ledger).ok
  PROVE  PlanGood(f, orders, ledger, PlanReversal(f, orders, ledger))
<1>. DEFINE order == orders[f.target]
            charge == CommitOrder(ledger, Undone(order), f.reversal, f.id)
            plan == PlanReversal(f, orders, ledger)
<1>1. order \in Order /\ order.id = f.target
  BY TargetTyped
<1>2. f.id \in Nat \ {0}
  BY FormFields
<1>3. About(f, orders)
  OBVIOUS
<1>4. \/ plan = WithOrder(Cancel(order, TRUE), orders, Done(ledger))
      \/ plan = WithOrder(Cancel(order, FALSE), orders, Done(ledger))
      \/ MayUndo(order, ledger) /\ plan = WithOrder(UndoCorrection(order), orders, charge)
      \/ plan = Plan(FALSE, orders, ledger)
  BY DEF PlanReversal
<1>0. plan.ok
  OBVIOUS
<1>. HIDE DEF plan, order, charge
<1>5. plan # Plan(FALSE, orders, ledger)
  BY <1>0 DEF Plan
<1>6. \A row \in Order : \A back :
        /\ row.id = order.id /\ OrderGrows(order, row)
        /\ LedgerTyped(back.ledger) /\ back.ledger.refunds = ledger.refunds
        => PlanGood(f, orders, ledger, WithOrder(row, orders, back))
  BY <1>1, <1>3, RowPlan DEF order
<1>. DEFINE kept == Done(ledger)
<1>7. LedgerTyped(kept.ledger) /\ kept.ledger.refunds = ledger.refunds
  BY DEF Done
<1>. HIDE DEF kept
<1>8. ASSUME plan = WithOrder(Cancel(order, TRUE), orders, Done(ledger))
      PROVE  PlanGood(f, orders, ledger, plan)
  <2>. DEFINE row == Cancel(order, TRUE)
  <2>1. row \in Order /\ row.id = order.id /\ OrderGrows(order, row)
    BY <1>1, CancelTyped
  <2>2. plan = WithOrder(row, orders, kept)
    BY <1>8 DEF kept
  <2>. HIDE DEF row
  <2>3. PlanGood(f, orders, ledger, WithOrder(row, orders, kept))
    BY <1>6, <1>7, <2>1
  <2>. QED
    BY <2>2, <2>3
<1>9. ASSUME plan = WithOrder(Cancel(order, FALSE), orders, Done(ledger))
      PROVE  PlanGood(f, orders, ledger, plan)
  <2>. DEFINE row == Cancel(order, FALSE)
  <2>1. row \in Order /\ row.id = order.id /\ OrderGrows(order, row)
    BY <1>1, CancelTyped
  <2>2. plan = WithOrder(row, orders, kept)
    BY <1>9 DEF kept
  <2>. HIDE DEF row
  <2>3. PlanGood(f, orders, ledger, WithOrder(row, orders, kept))
    BY <1>6, <1>7, <2>1
  <2>. QED
    BY <2>2, <2>3
<1>10. ASSUME MayUndo(order, ledger) /\ plan = WithOrder(UndoCorrection(order), orders, charge)
       PROVE  PlanGood(f, orders, ledger, plan)
  <2>1. order.corrections # << >>
    BY <1>10 DEF MayUndo
  <2>2. UndoCorrection(order) \in Order /\ UndoCorrection(order).id = order.id
        /\ OrderGrows(order, UndoCorrection(order))
    BY <1>1, <2>1, UndoTyped
  <2>3. LedgerTyped(charge.ledger) /\ charge.ledger.refunds = ledger.refunds
    <3>. DEFINE undone == Undone(order)
    <3>1. undone \in Order
      BY <1>1, <2>1, UndoneTyped
    <3>. HIDE DEF undone
    <3>2. LET is == CommitOrder(ledger, undone, f.reversal, f.id).ledger IN
            LedgerTyped(is) /\ is.refunds = ledger.refunds
      BY <1>2, <3>1, CommitTyped
    <3>. QED
      BY <3>2 DEF undone, charge
  <2>4. PlanGood(f, orders, ledger, WithOrder(UndoCorrection(order), orders, charge))
    BY <1>6, <2>2, <2>3
  <2>. QED
    BY <1>10, <2>4
<1>11. PlanGood(f, orders, ledger, plan)
  BY <1>4, <1>5, <1>8, <1>9, <1>10
<1>. QED
  BY <1>11 DEF plan

-----------------------------------------------------------------------------
(* The ledger's own forms. *)

(* The forms of the ledger leave the orders as they are. *)
LEMMA LedgerPlanGood ==
  ASSUME NEW f, f.op \in LedgerForms, NEW orders, OrdersTyped(orders), NEW ledger, NEW result,
         LedgerTyped(result.ledger), LedgerPlanned(f, ledger, result.ledger), result.ledger # ledger
  PROVE  PlanGood(f, orders, ledger, WithLedger(orders, result))
BY PlanParts DEF WithLedger, OrderForms, LedgerForms, PlanGood

(* An adjustment by hand. *)
LEMMA AdjustPlan ==
  ASSUME NEW f, FormTyped(f), f.op = "adjust", NEW ledger, LedgerTyped(ledger),
         Adjust(ledger, f.appleId, f.amount, f.seen[1], f.id).ok
  PROVE  LET is == Adjust(ledger, f.appleId, f.amount, f.seen[1], f.id).ledger IN
           LedgerTyped(is) /\ LedgerPlanned(f, ledger, is) /\ is # ledger
<1>. DEFINE d == Detail("manual", f.id, 0, 0)
            is == PushMovement(ledger, f.appleId, f.amount, d)
<1>1. f.amount \in Int /\ f.id \in Nat \ {0} /\ f.appleId \in AppleIds /\ f.seen[1] \in Int
  BY FormFields, FormRest, FormSeen
<1>2. d \in Details
  BY <1>1, DetailTyped
<1>3. /\ Adjust(ledger, f.appleId, f.amount, f.seen[1], f.id) = Done(is)
      /\ ledger.wallets[f.appleId].version = f.seen[1]
  BY DEF Adjust, Refused
<1>. HIDE DEF d
<1>4. /\ LedgerTyped(is) /\ is.refunds = ledger.refunds
      /\ is.wallets[f.appleId].version = ledger.wallets[f.appleId].version + 1
  BY <1>1, <1>2, PushTyped
<1>. HIDE DEF is
<1>5. RefundsPlanned(f, ledger, is)
  BY <1>4, RefundsStay
<1>6. LedgerPlanned(f, ledger, is)
  BY <1>3, <1>4, <1>5 DEF LedgerPlanned
<1>7. is # ledger
  BY <1>1, <1>3, <1>4
<1>. QED
  BY <1>3, <1>4, <1>6, <1>7 DEF Done

(* The undoing of an adjustment. *)
LEMMA UndoPlan ==
  ASSUME NEW f, FormTyped(f), f.op = "undo-adjust", NEW ledger, LedgerTyped(ledger),
         UndoAdjustment(ledger, f.target, f.id).ok
  PROVE  LET is == UndoAdjustment(ledger, f.target, f.id).ledger IN
           LedgerTyped(is) /\ LedgerPlanned(f, ledger, is) /\ is # ledger
<1>. DEFINE n == f.target
            entry == ledger.movements[n]
            mark == [entry EXCEPT !.undone = f.id]
            m == [ledger.movements EXCEPT ![n] = mark]
            marked == [ledger EXCEPT !.movements = m]
            back == -entry.amount
            d == Detail("manual-undo", f.id, 0, n)
            is == PushMovement(marked, entry.appleId, back, d)
<1>1. f.id \in Nat \ {0} /\ n \in Nat
  BY FormFields
<1>2. /\ UndoAdjustment(ledger, n, f.id) = Done(is)
      /\ n \in DOMAIN ledger.movements /\ entry.undone = 0
  BY DEF UndoAdjustment, Refused
<1>3. /\ Shaped(ledger) /\ ledger.version \in Int /\ ledger.wallets \in [AppleIds -> Wallet]
      /\ ledger.movements \in Seq(Movement)
      /\ AllocationsTyped(ledger.allocations) /\ RefundsTyped(ledger.refunds)
  BY LedgerParts
<1>4. entry \in Movement
  BY <1>2, <1>3
<1>5. entry.appleId \in AppleIds /\ back \in Int
  BY <1>4 DEF Movement
<1>6. mark \in Movement /\ mark.undone = f.id
  BY <1>1, <1>4 DEF Movement
<1>7. d \in Details
  BY <1>1, DetailTyped
<1>. HIDE DEF d, back, mark, entry
<1>8. m \in Seq(Movement) /\ n \in DOMAIN m /\ m[n] = mark
  BY <1>2, <1>3, <1>6
<1>. HIDE DEF m
<1>9. marked = Ledger(ledger.version, ledger.wallets, ledger.allocations, m, ledger.refunds)
  BY <1>3, LedgerWith
<1>. HIDE DEF marked
<1>10. LedgerTyped(marked) /\ marked.refunds = ledger.refunds /\ marked.movements = m
  BY <1>3, <1>8, <1>9, LedgerParts, LedgerFields
<1>11. /\ LedgerTyped(is) /\ is.refunds = marked.refunds
       /\ n \in DOMAIN is.movements /\ is.movements[n] = m[n]
  BY <1>5, <1>7, <1>8, <1>10, PushTyped
<1>. HIDE DEF is
<1>12. RefundsPlanned(f, ledger, is)
  BY <1>10, <1>11, RefundsStay
<1>13. LedgerPlanned(f, ledger, is)
  BY <1>1, <1>2, <1>6, <1>8, <1>11, <1>12 DEF LedgerPlanned, entry
<1>14. is # ledger
  BY <1>1, <1>2, <1>6, <1>8, <1>11 DEF entry
<1>. QED
  BY <1>2, <1>11, <1>13, <1>14 DEF Done

(* A refund with another amount or status, and an allocation some of which  *)
(* came back.                                                               *)
LEMMA WithRefundTyped ==
  ASSUME NEW l, LedgerTyped(l), NEW r \in DOMAIN l.refunds, NEW amount \in Int,
         NEW status \in {"pending", "received", "none"}
  PROVE  LET is == WithRefund(l, r, amount, status) IN
           /\ LedgerTyped(is)
           /\ DOMAIN is.refunds = DOMAIN l.refunds
           /\ is.refunds[r].version = l.refunds[r].version + 1
           /\ \A q \in DOMAIN l.refunds : q # r => is.refunds[q] = l.refunds[q]
<1>. DEFINE refund == [l.refunds[r] EXCEPT !.amount = amount, !.status = status,
                                          !.version = l.refunds[r].version + 1]
            refunds == With(l.refunds, r, refund)
            is == WithRefund(l, r, amount, status)
<1>1. /\ Shaped(l) /\ l.version \in Int /\ l.wallets \in [AppleIds -> Wallet] /\ l.movements \in Seq(Movement)
      /\ AllocationsTyped(l.allocations) /\ RefundsTyped(l.refunds)
  BY LedgerParts
<1>2. l.refunds[r] \in Refund
  BY <1>1 DEF RefundsTyped
<1>3. refund \in Refund /\ refund.version = l.refunds[r].version + 1
  <2>. DEFINE was == l.refunds[r]
              version == was.version + 1
  <2>1. was \in Refund
    BY <1>2
  <2>2. version \in Int
    BY <2>1 DEF Refund
  <2>3. refund = [was EXCEPT !.amount = amount, !.status = status, !.version = version]
    OBVIOUS
  <2>. HIDE DEF was, version, refund
  <2>4. refund \in Refund /\ refund.version = version
    BY <2>1, <2>2, <2>3 DEF Refund
  <2>. QED
    BY <2>4 DEF was, version
<1>4. is = [l EXCEPT !.refunds = refunds]
  BY DEF WithRefund
<1>. HIDE DEF refund
<1>5. DOMAIN refunds = DOMAIN l.refunds \cup {r}
  BY WithDomain
<1>6. refunds[r] = refund
  BY WithAt
<1>7. \A q \in DOMAIN l.refunds : q # r => refunds[q] = l.refunds[q]
  BY WithElse
<1>. HIDE DEF refunds
<1>8. DOMAIN refunds = DOMAIN l.refunds
  BY <1>5
<1>9. RefundsTyped(refunds)
  BY <1>1, <1>3, <1>6, <1>7, <1>8 DEF RefundsTyped
<1>. HIDE DEF is
<1>10. is = Ledger(l.version, l.wallets, l.allocations, l.movements, refunds)
  BY <1>1, <1>4, LedgerWith
<1>11. LedgerTyped(is) /\ is.refunds = refunds
  BY <1>1, <1>9, <1>10, LedgerParts, LedgerFields
<1>. QED
  BY <1>3, <1>6, <1>7, <1>8, <1>11 DEF is

LEMMA ReturnedTyped ==
  ASSUME NEW l, LedgerTyped(l), NEW o \in DOMAIN l.allocations, NEW amount \in Int
  PROVE  LET is == Returned(l, o, amount) IN LedgerTyped(is) /\ is.refunds = l.refunds
<1>. DEFINE one == [l.allocations[o] EXCEPT !.returned = l.allocations[o].returned + amount,
                                            !.version = l.allocations[o].version + 1]
            a == With(l.allocations, o, one)
            is == Returned(l, o, amount)
<1>1. /\ Shaped(l) /\ l.version \in Int /\ l.wallets \in [AppleIds -> Wallet] /\ l.movements \in Seq(Movement)
      /\ AllocationsTyped(l.allocations) /\ RefundsTyped(l.refunds)
  BY LedgerParts
<1>2. l.allocations[o] \in Allocation
  BY <1>1 DEF AllocationsTyped
<1>3. one \in Allocation
  <2>. DEFINE was == l.allocations[o]
              back == was.returned + amount
              version == was.version + 1
  <2>1. was \in Allocation
    BY <1>2
  <2>2. back \in Int /\ version \in Int
    BY <2>1 DEF Allocation
  <2>3. one = [was EXCEPT !.returned = back, !.version = version]
    OBVIOUS
  <2>. HIDE DEF was, version, back, one
  <2>. QED
    BY <2>1, <2>2, <2>3 DEF Allocation
<1>4. is = [l EXCEPT !.allocations = a]
  BY DEF Returned
<1>. HIDE DEF one
<1>5. DOMAIN a = DOMAIN l.allocations \cup {o}
  BY WithDomain
<1>6. a[o] = one
  BY WithAt
<1>7. \A q \in DOMAIN l.allocations : q # o => a[q] = l.allocations[q]
  BY WithElse
<1>. HIDE DEF a
<1>9. AllocationsTyped(a)
  BY <1>1, <1>3, <1>5, <1>6, <1>7 DEF AllocationsTyped
<1>. HIDE DEF is
<1>10. is = Ledger(l.version, l.wallets, a, l.movements, l.refunds)
  BY <1>1, <1>4, LedgerWith
<1>11. LedgerTyped(is) /\ is.refunds = l.refunds
  BY <1>1, <1>9, <1>10, LedgerParts, LedgerFields
<1>. QED
  BY <1>11 DEF is

(* What the check of a pending refund establishes. *)
LEMMA Verified ==
  ASSUME NEW f, FormTyped(f), f.op \in {"amend", "receive"}, NEW ledger, LedgerTyped(ledger),
         VerifyPendingRefund(ledger, f.target, f.seen)
  PROVE  /\ f.target \in DOMAIN ledger.refunds /\ ledger.refunds[f.target] \in Refund
         /\ ledger.refunds[f.target].version = f.seen[1]
         /\ ledger.refunds[f.target].order \in DOMAIN ledger.allocations
<1>1. f.target \in DOMAIN ledger.refunds /\ ledger.refunds[f.target] \in Refund
  BY DEF VerifyPendingRefund, LedgerTyped
<1>2. ledger.refunds[f.target].version = f.seen[1]
  BY DEF VerifyPendingRefund
<1>. DEFINE refund == ledger.refunds[f.target]
<1>3. AllocationOf(ledger, refund.order).appleId = refund.appleId
  BY DEF VerifyPendingRefund
<1>4. refund.appleId \in AppleIds
  BY <1>1 DEF Refund
<1>. HIDE DEF refund
<1>5. refund.order \in DOMAIN ledger.allocations
  BY <1>3, <1>4, AllocationFields
<1>. QED
  BY <1>1, <1>2, <1>5 DEF refund

(* A form that moves one refund on, and touches no other, did to the ledger *)
(* what it may.                                                             *)
LEMMA RefundMoved ==
  ASSUME NEW f, FormTyped(f), f.op \in {"amend", "receive"}, NEW was, LedgerTyped(was), NEW is,
         f.target \in DOMAIN was.refunds, was.refunds[f.target].version = f.seen[1],
         DOMAIN is.refunds = DOMAIN was.refunds,
         is.refunds[f.target].version = was.refunds[f.target].version + 1,
         \A q \in DOMAIN was.refunds : q # f.target => is.refunds[q] = was.refunds[q]
  PROVE  LedgerPlanned(f, was, is) /\ is # was
<1>1. \A q \in DOMAIN was.refunds : was.refunds[q].version \in Int
  BY DEF LedgerTyped, Refund
<1>2. RefundsPlanned(f, was, is)
  BY <1>1 DEF RefundsPlanned
<1>3. LedgerPlanned(f, was, is)
  BY <1>2 DEF LedgerPlanned
<1>4. is # was
  BY <1>1
<1>. QED
  BY <1>3, <1>4

(* A corrected refund, and a received one. *)
LEMMA AmendPlan ==
  ASSUME NEW f, FormTyped(f), f.op = "amend", NEW ledger, LedgerTyped(ledger),
         CorrectRefund(ledger, f.target, f.amount, f.seen).ok
  PROVE  LET is == CorrectRefund(ledger, f.target, f.amount, f.seen).ledger IN
           LedgerTyped(is) /\ LedgerPlanned(f, ledger, is) /\ is # ledger
<1>. DEFINE status == IF f.amount > 0 THEN "pending" ELSE "none"
            is == WithRefund(ledger, f.target, f.amount, status)
<1>1. CorrectRefund(ledger, f.target, f.amount, f.seen) = Done(is) /\ VerifyPendingRefund(ledger, f.target, f.seen)
  BY DEF CorrectRefund, Refused
<1>2. f.amount \in Int /\ status \in {"pending", "received", "none"}
  BY FormFields
<1>3. f.target \in DOMAIN ledger.refunds /\ ledger.refunds[f.target].version = f.seen[1]
  BY <1>1, Verified
<1>. HIDE DEF status
<1>4. /\ LedgerTyped(is)
      /\ DOMAIN is.refunds = DOMAIN ledger.refunds
      /\ is.refunds[f.target].version = ledger.refunds[f.target].version + 1
      /\ \A q \in DOMAIN ledger.refunds : q # f.target => is.refunds[q] = ledger.refunds[q]
  BY <1>2, <1>3, WithRefundTyped, ZenonT(60)
<1>. HIDE DEF is
<1>5. LedgerPlanned(f, ledger, is) /\ is # ledger
  BY <1>3, <1>4, RefundMoved
<1>. QED
  BY <1>1, <1>4, <1>5 DEF Done

LEMMA ReceivePlan ==
  ASSUME NEW f, FormTyped(f), f.op = "receive", NEW ledger, LedgerTyped(ledger),
         ReceiveRefund(ledger, f.target, f.seen, f.id).ok
  PROVE  LET is == ReceiveRefund(ledger, f.target, f.seen, f.id).ledger IN
           LedgerTyped(is) /\ LedgerPlanned(f, ledger, is) /\ is # ledger
<1>. DEFINE refund == ledger.refunds[f.target]
            o == refund.order
            returned == Returned(ledger, o, refund.amount)
            received == WithRefund(returned, f.target, refund.amount, "received")
            d == Detail("apple-refund", f.id, o, f.target)
            is == PushMovement(received, refund.appleId, refund.amount, d)
<1>1. /\ ReceiveRefund(ledger, f.target, f.seen, f.id) = Done(is)
      /\ VerifyPendingRefund(ledger, f.target, f.seen)
  BY DEF ReceiveRefund, Refused
<1>2. /\ f.target \in DOMAIN ledger.refunds /\ refund \in Refund
      /\ refund.version = f.seen[1] /\ o \in DOMAIN ledger.allocations
  BY <1>1, Verified
<1>3. refund.amount \in Int /\ refund.appleId \in AppleIds /\ o \in Int
  BY <1>2 DEF Refund
<1>4. d \in Details
  BY <1>3, FormFields, DetailTyped
<1>. HIDE DEF d, o
<1>. DEFINE amount == refund.amount
<1>5. LedgerTyped(returned) /\ returned.refunds = ledger.refunds
  BY <1>2, <1>3, ReturnedTyped
<1>. HIDE DEF returned, amount
<1>9. f.target \in DOMAIN returned.refunds /\ amount \in Int
  BY <1>2, <1>3, <1>5 DEF amount
<1>10. received = WithRefund(returned, f.target, amount, "received")
  BY DEF amount
<1>. HIDE DEF received
<1>6. /\ LedgerTyped(received)
      /\ DOMAIN received.refunds = DOMAIN ledger.refunds
      /\ received.refunds[f.target].version = ledger.refunds[f.target].version + 1
      /\ \A q \in DOMAIN ledger.refunds : q # f.target => received.refunds[q] = ledger.refunds[q]
  <2>. DEFINE r == f.target
              next == WithRefund(returned, r, amount, "received")
  <2>1. /\ LedgerTyped(next)
        /\ DOMAIN next.refunds = DOMAIN returned.refunds
        /\ next.refunds[r].version = returned.refunds[r].version + 1
        /\ \A q \in DOMAIN returned.refunds : q # r => next.refunds[q] = returned.refunds[q]
    BY <1>9, <1>5, WithRefundTyped
  <2>. QED
    BY <1>5, <1>10, <2>1
<1>7. LedgerTyped(is) /\ is.refunds = received.refunds
  BY <1>3, <1>4, <1>6, PushTyped
<1>. HIDE DEF is
<1>8. LedgerPlanned(f, ledger, is) /\ is # ledger
  BY <1>2, <1>6, <1>7, RefundMoved
<1>. QED
  BY <1>1, <1>7, <1>8 DEF Done

(* Whatever a form comes to, the documents it makes are typed, and it       *)
(* changes of them what it is about.                                        *)
LEMMA PlansAreGood ==
  ASSUME NEW f, FormTyped(f), NEW orders, OrdersTyped(orders), NEW ledger, LedgerTyped(ledger),
         PlanFor(f, orders, ledger).ok
  PROVE  PlanGood(f, orders, ledger, PlanFor(f, orders, ledger))
<1>. DEFINE plan == PlanFor(f, orders, ledger)
<1>1. f.op \in {"new", "correct", "refund", "return", "undo", "cancel", "restore",
                "adjust", "undo-adjust", "amend", "receive"}
  BY FormFields DEF OrderForms, LedgerForms
<1>2. SeenLast(f, orders)
  BY PlanParts DEF PlanFor
<1>3. f.op \in {"correct", "refund", "return", "undo", "cancel", "restore"} => About(f, orders)
  BY <1>2 DEF SeenLast, OrderForms, About
<1>4. CASE f.op = "new"
  BY <1>2, <1>4, NewPlan DEF PlanFor, OrderForms
<1>5. CASE f.op = "correct"
  BY <1>2, <1>5, <1>3, CorrectPlan DEF PlanFor, OrderForms
<1>6. CASE f.op = "refund"
  BY <1>2, <1>6, <1>3, RefundPlan DEF PlanFor, OrderForms
<1>7. CASE f.op = "return"
  BY <1>2, <1>7, <1>3, ReturnPlan DEF PlanFor, OrderForms
<1>8. CASE f.op \in {"undo", "cancel", "restore"}
  BY <1>2, <1>8, <1>3, ReversalPlan DEF PlanFor, OrderForms
<1>9. CASE f.op \in {"adjust", "undo-adjust", "amend", "receive"}
  <2>1. plan = PlanLedger(f, orders, ledger)
    BY <1>2, <1>9 DEF PlanFor, OrderForms
  <2>. DEFINE result == CASE f.op = "adjust" -> Adjust(ledger, f.appleId, f.amount, f.seen[1], f.id)
                          [] f.op = "undo-adjust" -> UndoAdjustment(ledger, f.target, f.id)
                          [] f.op = "amend" -> CorrectRefund(ledger, f.target, f.amount, f.seen)
                          [] f.op = "receive" -> ReceiveRefund(ledger, f.target, f.seen, f.id)
  <2>2. plan = WithLedger(orders, result)
    BY <1>9, <2>1 DEF PlanLedger
  <2>3. result.ok
    <3>1. plan.ok
      OBVIOUS
    <3>. HIDE DEF plan, result
    <3>. QED
      BY <2>2, <3>1, PlanParts DEF WithLedger
  <2>4. LedgerTyped(result.ledger) /\ LedgerPlanned(f, ledger, result.ledger) /\ result.ledger # ledger
    BY <2>3, AdjustPlan, UndoPlan, AmendPlan, ReceivePlan, <1>9
  <2>. HIDE DEF plan, result
  <2>5. PlanGood(f, orders, ledger, WithLedger(orders, result))
    BY <1>9, <2>4, LedgerPlanGood DEF LedgerForms
  <2>6. PlanGood(f, orders, ledger, plan)
    BY <2>2, <2>5
  <2>. QED
    BY <2>6 DEF plan
<1>. HIDE DEF plan
<1>. QED
  BY <1>1, <1>4, <1>5, <1>6, <1>7, <1>8, <1>9

-----------------------------------------------------------------------------
(* The forms the page offers. *)

(* A form before it has its numbers. *)
Blanks == [op : OrderForms \cup LedgerForms, target : Nat, seen : Seq(Int), n : Nat, id : Nat,
           kind : {"stock", "renewal"}, values : Value, appleId : AppleIds \cup {""},
           amount : Int, back : Int, reversal : BOOLEAN]

FormReady(f) ==
  /\ f \in Blanks
  /\ f.op = "adjust" => f.appleId \in AppleIds
  /\ f.op \notin {"new", "undo-adjust"} => f.seen # << >>
  /\ AmountsFit(f)

LEMMA MaxFormsBound == MaxForms \in Nat \ {0}
BY OrderDeskAssumption, Zenon

(* The numbers drawn for a form are its own. *)
LEMMA DrawnSelf ==
  ASSUME NEW n \in Nat
  PROVE  DrawnFor(n, n)
BY MaxFormsBound DEF DrawnFor

LEMMA DrawnNext ==
  ASSUME NEW n \in Nat, NEW x \in Nat, DrawnFor(n, x)
  PROVE  DrawnFor(n, x + MaxForms)
BY MaxFormsBound DEF DrawnFor

LEMMA Apart ==
  ASSUME NEW n \in 1..MaxForms, NEW m \in 1..MaxForms, NEW k \in Nat, NEW j \in Nat, k < j,
         n + k * MaxForms = m + j * MaxForms
  PROVE  FALSE
BY MaxFormsBound

LEMMA DrawnByOne ==
  ASSUME NEW n \in 1..MaxForms, NEW m \in 1..MaxForms, NEW x, DrawnFor(n, x), DrawnFor(m, x)
  PROVE  n = m
<1>1. PICK k \in 0..x : x = n + k * MaxForms
  BY DEF DrawnFor
<1>2. PICK j \in 0..x : x = m + j * MaxForms
  BY DEF DrawnFor
<1>3. k \in Nat /\ j \in Nat /\ n + k * MaxForms = m + j * MaxForms
  BY <1>1, <1>2
<1>4. ~(k < j) /\ ~(j < k)
  BY <1>3, Apart
<1>5. k = j
  BY <1>3, <1>4
<1>. QED
  BY <1>3, <1>5, MaxFormsBound

(* The numbers make it a form that was filled in. *)
LEMMA Numbered ==
  ASSUME NEW f, FormReady(f), NEW k \in Nat \ {0}
  PROVE  LET is == [f EXCEPT !.n = k, !.id = k] IN FormTyped(is) /\ is.n = k
<1>. DEFINE is == [f EXCEPT !.n = k, !.id = k]
<1>1. /\ is \in [op : OrderForms \cup LedgerForms, target : Nat, seen : Seq(Int), n : Nat, id : Nat \ {0},
                 kind : {"stock", "renewal"}, values : Value, appleId : AppleIds \cup {""},
                 amount : Int, back : Int, reversal : BOOLEAN]
      /\ is.op = f.op /\ is.appleId = f.appleId /\ is.seen = f.seen /\ is.n = k /\ is.id = k
      /\ is.amount = f.amount /\ is.back = f.back
  BY DEF FormReady, Blanks
<1>. HIDE DEF is
<1>2. AmountsFit(is)
  BY <1>1 DEF FormReady, AmountsFit
<1>3. FormTyped(is)
  BY <1>1, <1>2, DrawnSelf DEF FormReady, FormTyped
<1>. QED
  BY <1>1, <1>3 DEF is

(* The types of the values a form starts from. *)
LEMMA MaxAmountTyped == MaxAmount \in Int
<1>1. MaxAmount \in Nat \ {0}
  BY OrderDeskAssumption, Zenon
<1>. QED
  BY <1>1

LEMMA NoValuesTyped == NoValues \in Value
<1>1. NoValues \in [payment : {"bank", "apple"}, appleId : AppleIds \cup {""}, paid : Int, received : Int]
  BY DEF NoValues
<1>2. NoValues.payment # "apple"
  BY DEF NoValues
<1>. HIDE DEF NoValues
<1>. QED
  BY <1>1, <1>2 DEF Value

LEMMA Fresh ==
  ASSUME NEW op \in OrderForms \cup LedgerForms, NEW target \in Nat, NEW seen \in Seq(Int)
  PROVE  /\ Form(op, target, seen) \in Blanks
         /\ Form(op, target, seen).op = op /\ Form(op, target, seen).seen = seen
BY NoValuesTyped DEF Form, Blanks

(* Forms about an order carry its version. *)
LEMMA FreshAbout ==
  ASSUME NEW orders, OrdersTyped(orders), NEW o \in DOMAIN orders, NEW op \in OrderForms
  PROVE  LET f == Form(op, o, <<orders[o].version>>) IN f \in Blanks /\ f.op = op /\ f.seen # << >>
<1>. DEFINE version == orders[o].version
            seen == <<version>>
            f == Form(op, o, seen)
<1>1. orders[o] \in Order /\ orders[o].id = o
  BY DEF OrdersTyped
<1>2. version \in Int /\ o \in Nat
  BY <1>1, OrderNumbers
<1>. HIDE DEF version
<1>3. seen \in Seq(Int) /\ seen # << >>
  BY <1>2
<1>. HIDE DEF seen
<1>4. f \in Blanks /\ f.op = op /\ f.seen = seen
  BY <1>2, <1>3, Fresh, ZenonT(60)
<1>. QED
  BY <1>3, <1>4 DEF seen, version

(* Every form the page offers is ready to get its numbers. *)
LEMMA OptionsAreApple ==
  ASSUME NEW orders, NEW ledger, NEW order
  PROVE  AppleOptions(orders, ledger, order) \subseteq AppleIds
BY DEF AppleOptions

LEMMA NewReady ==
  ASSUME NEW orders, OrdersTyped(orders), NEW ledger
  PROVE  \A f \in NewOrders(orders, ledger) : FormReady(f)
<1>. DEFINE FilledIn(kind, account, values) ==
              [Form("new", account, << >>) EXCEPT !.kind = kind, !.values = values]
            Paid(a) == [NoValues EXCEPT !.payment = "apple", !.paid = a]
<1>1. \A kind \in {"stock", "renewal"}, account \in Nat, v \in Value : FormReady(FilledIn(kind, account, v))
  <2>. TAKE kind \in {"stock", "renewal"}, account \in Nat, v \in Value
  <2>. DEFINE f == Form("new", account, << >>)
  <2>1. << >> \in Seq(Int) /\ "new" \in OrderForms \cup LedgerForms
    BY DEF OrderForms
  <2>2. f \in Blanks /\ f.op = "new"
    BY <2>1, Fresh, ZenonT(60)
  <2>. HIDE DEF f
  <2>3. FormReady([f EXCEPT !.kind = kind, !.values = v])
    <3>1. f.op = "new"
      BY <2>2
    <3>. QED
      BY <2>2 DEF FormReady, Blanks, AmountsFit
  <2>. QED
    BY <2>3 DEF f
<1>2. \A a \in Int : [NoValues EXCEPT !.paid = a] \in Value
  BY NoValuesTyped DEF Value
<1>3. ASSUME NEW a \in Int, NEW id \in AppleIds
      PROVE  [Paid(a) EXCEPT !.appleId = id] \in Value
  <2>. DEFINE v == Paid(a)
  <2>1. v \in [payment : {"bank", "apple"}, appleId : AppleIds \cup {""}, paid : Int, received : Int]
    BY NoValuesTyped DEF Value
  <2>. HIDE DEF v
  <2>2. [v EXCEPT !.appleId = id] \in Value
    BY <2>1 DEF Value
  <2>. QED
    BY <2>2 DEF v
<1>4. 0..1 \subseteq Int /\ 1..MaxAmount \subseteq Int
  OBVIOUS
<1>5. \A o \in DOMAIN orders : orders[o].account \in Nat
  BY OrderNumbers DEF OrdersTyped
<1>. DEFINE Of(kind, account, values) == AppleOptions(orders, ledger, NewOrder(0, kind, account, values))
<1>. HIDE DEF FilledIn, Paid, Of
<1>7. \A kind, account, v : Of(kind, account, v) \subseteq AppleIds
  BY OptionsAreApple DEF Of
<1>. DEFINE Stock(v) == {FilledIn("stock", 0, [v EXCEPT !.appleId = id]) : id \in Of("stock", 0, v)}
            Renewal(v, o) == {FilledIn("renewal", orders[o].account, [v EXCEPT !.appleId = id]) :
                                id \in Of("renewal", orders[o].account, v)}
            Bank == {FilledIn("stock", 0, v) : v \in {[NoValues EXCEPT !.paid = a] : a \in 0..1}}
            Stocks == UNION {Stock(v) : v \in {Paid(a) : a \in 1..MaxAmount}}
            Renewals == UNION {Renewal(v, o) : v \in {Paid(a) : a \in 1..MaxAmount}, o \in DOMAIN orders}
<1>6. NewOrders(orders, ledger) \subseteq Bank \cup Stocks \cup Renewals
  <2>1. CASE Cardinality(DOMAIN orders) >= MaxOrders
    BY <2>1 DEF NewOrders
  <2>2. CASE ~(Cardinality(DOMAIN orders) >= MaxOrders)
    <3>1. NewOrders(orders, ledger) = Bank \cup Stocks \cup Renewals
      BY <2>2 DEF NewOrders, FilledIn, Paid, Of
    <3>. QED
      BY <3>1
  <2>. HIDE DEF Bank, Stocks, Renewals
  <2>. QED
    BY <2>1, <2>2
<1>8. \A f \in Bank : FormReady(f)
  BY <1>2, <1>1
<1>9. \A v \in {Paid(a) : a \in 1..MaxAmount}, id \in AppleIds : [v EXCEPT !.appleId = id] \in Value
  BY <1>3, <1>4
<1>10. \A f \in Stocks : FormReady(f)
  <2>1. ASSUME NEW v \in {Paid(a) : a \in 1..MaxAmount}, NEW f \in Stock(v) PROVE FormReady(f)
    BY <1>7, <1>9, <1>1
  <2>. HIDE DEF Stock
  <2>. QED
    BY <2>1
<1>11. \A f \in Renewals : FormReady(f)
  <2>1. ASSUME NEW v \in {Paid(a) : a \in 1..MaxAmount}, NEW o \in DOMAIN orders, NEW f \in Renewal(v, o)
        PROVE  FormReady(f)
    BY <1>7, <1>5, <1>9, <1>1
  <2>. HIDE DEF Renewal
  <2>. QED
    BY <2>1
<1>. HIDE DEF Bank, Stocks, Renewals
<1>. QED
  BY <1>6, <1>8, <1>10, <1>11

LEMMA CorrectedTyped ==
  ASSUME NEW orders, NEW ledger, NEW order \in Order
  PROVE  CorrectedValues(orders, ledger, order) \subseteq Value
<1>. DEFINE v == Values(order)
            Options == AppleOptions(orders, ledger, [order EXCEPT !.paid = 1])
<1>1. v \in Value
  BY ValuesTyped
<1>2. Options \subseteq AppleIds
  BY OptionsAreApple
<1>. DEFINE paidBy(id) == {[v EXCEPT !.payment = "apple", !.appleId = id, !.paid = a] : a \in 1..MaxAmount}
<1>. DEFINE Bank == {[v EXCEPT !.paid = a] : a \in 0..MaxAmount}
            Receipt == {[v EXCEPT !.received = a] : a \in {0, MaxAmount}}
            Card == {[v EXCEPT !.payment = "bank", !.appleId = "", !.paid = a] : a \in 0..1}
            Other == UNION {paidBy(id) : id \in Options}
<1>3. CorrectedValues(orders, ledger, order) = (Bank \cup Receipt \cup Card \cup Other) \ {v}
  BY DEF CorrectedValues
<1>. HIDE DEF v, Options
<1>4. 0..MaxAmount \subseteq Int /\ {0, MaxAmount} \subseteq Int /\ 0..1 \subseteq Int /\ 1..MaxAmount \subseteq Int
  BY MaxAmountTyped
<1>5. Bank \subseteq Value
  <2>1. \A a \in Int : [v EXCEPT !.paid = a] \in Value
    BY <1>1 DEF Value
  <2>. QED
    BY <1>4, <2>1
<1>6. Receipt \subseteq Value
  <2>1. \A a \in Int : [v EXCEPT !.received = a] \in Value
    BY <1>1 DEF Value
  <2>. QED
    BY <1>4, <2>1
<1>7. Card \subseteq Value
  <2>1. \A a \in Int : [v EXCEPT !.payment = "bank", !.appleId = "", !.paid = a] \in Value
    BY <1>1 DEF Value
  <2>. QED
    BY <1>4, <2>1
<1>8. \A id \in Options : paidBy(id) \subseteq Value
  <2>1. \A a \in Int, id \in AppleIds : [v EXCEPT !.payment = "apple", !.appleId = id, !.paid = a] \in Value
    BY <1>1 DEF Value
  <2>. QED
    BY <1>2, <1>4, <2>1
<1>. HIDE DEF paidBy, Bank, Receipt, Card
<1>9. Other \subseteq Value
  BY <1>8
<1>. HIDE DEF Other
<1>. QED
  BY <1>3, <1>5, <1>6, <1>7, <1>9

LEMMA CorrectionsReady ==
  ASSUME NEW orders, OrdersTyped(orders), NEW ledger
  PROVE  \A f \in Corrections(orders, ledger) : FormReady(f)
<1>. DEFINE FilledIn(o, v, r) == [Form("correct", o, <<orders[o].version>>) EXCEPT !.values = v, !.reversal = r]
            Reversals(o) == IF o \in DOMAIN ledger.allocations THEN BOOLEAN ELSE {FALSE}
            Row(o) == {FilledIn(o, v, r) : v \in CorrectedValues(orders, ledger, orders[o]), r \in Reversals(o)}
            Open == {o \in DOMAIN orders : ~orders[o].cancelled}
<1>1. ASSUME NEW o \in DOMAIN orders, NEW r \in BOOLEAN, NEW v \in CorrectedValues(orders, ledger, orders[o])
      PROVE  FormReady(FilledIn(o, v, r))
  <2>. DEFINE f == Form("correct", o, <<orders[o].version>>)
  <2>1. v \in Value
    BY CorrectedTyped DEF OrdersTyped
  <2>2. f \in Blanks /\ f.op = "correct" /\ f.seen # << >>
    BY FreshAbout DEF OrderForms
  <2>. HIDE DEF f
  <2>3. FormReady([f EXCEPT !.values = v, !.reversal = r])
    BY <2>1, <2>2 DEF FormReady, Blanks, AmountsFit
  <2>. QED
    BY <2>3 DEF f
<1>2. Corrections(orders, ledger) = UNION {Row(o) : o \in Open}
  BY DEF Corrections
<1>4. ASSUME NEW o PROVE Reversals(o) \subseteq BOOLEAN
  OBVIOUS
<1>. HIDE DEF FilledIn, Reversals
<1>3. ASSUME NEW o \in DOMAIN orders, NEW f \in Row(o) PROVE FormReady(f)
  <2>. DEFINE Corrected == CorrectedValues(orders, ledger, orders[o])
  <2>2. Reversals(o) \subseteq BOOLEAN
    BY <1>4
  <2>3. f \in {FilledIn(o, v, r) : v \in Corrected, r \in Reversals(o)}
    OBVIOUS
  <2>1. PICK v \in Corrected, r \in BOOLEAN : f = FilledIn(o, v, r)
    BY <2>2, <2>3
  <2>. QED
    BY <1>1, <2>1
<1>. HIDE DEF Row
<1>. QED
  BY <1>2, <1>3

LEMMA RefundableTyped ==
  ASSUME NEW order \in Order
  PROVE  Refundable(order) \in Int
<1>. DEFINE f == Amounts(order.refunds)
            S == DOMAIN order.refunds
<1>1. order.refunds \in OrderRefunds /\ order.received \in Int
  BY OrderLists, OrderNumbers DEF OrderRefunds
<1>2. IsFiniteSet(S)
  BY <1>1, FS_Interval DEF OrderRefunds
<1>3. \A n \in S : f[n] \in Int
  <2>. DEFINE R == [id : Int, amount : Int, payment : {"bank", "apple"}]
  <2>1. \A n \in S : order.refunds[n] \in R
    <3>1. order.refunds \in Seq(R)
      BY <1>1 DEF OrderRefunds
    <3>. HIDE DEF R
    <3>. QED
      BY <3>1
  <2>2. \A n \in S : f[n] = order.refunds[n].amount
    BY DEF Amounts
  <2>. HIDE DEF f, S
  <2>. QED
    BY <2>1, <2>2
<1>4. SumFunctionOnSet(f, S) \in Int
  BY <1>2, <1>3, SumInt DEF IntOn
<1>. QED
  BY <1>1, <1>4 DEF Refundable, Refunded, SumOf

LEMMA RefundsReady ==
  ASSUME NEW orders, OrdersTyped(orders)
  PROVE  \A f \in RefundForms(orders) : FormReady(f)
<1>. DEFINE FilledIn(o, a, b) == [Form("refund", o, <<orders[o].version>>) EXCEPT !.amount = a, !.back = b]
            Row(o) == {FilledIn(o, a, b) : a \in {1, Refundable(orders[o])},
                                         b \in IF orders[o].payment = "apple" THEN 0..1 ELSE {0}}
            Open == {o \in DOMAIN orders : ~orders[o].cancelled /\ Refundable(orders[o]) > 0}
<1>1. ASSUME NEW o \in DOMAIN orders, NEW b \in Nat, NEW a \in {1, Refundable(orders[o])}
      PROVE  FormReady(FilledIn(o, a, b))
  <2>. DEFINE f == Form("refund", o, <<orders[o].version>>)
  <2>1. a \in Int /\ b \in Int /\ b >= 0
    BY RefundableTyped DEF OrdersTyped
  <2>2. f \in Blanks /\ f.op = "refund" /\ f.seen # << >>
    BY FreshAbout DEF OrderForms
  <2>. HIDE DEF f
  <2>3. FormReady([f EXCEPT !.amount = a, !.back = b])
    BY <2>1, <2>2 DEF FormReady, Blanks, AmountsFit
  <2>. QED
    BY <2>3 DEF f
<1>2. RefundForms(orders) = UNION {Row(o) : o \in Open}
  BY DEF RefundForms
<1>. HIDE DEF FilledIn
<1>3. 0..1 \subseteq Nat /\ {0} \subseteq Nat
  OBVIOUS
<1>4. ASSUME NEW o \in DOMAIN orders, NEW f \in Row(o) PROVE FormReady(f)
  <2>. DEFINE Backs == IF orders[o].payment = "apple" THEN 0..1 ELSE {0}
              As == {1, Refundable(orders[o])}
  <2>2. Backs \subseteq Nat
    OBVIOUS
  <2>3. f \in {FilledIn(o, a, b) : a \in As, b \in Backs}
    OBVIOUS
  <2>. HIDE DEF Backs
  <2>1. PICK a \in As, b \in Nat : f = FilledIn(o, a, b)
    BY <2>2, <2>3
  <2>. QED
    BY <1>1, <2>1
<1>. HIDE DEF Row
<1>. QED
  BY <1>2, <1>4

LEMMA ReturnsReady ==
  ASSUME NEW orders, OrdersTyped(orders)
  PROVE  \A f \in BankReturnForms(orders) : FormReady(f)
<1>1. ASSUME NEW o \in DOMAIN orders
      PROVE  FormReady([Form("return", o, <<orders[o].version>>) EXCEPT !.amount = 1])
  <2>. DEFINE f == Form("return", o, <<orders[o].version>>)
  <2>2. f \in Blanks /\ f.op = "return" /\ f.seen # << >>
    BY FreshAbout DEF OrderForms
  <2>. HIDE DEF f
  <2>. DEFINE one == 1
  <2>1. one \in Int /\ one > 0
    OBVIOUS
  <2>. HIDE DEF one
  <2>3. FormReady([f EXCEPT !.amount = one])
    BY <2>1, <2>2 DEF FormReady, Blanks, AmountsFit
  <2>. QED
    BY <2>3 DEF f, one
<1>. QED
  BY <1>1 DEF BankReturnForms

LEMMA ReversalsReady ==
  ASSUME NEW orders, OrdersTyped(orders), NEW ledger
  PROVE  \A f \in ReversalForms(orders, ledger) : FormReady(f)
<1>. DEFINE Seen(op, o) == Form(op, o, <<orders[o].version>>)
<1>1. \A f \in ReversalForms(orders, ledger) : \E o \in DOMAIN orders :
        \/ f = Seen("cancel", o) \/ f = Seen("restore", o)
        \/ \E r \in BOOLEAN : f = [Seen("undo", o) EXCEPT !.reversal = r]
  BY DEF ReversalForms
<1>2. ASSUME NEW o \in DOMAIN orders, NEW op \in {"cancel", "restore", "undo"}
      PROVE  Seen(op, o) \in Blanks /\ Seen(op, o).op = op /\ Seen(op, o).seen # << >>
  BY FreshAbout DEF OrderForms
<1>. HIDE DEF Seen
<1>3. \A o \in DOMAIN orders, op \in {"cancel", "restore"} : FormReady(Seen(op, o))
  BY <1>2 DEF FormReady, AmountsFit
<1>4. ASSUME NEW o \in DOMAIN orders, NEW r \in BOOLEAN
      PROVE  FormReady([Seen("undo", o) EXCEPT !.reversal = r])
  <2>. DEFINE f == Seen("undo", o)
  <2>1. f \in Blanks /\ f.op = "undo" /\ f.seen # << >>
    BY <1>2
  <2>. HIDE DEF f
  <2>2. FormReady([f EXCEPT !.reversal = r])
    BY <2>1 DEF FormReady, Blanks, AmountsFit
  <2>. QED
    BY <2>2 DEF f
<1>. QED
  BY <1>1, <1>3, <1>4

LEMMA AdjustmentsReady ==
  ASSUME NEW ledger, LedgerTyped(ledger)
  PROVE  \A f \in AdjustmentForms(ledger) : FormReady(f)
<1>1. ASSUME NEW id \in AppleIds, NEW a \in {-1, 1}
      PROVE  FormReady([Form("adjust", 0, <<ledger.wallets[id].version>>) EXCEPT !.appleId = id, !.amount = a])
  <2>. DEFINE version == ledger.wallets[id].version
              seen == <<version>>
              f == Form("adjust", 0, seen)
  <2>1. version \in Int
    BY DEF LedgerTyped, Wallet
  <2>. HIDE DEF version
  <2>2. seen \in Seq(Int) /\ seen # << >>
    BY <2>1
  <2>. HIDE DEF seen
  <2>6. "adjust" \in OrderForms \cup LedgerForms /\ 0 \in Nat
    BY DEF LedgerForms
  <2>3. f \in Blanks /\ f.op = "adjust" /\ f.seen = seen
    BY <2>2, <2>6, Fresh
  <2>. HIDE DEF f
  <2>4. a \in Int
    OBVIOUS
  <2>5. FormReady([f EXCEPT !.appleId = id, !.amount = a])
    BY <2>2, <2>3, <2>4 DEF FormReady, Blanks, AmountsFit
  <2>. QED
    BY <2>5 DEF f, seen, version
<1>. DEFINE FilledIn(id, a) ==
              [Form("adjust", 0, <<ledger.wallets[id].version>>) EXCEPT !.appleId = id, !.amount = a]
<1>2. AdjustmentForms(ledger) = {FilledIn(id, a) : id \in AppleIds, a \in {-1, 1}}
  BY DEF AdjustmentForms
<1>3. \A id \in AppleIds, a \in {-1, 1} : FormReady(FilledIn(id, a))
  BY <1>1
<1>. HIDE DEF FilledIn
<1>. QED
  BY <1>2, <1>3

LEMMA UndosReady ==
  ASSUME NEW ledger, LedgerTyped(ledger)
  PROVE  \A f \in UndoForms(ledger) : FormReady(f)
<1>1. \A f \in UndoForms(ledger) : \E n \in DOMAIN ledger.movements : f = Form("undo-adjust", n, << >>)
  BY DEF UndoForms, MovesOf
<1>2. DOMAIN ledger.movements \subseteq Nat
  BY DEF LedgerTyped
<1>3. ASSUME NEW n \in Nat PROVE FormReady(Form("undo-adjust", n, << >>))
  <2>1. << >> \in Seq(Int) /\ "undo-adjust" \in OrderForms \cup LedgerForms
    BY DEF LedgerForms
  <2>. DEFINE f == Form("undo-adjust", n, << >>)
  <2>2. f \in Blanks /\ f.op = "undo-adjust"
    BY <2>1, Fresh
  <2>. HIDE DEF f
  <2>3. FormReady(f)
    BY <2>2 DEF FormReady, AmountsFit
  <2>. QED
    BY <2>3 DEF f
<1>. QED
  BY <1>1, <1>2, <1>3

LEMMA PendingReady ==
  ASSUME NEW ledger, LedgerTyped(ledger)
  PROVE  \A f \in PendingRefundForms(ledger) : FormReady(f)
<1>. DEFINE Seen(r) == LET refund == ledger.refunds[r] IN
                         <<refund.version, AllocationOf(ledger, refund.order).version,
                           ledger.wallets[refund.appleId].version>>
<1>. DEFINE Open == {r \in DOMAIN ledger.refunds : ledger.refunds[r].status = "pending"}
            Receives == {Form("receive", r, Seen(r)) : r \in Open}
            Amends == {[Form("amend", r, Seen(r)) EXCEPT !.amount = a] : r \in Open, a \in 0..MaxAmount}
<1>1. PendingRefundForms(ledger) = Receives \cup Amends
  BY DEF PendingRefundForms
<1>2. ASSUME NEW r \in DOMAIN ledger.refunds
      PROVE  r \in Nat /\ Seen(r) \in Seq(Int) /\ Seen(r) # << >>
  <2>. DEFINE refund == ledger.refunds[r]
              a == refund.version
              b == AllocationOf(ledger, refund.order).version
              c == ledger.wallets[refund.appleId].version
  <2>1. r \in Nat /\ refund \in Refund
    BY DEF LedgerTyped
  <2>2. a \in Int /\ refund.appleId \in AppleIds
    BY <2>1 DEF Refund
  <2>3. b \in Int
    BY AllocationFields
  <2>4. c \in Int
    BY <2>2 DEF LedgerTyped, Wallet
  <2>5. Seen(r) = <<a, b, c>>
    OBVIOUS
  <2>. HIDE DEF Seen, a, b, c
  <2>. QED
    BY <2>1, <2>2, <2>3, <2>4, <2>5
<1>. HIDE DEF Seen
<1>3. ASSUME NEW r \in DOMAIN ledger.refunds, NEW op \in {"receive", "amend"}, NEW a \in Nat
      PROVE  /\ op = "receive" => FormReady(Form(op, r, Seen(r)))
             /\ FormReady([Form(op, r, Seen(r)) EXCEPT !.amount = a])
  <2>. DEFINE seen == Seen(r)
              f == Form(op, r, seen)
  <2>1. seen \in Seq(Int) /\ seen # << >> /\ r \in Nat
    BY <1>2
  <2>. HIDE DEF seen
  <2>2. op \in OrderForms \cup LedgerForms
    BY DEF LedgerForms
  <2>3. f \in Blanks /\ f.op = op /\ f.seen = seen
    BY <2>1, <2>2, Fresh, ZenonT(60)
  <2>. HIDE DEF f
  <2>4. op = "receive" => FormReady(f)
    BY <2>1, <2>3 DEF FormReady, AmountsFit
  <2>6. a \in Int /\ a >= 0
    OBVIOUS
  <2>5. FormReady([f EXCEPT !.amount = a])
    BY <2>1, <2>3, <2>6 DEF FormReady, Blanks, AmountsFit
  <2>. QED
    BY <2>4, <2>5 DEF f, seen
<1>4. 0..MaxAmount \subseteq Nat /\ 0 \in Nat
  BY MaxAmountTyped
<1>5. \A f \in Receives : FormReady(f)
  BY <1>3, <1>4
<1>6. \A f \in Amends : FormReady(f)
  BY <1>3, <1>4
<1>. HIDE DEF Receives, Amends
<1>. QED
  BY <1>1, <1>5, <1>6

(* Every form the page offers is one of the forms. *)
LEMMA AllReady ==
  ASSUME NEW orders, OrdersTyped(orders), NEW ledger, LedgerTyped(ledger)
  PROVE  \A f \in AllForms(orders, ledger) : FormReady(f)
BY NewReady, CorrectionsReady, RefundsReady, ReturnsReady, ReversalsReady, AdjustmentsReady,
   UndosReady, PendingReady DEF AllForms

-----------------------------------------------------------------------------
(* A ledger that belongs to the orders accounts for all money. *)

(* MoneyIsAccounted, said of any ledger and orders. *)
Accounted(l, orders) ==
  LET ByHand(id) == MovesOf(l, {id}, {"manual", "manual-undo"})
      On(id) == {o \in DOMAIN l.allocations : l.allocations[o].appleId = id}
  IN  /\ \A id \in AppleIds :
           l.wallets[id].balance =
             SumOf(l.movements, ByHand(id))
               - SumFunctionOnSet([o \in DOMAIN l.allocations |-> Net(l.allocations[o])], On(id))
      /\ \A o \in DOMAIN orders :
           LET order == orders[o]
               charge == AllocationOf(l, o)
           IN  <<charge.appleId, charge.amount>> =
                 IF Charged(order) THEN <<order.appleId, order.paid>> ELSE <<"", 0>>

(* The fields of a movement; there are finitely many, with integers to add  *)
(* up.                                                                      *)
LEMMA MovementFields ==
  ASSUME NEW l, LedgerTyped(l), NEW n \in DOMAIN l.movements
  PROVE  LET m == l.movements[n] IN
           /\ m.amount \in Int /\ m.order \in Int /\ m.of \in Int /\ m.appleId \in AppleIds
           /\ m.kind \in {"charge", "reversal", "apple-refund", "manual", "manual-undo"}
           /\ m.kind \in {"charge", "reversal"} => m.order # 0
<1>. DEFINE m == l.movements[n]
<1>1. m \in Movement
  BY DEF LedgerTyped
<1>. HIDE DEF m
<1>2. /\ m.amount \in Int /\ m.order \in Int /\ m.of \in Int /\ m.appleId \in AppleIds
      /\ m.kind \in {"charge", "reversal", "apple-refund", "manual", "manual-undo"}
      /\ m.kind \in {"charge", "reversal"} => m.order # 0
  BY <1>1 DEF Movement
<1>. QED
  BY <1>2 DEF m

LEMMA MovementsFinite ==
  ASSUME NEW l, LedgerTyped(l)
  PROVE  IsFiniteSet(DOMAIN l.movements) /\ IntOn(Amounts(l.movements), DOMAIN l.movements)
BY FS_Interval, MovementFields DEF LedgerTyped, IntOn, Amounts

LEMMA IntOnPart ==
  ASSUME NEW f, NEW S, IntOn(f, S), NEW T, T \subseteq S
  PROVE  IntOn(f, T)
BY DEF IntOn

(* The movements of an Apple ID are by hand, for an order, or what came     *)
(* back.                                                                    *)
Charges(l, id) == MovesOf(l, {id}, {"charge", "reversal"})
Back(l, id) == MovesOf(l, {id}, {"apple-refund"})
Hand(l, id) == MovesOf(l, {id}, {"manual", "manual-undo"})

(* A wallet's movements are those by hand, the charges and what came back. *)
LEMMA MovementsParted ==
  ASSUME NEW l, LedgerTyped(l), NEW id \in AppleIds
  PROVE  SumOf(l.movements, MovesOn(l, id)) =
           SumOf(l.movements, Hand(l, id)) + (SumOf(l.movements, Charges(l, id)) + SumOf(l.movements, Back(l, id)))
<1>. DEFINE A == Amounts(l.movements)
            D == DOMAIN l.movements
            H == Hand(l, id)
            C == Charges(l, id)
            B == Back(l, id)
<1>1. IsFiniteSet(D) /\ IntOn(A, D)
  BY MovementsFinite
<1>2. H \subseteq D /\ C \subseteq D /\ B \subseteq D
  BY DEF Hand, Charges, Back, MovesOf
<1>3. MovesOn(l, id) = H \cup (C \cup B)
  BY MovementFields DEF Hand, Charges, Back, MovesOf, MovesOn
<1>4. C \cap B = {} /\ H \cap (C \cup B) = {}
  BY DEF Hand, Charges, Back, MovesOf
<1>. HIDE DEF A, D, H, C, B
<1>5. IsFiniteSet(H) /\ IsFiniteSet(C) /\ IsFiniteSet(B) /\ IsFiniteSet(C \cup B)
  BY <1>2, <1>1, FS_Subset
<1>6. IntOn(A, C \cup B) /\ IntOn(A, H \cup (C \cup B))
  BY <1>1, <1>2 DEF IntOn
<1>7. SumFunctionOnSet(A, C \cup B) = SumFunctionOnSet(A, C) + SumFunctionOnSet(A, B)
  BY <1>4, <1>5, <1>6, SumUnion
<1>8. SumFunctionOnSet(A, H \cup (C \cup B)) = SumFunctionOnSet(A, H) + SumFunctionOnSet(A, C \cup B)
  BY <1>4, <1>5, <1>6, SumUnion
<1>. QED
  BY <1>3, <1>7, <1>8 DEF SumOf, A, H, C, B

(* The allocations on an Apple ID are of orders, so there are finitely      *)
(* many.                                                                    *)
On(l, id) == {o \in DOMAIN l.allocations : l.allocations[o].appleId = id}

LEMMA OnFinite ==
  ASSUME NEW l, LedgerTyped(l), NEW orders, OrdersTyped(orders), AllocationsMatch(l, orders), NEW id
  PROVE  IsFiniteSet(On(l, id)) /\ On(l, id) \subseteq DOMAIN orders
BY FS_Subset DEF AllocationsMatch, On, OrdersTyped

(* What an Apple ID's orders were charged. *)
Charge(l) == [o \in DOMAIN l.allocations |-> -l.allocations[o].amount]

(* The charges add up to what the orders on the Apple ID are allocated. *)
LEMMA ChargesAre ==
  ASSUME NEW l, LedgerTyped(l), NEW orders, OrdersTyped(orders), DebitsMatch(l, orders),
         AllocationsMatch(l, orders), NEW id \in AppleIds
  PROVE  SumOf(l.movements, Charges(l, id)) = SumFunctionOnSet(Charge(l), On(l, id))
<1>. DEFINE A == Amounts(l.movements)
            S == Charges(l, id)
            K == DOMAIN orders
            key == [n \in DOMAIN l.movements |-> l.movements[n].order]
            g == [o \in K |-> SumFunctionOnSet(A, Keyed(key, S, {o}))]
            O == On(l, id)
            R == K \ O
<1>1. S \subseteq DOMAIN l.movements /\ \A x \in S : key[x] \in K
  BY MovementFields DEF Charges, MovesOf, Range, DebitsMatch
<1>2. IsFiniteSet(S) /\ IsFiniteSet(K) /\ IntOn(A, S)
  BY MovementsFinite, <1>1, FS_Subset, IntOnPart DEF OrdersTyped
<1>3. \A o \in K : g[o] = SumFunctionOnSet(A, Keyed(key, S, {o}))
  OBVIOUS
<1>4. \A o \in K : Keyed(key, S, {o}) = Debits(l, id, o)
  BY DEF Charges, MovesOf, Debits, Keyed
<1>5. \A o \in K : -g[o] = IF AllocationOf(l, o).appleId = id THEN AllocationOf(l, o).amount ELSE 0
  BY <1>4 DEF SumOf, DebitsMatch
<1>6. \A o \in K : g[o] \in Int
  <2>. SUFFICES ASSUME NEW o \in K PROVE g[o] \in Int
    OBVIOUS
  <2>1. Keyed(key, S, {o}) \subseteq S
    BY DEF Keyed
  <2>. DEFINE P == Keyed(key, S, {o})
  <2>2. IsFiniteSet(P) /\ IntOn(A, P)
    BY <1>2, <2>1, FS_Subset, IntOnPart
  <2>3. g[o] = SumFunctionOnSet(A, P)
    BY <1>3
  <2>. HIDE DEF P, g, A
  <2>. QED
    BY <2>2, <2>3, SumInt
<1>7. O \subseteq K /\ IsFiniteSet(O)
  BY OnFinite
<1>8. \A o \in O : Charge(l)[o] = g[o]
  <2>. SUFFICES ASSUME NEW o \in O PROVE Charge(l)[o] = g[o]
    OBVIOUS
  <2>1. o \in DOMAIN l.allocations /\ l.allocations[o].appleId = id
    BY DEF On
  <2>2. AllocationOf(l, o) = l.allocations[o] /\ l.allocations[o].amount \in Int
    BY <2>1, AllocationFields DEF AllocationOf
  <2>3. Charge(l)[o] = -l.allocations[o].amount
    BY <2>1 DEF Charge
  <2>4. -g[o] = l.allocations[o].amount /\ g[o] \in Int
    BY <1>5, <1>6, <1>7, <2>1, <2>2
  <2>. HIDE DEF g
  <2>. QED
    BY <2>2, <2>3, <2>4
<1>9. \A o \in R : g[o] = 0
  <2>. SUFFICES ASSUME NEW o \in R PROVE g[o] = 0
    OBVIOUS
  <2>1. o \in K /\ ~(o \in DOMAIN l.allocations /\ l.allocations[o].appleId = id)
    BY DEF On
  <2>2. AllocationOf(l, o).appleId # id
    <3>1. CASE o \in DOMAIN l.allocations
      BY <2>1, <3>1 DEF AllocationOf
    <3>2. CASE o \notin DOMAIN l.allocations
      BY <3>2, NoAllocationFields, NoName DEF AllocationOf
    <3>. QED
      BY <3>1, <3>2
  <2>3. -g[o] = 0 /\ g[o] \in Int
    BY <1>5, <1>6, <2>1, <2>2
  <2>. HIDE DEF g
  <2>. QED
    BY <2>3
<1>10. IsFiniteSet(R) /\ O \cap R = {} /\ K = O \cup R
  BY <1>2, <1>7, FS_Subset
<1>. HIDE DEF A, S, K, key, g, O, R
<1>11. SumFunctionOnSet(A, S) = SumFunctionOnSet(g, K)
  <2>1. HasKeys(key, S, K) /\ Groups(g, A, key, S, K)
    BY <1>1, <1>3 DEF HasKeys, Groups
  <2>. QED
    BY <1>2, <2>1, SumGrouped
<1>12. SumFunctionOnSet(g, K) = SumFunctionOnSet(g, O) + SumFunctionOnSet(g, R)
  BY <1>6, <1>10, <1>7, SumUnion DEF IntOn
<1>13. SumFunctionOnSet(g, R) = 0
  BY <1>9, <1>10, SumOfNothing
<1>14. IntOn(g, O)
  BY <1>6, <1>7 DEF IntOn
<1>15. SumFunctionOnSet(Charge(l), O) = SumFunctionOnSet(g, O)
  BY <1>7, <1>8, <1>14, SumEqual
<1>16. SumFunctionOnSet(g, O) \in Int
  BY <1>7, <1>14, SumInt
<1>. QED
  BY <1>11, <1>12, <1>13, <1>15, <1>16 DEF SumOf, A, S, O

(* What came back of an Apple ID's orders. *)
Received(l, id) ==
  {r \in DOMAIN l.refunds : l.refunds[r].status = "received" /\ l.refunds[r].appleId = id}

CameBack(l) == [o \in DOMAIN l.allocations |-> l.allocations[o].returned]

(* The fields of a refund; there are finitely many, with integers to add    *)
(* up.                                                                      *)
LEMMA RefundFields ==
  ASSUME NEW l, LedgerTyped(l), NEW r \in DOMAIN l.refunds
  PROVE  l.refunds[r].amount \in Int /\ l.refunds[r].appleId \in AppleIds /\ l.refunds[r].order \in Int
<1>. DEFINE refund == l.refunds[r]
<1>1. refund \in Refund
  BY DEF LedgerTyped
<1>. HIDE DEF refund
<1>2. refund.amount \in Int /\ refund.appleId \in AppleIds /\ refund.order \in Int
  BY <1>1 DEF Refund
<1>. QED
  BY <1>2 DEF refund

LEMMA RefundsFinite ==
  ASSUME NEW l, LedgerTyped(l), NEW S, S \subseteq DOMAIN l.refunds
  PROVE  IsFiniteSet(S) /\ IntOn(Amounts(l.refunds), S)
BY FS_Subset, RefundFields DEF LedgerTyped, IntOn, Amounts

(* OneChange movement for each refund received. *)
LEMMA ReceiptsAre ==
  ASSUME NEW l, LedgerTyped(l), ReceiptsMatch(l), NEW id \in AppleIds
  PROVE  SumOf(l.movements, Back(l, id)) = SumOf(l.refunds, Received(l, id))
<1>. DEFINE A == Amounts(l.movements)
            F == Amounts(l.refunds)
            S == Back(l, id)
            K == Received(l, id)
            key == [n \in DOMAIN l.movements |-> l.movements[n].of]
            g == [r \in K |-> SumFunctionOnSet(A, Keyed(key, S, {r}))]
<1>1. S \subseteq DOMAIN l.movements /\ S \subseteq Receipts(l) /\ K \subseteq DOMAIN l.refunds
  BY DEF Back, MovesOf, Receipts, Received
<1>2. HasKeys(key, S, K)
  BY <1>1 DEF Back, MovesOf, Receipts, ReceiptsMatch, Received, HasKeys
<1>3. IsFiniteSet(S) /\ IntOn(A, S)
  BY MovementsFinite, <1>1, FS_Subset, IntOnPart
<1>4. IsFiniteSet(K) /\ IntOn(F, K)
  BY <1>1, RefundsFinite
<1>5. \A r \in K : g[r] = F[r]
  <2>. SUFFICES ASSUME NEW r \in K PROVE SumFunctionOnSet(A, Keyed(key, S, {r})) = F[r]
    OBVIOUS
  <2>. DEFINE P == {n \in Receipts(l) : l.movements[n].of = r}
  <2>1. r \in DOMAIN l.refunds /\ l.refunds[r].status = "received" /\ l.refunds[r].appleId = id
    BY DEF Received
  <2>2. Cardinality(P) = 1
    BY <2>1 DEF ReceiptsMatch
  <2>3. IsFiniteSet(P)
    BY MovementsFinite, FS_Subset DEF Receipts, MovesOf
  <2>4. PICK x : P = {x}
    BY <2>2, <2>3, FS_Singleton
  <2>5. x \in Receipts(l) /\ l.movements[x].of = r /\ x \in DOMAIN l.movements
    BY <2>4 DEF Receipts, MovesOf
  <2>6. l.movements[x].amount = l.refunds[r].amount /\ l.movements[x].appleId = id
    BY <2>1, <2>5 DEF ReceiptsMatch
  <2>7. Keyed(key, S, {r}) = P
    BY <2>1, <1>1 DEF ReceiptsMatch, Receipts, MovesOf, Back, Keyed
  <2>8. A[x] = l.movements[x].amount /\ F[r] = l.refunds[r].amount
    BY <2>1, <2>5 DEF Amounts
  <2>9. A[x] \in Int
    BY <2>5, <2>8, MovementFields
  <2>. HIDE DEF A, F, P
  <2>. QED
    BY <2>4, <2>6, <2>7, <2>8, <2>9, SumOne
<1>6. Groups(g, A, key, S, K)
  BY DEF Groups
<1>. HIDE DEF A, F, S, K, key, g
<1>7. SumFunctionOnSet(A, S) = SumFunctionOnSet(g, K)
  BY <1>2, <1>3, <1>4, <1>6, SumGrouped
<1>8. SumFunctionOnSet(g, K) = SumFunctionOnSet(F, K)
  BY <1>4, <1>5, SumEqual
<1>. QED
  BY <1>7, <1>8 DEF SumOf, A, F, S, K

(* And the received refunds to what came back to the allocations. *)
LEMMA ReturnsAre ==
  ASSUME NEW l, LedgerTyped(l), NEW orders, OrdersTyped(orders), RefundsMatch(l, orders),
         AllocationsMatch(l, orders), NEW id \in AppleIds
  PROVE  SumOf(l.refunds, Received(l, id)) = SumFunctionOnSet(CameBack(l), On(l, id))
<1>. DEFINE F == Amounts(l.refunds)
            S == Received(l, id)
            O == On(l, id)
            key == [r \in DOMAIN l.refunds |-> l.refunds[r].order]
            g == [o \in O |-> SumFunctionOnSet(F, Keyed(key, S, {o}))]
<1>1. S \subseteq DOMAIN l.refunds
  BY DEF Received
<1>2. IsFiniteSet(S) /\ IntOn(F, S)
  BY <1>1, RefundsFinite
<1>3. IsFiniteSet(O)
  BY OnFinite
<1>4. ASSUME NEW r \in DOMAIN l.refunds, l.refunds[r].status = "received"
      PROVE  /\ l.refunds[r].order \in DOMAIN l.allocations
             /\ l.allocations[l.refunds[r].order].appleId = l.refunds[r].appleId
  BY <1>4, RefundFields, AllocationFields DEF RefundsMatch, AllocationOf
<1>5. HasKeys(key, S, O)
  BY <1>1, <1>4 DEF HasKeys, Received, On
<1>6. Groups(g, F, key, S, O)
  BY DEF Groups
<1>7. \A o \in O : CameBack(l)[o] = g[o]
  <2>. SUFFICES ASSUME NEW o \in O PROVE CameBack(l)[o] = SumFunctionOnSet(F, Keyed(key, S, {o}))
    OBVIOUS
  <2>1. o \in DOMAIN l.allocations /\ l.allocations[o].appleId = id
    BY DEF On
  <2>2. l.allocations[o].returned = SumFunctionOnSet(F, RefundsOf(l, o, "received"))
    BY <2>1 DEF AllocationsMatch, SumOf
  <2>3. Keyed(key, S, {o}) = RefundsOf(l, o, "received")
    BY <1>4, <2>1, <1>1 DEF Keyed, Received, RefundsOf
  <2>. QED
    BY <2>1, <2>2, <2>3 DEF CameBack
<1>8. \A o \in O : g[o] \in Int
  <2>. SUFFICES ASSUME NEW o \in O PROVE g[o] \in Int
    OBVIOUS
  <2>1. o \in DOMAIN l.allocations
    BY DEF On
  <2>2. l.allocations[o].returned \in Int
    BY <2>1, AllocationFields DEF AllocationOf
  <2>. QED
    BY <1>7, <2>1, <2>2 DEF CameBack
<1>. HIDE DEF F, S, O, key, g
<1>9. SumFunctionOnSet(F, S) = SumFunctionOnSet(g, O)
  BY <1>2, <1>3, <1>5, <1>6, SumGrouped
<1>10. SumFunctionOnSet(CameBack(l), O) = SumFunctionOnSet(g, O)
  BY <1>3, <1>7, <1>8, SumEqual DEF IntOn
<1>. QED
  BY <1>9, <1>10 DEF SumOf, F, S, O

(* The server's checks come to the accounts. *)
LEMMA SoundIsAccounted ==
  ASSUME NEW l, LedgerTyped(l), NEW orders, OrdersTyped(orders), LedgerSound(l, orders)
  PROVE  Accounted(l, orders)
<1>1. /\ MovementsAddUp(l) /\ DebitsMatch(l, orders) /\ ReceiptsMatch(l)
      /\ RefundsMatch(l, orders) /\ AllocationsMatch(l, orders)
  BY DEF LedgerSound, CheckMovements
<1>. DEFINE net == [o \in DOMAIN l.allocations |-> Net(l.allocations[o])]
<1>2. ASSUME NEW id \in AppleIds
      PROVE  l.wallets[id].balance = SumOf(l.movements, Hand(l, id)) - SumFunctionOnSet(net, On(l, id))
  <2>. DEFINE O == On(l, id)
              z == [o \in O |-> 0]
              a == [o \in O |-> l.allocations[o].amount]
  <2>1. l.wallets[id].balance = SumOf(l.movements, MovesOn(l, id))
    <3>. DEFINE sum == SumOf(l.movements, MovesOn(l, id))
                count == 1 + Cardinality(MovesOn(l, id))
    <3>1. l.wallets[id] = [balance |-> sum, version |-> count]
      BY <1>1 DEF MovementsAddUp
    <3>. HIDE DEF sum, count
    <3>2. l.wallets[id].balance = sum
      BY <3>1
    <3>. QED
      BY <3>2 DEF sum
  <2>2. SumOf(l.movements, MovesOn(l, id)) =
          SumOf(l.movements, Hand(l, id)) + (SumOf(l.movements, Charges(l, id)) + SumOf(l.movements, Back(l, id)))
    BY MovementsParted
  <2>3. SumOf(l.movements, Charges(l, id)) = SumFunctionOnSet(Charge(l), O)
    BY <1>1, ChargesAre
  <2>4. SumOf(l.movements, Back(l, id)) = SumFunctionOnSet(CameBack(l), O)
    BY <1>1, ReceiptsAre, ReturnsAre
  <2>5. IsFiniteSet(O)
    BY <1>1, OnFinite
  <2>6. \A o \in O : /\ o \in DOMAIN l.allocations
                     /\ l.allocations[o].amount \in Int /\ l.allocations[o].returned \in Int
    BY AllocationFields DEF On, AllocationOf
  <2>7. /\ IntOn(Charge(l), O) /\ IntOn(CameBack(l), O) /\ IntOn(z, O) /\ IntOn(a, O)
        /\ \A o \in O : a[o] = z[o] - Charge(l)[o] /\ net[o] = a[o] - CameBack(l)[o] /\ z[o] = 0
    BY <2>6 DEF IntOn, Charge, CameBack, Net
  <2>. HIDE DEF z, a, net, O
  <2>8. SumFunctionOnSet(z, O) = 0
    BY <2>5, <2>7, SumOfNothing
  <2>9. SumFunctionOnSet(a, O) = SumFunctionOnSet(z, O) - SumFunctionOnSet(Charge(l), O)
    BY <2>5, <2>7, SumDifference
  <2>10. SumFunctionOnSet(net, O) = SumFunctionOnSet(a, O) - SumFunctionOnSet(CameBack(l), O)
    BY <2>5, <2>7, SumDifference
  <2>11. SumFunctionOnSet(Charge(l), O) \in Int /\ SumFunctionOnSet(CameBack(l), O) \in Int
    BY <2>5, <2>7, SumInt
  <2>12. SumOf(l.movements, Hand(l, id)) \in Int
    BY MovementsFinite, FS_Subset, IntOnPart, SumInt DEF Hand, MovesOf, SumOf
  <2>13. l.wallets[id].balance = SumOf(l.movements, Hand(l, id)) - SumFunctionOnSet(net, O)
    BY <2>1, <2>2, <2>3, <2>4, <2>8, <2>9, <2>10, <2>11, <2>12
  <2>. QED
    BY <2>13 DEF net, O
<1>3. ASSUME NEW o \in DOMAIN orders
      PROVE  <<AllocationOf(l, o).appleId, AllocationOf(l, o).amount>> =
               IF Charged(orders[o]) THEN <<orders[o].appleId, orders[o].paid>> ELSE <<"", 0>>
  <2>1. CASE o \in DOMAIN l.allocations
    <3>1. /\ Charged(orders[o]) /\ orders[o].appleId = l.allocations[o].appleId
          /\ orders[o].paid = l.allocations[o].amount
      BY <1>1, <2>1 DEF AllocationsMatch
    <3>. QED
      BY <2>1, <3>1 DEF AllocationOf
  <2>2. CASE o \notin DOMAIN l.allocations
    <3>1. ~Charged(orders[o])
      BY <1>1, <2>2 DEF AllocationsMatch
    <3>2. AllocationOf(l, o).appleId = "" /\ AllocationOf(l, o).amount = 0
      BY <2>2, NoAllocationFields DEF AllocationOf
    <3>. QED
      BY <3>1, <3>2
  <2>. QED
    BY <2>1, <2>2
<1>. QED
  BY <1>2, <1>3 DEF Accounted, Hand, On

-----------------------------------------------------------------------------
(* What the server stores. *)

(* What is asked of a ledger does not depend on its version. *)
SameBooks(l, k) ==
  l.wallets = k.wallets /\ l.allocations = k.allocations /\ l.movements = k.movements /\ l.refunds = k.refunds

(* Such ledgers give the same answers. *)
LEMMA SameViews ==
  ASSUME NEW l, NEW k, SameBooks(l, k)
  PROVE  /\ \A ids, kinds : MovesOf(l, ids, kinds) = MovesOf(k, ids, kinds)
         /\ \A id : MovesOn(l, id) = MovesOn(k, id)
         /\ \A id, o : Debits(l, id, o) = Debits(k, id, o)
         /\ Receipts(l) = Receipts(k)
         /\ \A o : AllocationOf(l, o) = AllocationOf(k, o)
         /\ \A o, status : RefundsOf(l, o, status) = RefundsOf(k, o, status)
BY DEF SameBooks, MovesOf, MovesOn, Debits, Receipts, AllocationOf, RefundsOf

(* So one belongs to the orders if the other does. *)
LEMMA SameSound ==
  ASSUME NEW l, NEW k, SameBooks(l, k), NEW orders, LedgerSound(l, orders)
  PROVE  LedgerSound(k, orders)
<1>0. /\ l.wallets = k.wallets /\ l.allocations = k.allocations
      /\ l.movements = k.movements /\ l.refunds = k.refunds
  BY DEF SameBooks
<1>1. MovementsAddUp(k)
  BY <1>0, SameViews DEF LedgerSound, CheckMovements, MovementsAddUp
<1>2. DebitsMatch(k, orders)
  BY <1>0, SameViews DEF LedgerSound, CheckMovements, DebitsMatch
<1>3. ReceiptsMatch(k)
  BY <1>0, SameViews DEF LedgerSound, CheckMovements, ReceiptsMatch
<1>4. UndosMatch(k)
  BY <1>0, SameViews DEF LedgerSound, CheckMovements, UndosMatch
<1>5. RefundsMatch(k, orders)
  BY <1>0, SameViews DEF LedgerSound, RefundsMatch
<1>6. AllocationsMatch(k, orders)
  BY <1>0, SameViews DEF LedgerSound, AllocationsMatch
<1>. QED
  BY <1>1, <1>2, <1>3, <1>4, <1>5, <1>6 DEF LedgerSound, CheckMovements

(* An order's evidence stays evidence. *)
LEMMA EvidenceOf ==
  ASSUME NEW order \in Order
  PROVE  order.evidence \cup CurrentFinancialEvidence(order) \subseteq {"bank", "apple", "receipt"}
BY OrderEvidence, EvidenceTyped

(* The server touches nothing of an order but its evidence. *)
KeptOf(was, is) ==
  /\ is.id = was.id /\ is.version = was.version
  /\ is.refunds = was.refunds /\ is.returns = was.returns /\ is.corrections = was.corrections

(* The server's last word on the evidence of a payment keeps the orders'    *)
(* type and touches no order that did not change.                           *)
LEMMA NormalizedTyped ==
  ASSUME NEW orders, OrdersTyped(orders), NEW next, OrdersTyped(next)
  PROVE  LET is == NormalizePaymentEvidence(orders, next) IN
           /\ DOMAIN is = DOMAIN next /\ OrdersTyped(is)
           /\ \A o \in DOMAIN next :
                /\ KeptOf(next[o], is[o])
                /\ o \in DOMAIN orders /\ next[o] = orders[o] => is[o] = orders[o]
<1>. DEFINE is == NormalizePaymentEvidence(orders, next)
<1>1. DOMAIN is = DOMAIN next
  BY DEF NormalizePaymentEvidence
<1>2. ASSUME NEW o \in DOMAIN next
      PROVE  /\ is[o] \in Order /\ KeptOf(next[o], is[o])
             /\ o \in DOMAIN orders /\ next[o] = orders[o] => is[o] = orders[o]
  <2>. DEFINE row == next[o]
              known == o \in DOMAIN orders
              kept == IF known THEN orders[o].evidence \cup CurrentFinancialEvidence(orders[o]) ELSE {}
              payments == (kept \cup CurrentFinancialEvidence(row)) \ {"receipt"}
              evidence == payments \cup (row.evidence \cap {"receipt"})
              written == [row EXCEPT !.evidence = evidence]
  <2>1. is[o] = IF known /\ row = orders[o] THEN row ELSE written
    BY DEF NormalizePaymentEvidence
  <2>2. row \in Order
    BY DEF OrdersTyped
  <2>3. kept \subseteq {"bank", "apple", "receipt"}
    BY EvidenceOf DEF OrdersTyped
  <2>. HIDE DEF row, kept
  <2>4. row.evidence \cup CurrentFinancialEvidence(row) \subseteq {"bank", "apple", "receipt"}
    BY <2>2, EvidenceOf
  <2>5. evidence \in SUBSET {"bank", "apple", "receipt"}
    BY <2>3, <2>4
  <2>. HIDE DEF evidence
  <2>6. written \in Order /\ KeptOf(row, written)
    BY <2>2, <2>5, JustEvidence DEF KeptOf
  <2>7. KeptOf(row, row)
    BY DEF KeptOf
  <2>. HIDE DEF written
  <2>. QED
    BY <2>1, <2>2, <2>6, <2>7 DEF row
<1>. HIDE DEF is
<1>3. OrdersTyped(is)
  BY <1>1, <1>2 DEF OrdersTyped, KeptOf
<1>4. \A o \in DOMAIN next :
                /\ KeptOf(next[o], is[o])
                /\ o \in DOMAIN orders /\ next[o] = orders[o] => is[o] = orders[o]
  BY <1>2
<1>. QED
  BY <1>1, <1>3, <1>4 DEF is

-----------------------------------------------------------------------------
(* What is stored. *)

(* What a request makes of what is stored is typed. *)
LEMMA NextTyped ==
  ASSUME StoreTyped, NEW r, RequestTyped(r)
  PROVE  OrdersTyped(NextOrders(r)) /\ LedgerTyped(NextLedger(r))
BY NormalizedTyped DEF StoreTyped, CopyTyped, RequestTyped, NextOrders, NextLedger

(* What is stored, field by field, and its type: the check of the Apple     *)
(* ledger is where the stored ledger is made sound.                         *)
LEMMA StoredParts ==
  ASSUME StoreTyped, NEW r, RequestTyped(r), Stored(r)
  PROVE  /\ commerce'.orders = NextOrders(r) /\ SameBooks(NextLedger(r), balance') /\ LedgerTyped(balance')
         /\ commerce' = [orders |-> commerce'.orders, version |-> commerce'.version]
         /\ commerce'.version = commerce.version + IF "commerce" \in r.sends THEN 1 ELSE 0
         /\ balance'.version = balance.version + IF "balance" \in r.sends THEN 1 ELSE 0
<1>. DEFINE l == NextLedger(r)
            n == balance.version + IF "balance" \in r.sends THEN 1 ELSE 0
            v == commerce.version + IF "commerce" \in r.sends THEN 1 ELSE 0
            next == NextOrders(r)
<1>1. LedgerTyped(l)
  BY NextTyped
<1>2. balance' = [l EXCEPT !.version = n]
  BY DEF Stored
<1>3. commerce' = [orders |-> next, version |-> v]
  BY DEF Stored
<1>. HIDE DEF next, v
<1>4. /\ commerce'.orders = next /\ commerce'.version = v
      /\ commerce' = [orders |-> commerce'.orders, version |-> commerce'.version]
  BY <1>3
<1>5. n \in Int
  BY DEF StoreTyped, LedgerTyped
<1>. HIDE DEF l, n
<1>6. /\ Shaped(l) /\ l.wallets \in [AppleIds -> Wallet] /\ l.movements \in Seq(Movement)
      /\ AllocationsTyped(l.allocations) /\ RefundsTyped(l.refunds)
  BY <1>1, LedgerParts
<1>7. balance' = Ledger(n, l.wallets, l.allocations, l.movements, l.refunds)
  BY <1>2, <1>6, LedgerWith
<1>8. LedgerTyped(balance') /\ SameBooks(l, balance') /\ balance'.version = n
  BY <1>5, <1>6, <1>7, LedgerParts, LedgerFields DEF SameBooks
<1>. QED
  BY <1>4, <1>8 DEF l, n, v, next

LEMMA StoredTyped ==
  ASSUME StoreTyped, NEW r, RequestTyped(r), Accepted(r), Stored(r)
  PROVE  StoreTyped'
BY NextTyped, StoredParts, SameSound DEF StoreTyped, CopyTyped, Accepted, CheckAppleLedger

-----------------------------------------------------------------------------
(* The tab. *)

(* The tab as a record of its six fields, so that an update is a record     *)
(* again.                                                                   *)
LEMMA TabFields ==
  ASSUME NEW c, NEW b, NEW f, NEW s, NEW k, NEW m
  PROVE  /\ TabShaped(Tab(c, b, f, s, k, m))
         /\ Tab(c, b, f, s, k, m).commerce = c
         /\ Tab(c, b, f, s, k, m).balance = b
         /\ Tab(c, b, f, s, k, m).form = f
         /\ Tab(c, b, f, s, k, m).step = s
BY DEF TabShaped, Tab

LEMMA TabSet ==
  ASSUME NEW t, TabShaped(t), NEW x
  PROVE  /\ [t EXCEPT !.commerce = x] = Tab(x, t.balance, t.form, t.step, t.key, t.moved)
         /\ [t EXCEPT !.balance = x] = Tab(t.commerce, x, t.form, t.step, t.key, t.moved)
         /\ [t EXCEPT !.form = x] = Tab(t.commerce, t.balance, x, t.step, t.key, t.moved)
         /\ [t EXCEPT !.step = x] = Tab(t.commerce, t.balance, t.form, x, t.key, t.moved)
         /\ [t EXCEPT !.key = x] = Tab(t.commerce, t.balance, t.form, t.step, x, t.moved)
         /\ [t EXCEPT !.moved = x] = Tab(t.commerce, t.balance, t.form, t.step, t.key, x)
BY DEF TabShaped, Tab

(* What a step sets of the tab; the rest of it stays. *)
Sets(is, c, b, f, s) ==
  TabShaped(is) /\ is.commerce = c /\ is.balance = b /\ is.form = f /\ is.step = s

LEMMA TabWith ==
  ASSUME NEW t, TabShaped(t), NEW x, NEW y, NEW z, NEW w
  PROVE  /\ Sets([t EXCEPT !.form = x, !.step = y, !.key = z, !.moved = w], t.commerce, t.balance, x, y)
         /\ Sets([t EXCEPT !.step = x, !.key = y], t.commerce, t.balance, t.form, x)
         /\ Sets([t EXCEPT !.step = x], t.commerce, t.balance, t.form, x)
         /\ Sets([t EXCEPT !.commerce = x, !.balance = y], x, y, t.form, t.step)
         /\ Sets([t EXCEPT !.commerce = x, !.moved = y], x, t.balance, t.form, t.step)
         /\ Sets([t EXCEPT !.commerce = x], x, t.balance, t.form, t.step)
         /\ Sets([t EXCEPT !.balance = x], t.commerce, x, t.form, t.step)
<1>1. Sets([t EXCEPT !.step = x], t.commerce, t.balance, t.form, x)
  <2>. DEFINE a == [t EXCEPT !.step = x]
  <2>1. a = Tab(t.commerce, t.balance, t.form, x, t.key, t.moved)
    BY TabSet
  <2>. HIDE DEF a
  <2>2. Sets(a, t.commerce, t.balance, t.form, x)
    BY <2>1, TabFields DEF Sets
  <2>. QED
    BY <2>2 DEF a
<1>2. Sets([t EXCEPT !.commerce = x], x, t.balance, t.form, t.step)
  <2>. DEFINE a == [t EXCEPT !.commerce = x]
  <2>1. a = Tab(x, t.balance, t.form, t.step, t.key, t.moved)
    BY TabSet
  <2>. HIDE DEF a
  <2>2. Sets(a, x, t.balance, t.form, t.step)
    BY <2>1, TabFields DEF Sets
  <2>. QED
    BY <2>2 DEF a
<1>3. Sets([t EXCEPT !.balance = x], t.commerce, x, t.form, t.step)
  <2>. DEFINE a == [t EXCEPT !.balance = x]
  <2>1. a = Tab(t.commerce, x, t.form, t.step, t.key, t.moved)
    BY TabSet
  <2>. HIDE DEF a
  <2>2. Sets(a, t.commerce, x, t.form, t.step)
    BY <2>1, TabFields DEF Sets
  <2>. QED
    BY <2>2 DEF a
<1>4. Sets([t EXCEPT !.form = x], t.commerce, t.balance, x, t.step)
  <2>. DEFINE a == [t EXCEPT !.form = x]
  <2>1. a = Tab(t.commerce, t.balance, x, t.step, t.key, t.moved)
    BY TabSet
  <2>. HIDE DEF a
  <2>2. Sets(a, t.commerce, t.balance, x, t.step)
    BY <2>1, TabFields DEF Sets
  <2>. QED
    BY <2>2 DEF a
<1>5. Sets([t EXCEPT !.step = x, !.key = y], t.commerce, t.balance, t.form, x)
  <2>. DEFINE a == [t EXCEPT !.step = x]
              b == [a EXCEPT !.key = y]
  <2>1. [t EXCEPT !.step = x, !.key = y] = b
    OBVIOUS
  <2>. HIDE DEF a
  <2>2. Sets(a, t.commerce, t.balance, t.form, x)
    BY <1>1 DEF a
  <2>3. b = Tab(a.commerce, a.balance, a.form, a.step, y, a.moved)
    BY <2>2, TabSet DEF Sets
  <2>. HIDE DEF b
  <2>4. Sets(b, t.commerce, t.balance, t.form, x)
    BY <2>2, <2>3, TabFields DEF Sets
  <2>. QED
    BY <2>1, <2>4
<1>6. Sets([t EXCEPT !.commerce = x, !.balance = y], x, y, t.form, t.step)
  <2>. DEFINE a == [t EXCEPT !.commerce = x]
              b == [a EXCEPT !.balance = y]
  <2>1. [t EXCEPT !.commerce = x, !.balance = y] = b
    OBVIOUS
  <2>. HIDE DEF a
  <2>2. Sets(a, x, t.balance, t.form, t.step)
    BY <1>2 DEF a
  <2>3. b = Tab(a.commerce, y, a.form, a.step, a.key, a.moved)
    BY <2>2, TabSet DEF Sets
  <2>. HIDE DEF b
  <2>4. Sets(b, x, y, t.form, t.step)
    BY <2>2, <2>3, TabFields DEF Sets
  <2>. QED
    BY <2>1, <2>4
<1>7. Sets([t EXCEPT !.commerce = x, !.moved = y], x, t.balance, t.form, t.step)
  <2>. DEFINE a == [t EXCEPT !.commerce = x]
              b == [a EXCEPT !.moved = y]
  <2>1. [t EXCEPT !.commerce = x, !.moved = y] = b
    OBVIOUS
  <2>. HIDE DEF a
  <2>2. Sets(a, x, t.balance, t.form, t.step)
    BY <1>2 DEF a
  <2>3. b = Tab(a.commerce, a.balance, a.form, a.step, a.key, y)
    BY <2>2, TabSet, ZenonT(60) DEF Sets
  <2>. HIDE DEF b
  <2>4. Sets(b, x, t.balance, t.form, t.step)
    BY <2>2, <2>3, TabFields DEF Sets
  <2>. QED
    BY <2>1, <2>4
<1>8. Sets([t EXCEPT !.form = x, !.step = y, !.key = z, !.moved = w], t.commerce, t.balance, x, y)
  <2>. DEFINE a == [t EXCEPT !.form = x]
              b == [a EXCEPT !.step = y]
              c == [b EXCEPT !.key = z]
              d == [c EXCEPT !.moved = w]
  <2>1. [t EXCEPT !.form = x, !.step = y, !.key = z, !.moved = w] = d
    OBVIOUS
  <2>. HIDE DEF a
  <2>2. Sets(a, t.commerce, t.balance, x, t.step)
    BY <1>4 DEF a
  <2>3. b = Tab(a.commerce, a.balance, a.form, y, a.key, a.moved)
    BY <2>2, TabSet DEF Sets
  <2>. HIDE DEF b
  <2>4. Sets(b, t.commerce, t.balance, x, y)
    BY <2>2, <2>3, TabFields DEF Sets
  <2>5. c = Tab(b.commerce, b.balance, b.form, b.step, z, b.moved)
    BY <2>4, TabSet DEF Sets
  <2>. HIDE DEF c
  <2>6. Sets(c, t.commerce, t.balance, x, y)
    BY <2>4, <2>5, TabFields DEF Sets
  <2>7. d = Tab(c.commerce, c.balance, c.form, c.step, c.key, w)
    BY <2>6, TabSet, ZenonT(60) DEF Sets
  <2>. HIDE DEF d
  <2>8. Sets(d, t.commerce, t.balance, x, y)
    BY <2>6, <2>7, TabFields DEF Sets
  <2>. QED
    BY <2>1, <2>8
<1>. QED
  BY <1>1, <1>2, <1>3, <1>5, <1>6, <1>7, <1>8

LEMMA PutTab ==
  ASSUME TabShaped(tab), NEW f, NEW step
  PROVE  Sets(Put(f, step), tab.commerce, tab.balance, f, step)
BY TabWith DEF Put

-----------------------------------------------------------------------------

(* Each action of the desk is one of these. *)
LEMMA TabIsShaped ==
  ASSUME TabTyped
  PROVE  TabShaped(tab) /\ OrdersTyped(tab.commerce.orders) /\ LedgerTyped(tab.balance)
BY DEF TabTyped, TabShaped, Tab, CopyTyped

LEMMA FillDoes ==
  ASSUME Typed, NEW F, \A f \in F : FormReady(f), Fills(F)
  PROVE  Filled
<1>1. PICK f \in F : tab' = Put([f EXCEPT !.n = forms + 1, !.id = forms + 1], "filled")
  BY DEF Fills
<1>. DEFINE k == forms + 1
            is == [f EXCEPT !.n = k, !.id = k]
<1>2. k \in Nat \ {0}
  BY DEF Typed
<1>3. forms' = k
  BY DEF Fills
<1>4. tab' = Put(is, "filled")
  BY <1>1
<1>. HIDE DEF k
<1>5. FormTyped(is) /\ is.n = k
  BY <1>2, Numbered
<1>. HIDE DEF is
<1>6. Sets(tab', tab.commerce, tab.balance, is, "filled")
  BY <1>4, PutTab, TabIsShaped DEF Typed
<1>7. CopiesKept /\ FormTyped(tab'.form) /\ tab'.form.n = forms + 1 /\ tab'.step = "filled"
  BY <1>5, <1>6 DEF Sets, CopiesKept, k
<1>. QED
  BY <1>3, <1>7 DEF Fills, At, Filled, k

LEMMA FillsDo ==
  ASSUME Typed,
         \/ FillOrder \/ FillCorrection \/ FillRefund \/ FillBankReturn \/ FillReversal
         \/ FillAdjustment \/ FillUndo \/ FillPendingRefund
  PROVE  Filled
<1>1. OrdersTyped(tab.commerce.orders) /\ LedgerTyped(tab.balance)
  BY TabIsShaped DEF Typed
<1>. DEFINE o == tab.commerce.orders
            l == tab.balance
<1>2. /\ \A f \in NewOrders(o, l) : FormReady(f)
      /\ \A f \in Corrections(o, l) : FormReady(f)
      /\ \A f \in RefundForms(o) : FormReady(f)
      /\ \A f \in BankReturnForms(o) : FormReady(f)
      /\ \A f \in ReversalForms(o, l) : FormReady(f)
      /\ \A f \in AdjustmentForms(l) : FormReady(f)
      /\ \A f \in UndoForms(l) : FormReady(f)
      /\ \A f \in PendingRefundForms(l) : FormReady(f)
  BY <1>1, NewReady, CorrectionsReady, RefundsReady, ReturnsReady, ReversalsReady,
     AdjustmentsReady, UndosReady, PendingReady DEF o, l
<1>3. ASSUME FillOrder PROVE Filled
  BY <1>2, <1>3, FillDoes DEF FillOrder
<1>4. ASSUME FillCorrection PROVE Filled
  BY <1>2, <1>4, FillDoes DEF FillCorrection
<1>5. ASSUME FillRefund PROVE Filled
  BY <1>2, <1>5, FillDoes DEF FillRefund
<1>6. ASSUME FillBankReturn PROVE Filled
  BY <1>2, <1>6, FillDoes DEF FillBankReturn
<1>7. ASSUME FillReversal PROVE Filled
  BY <1>2, <1>7, FillDoes DEF FillReversal
<1>8. ASSUME FillAdjustment PROVE Filled
  BY <1>2, <1>8, FillDoes DEF FillAdjustment
<1>9. ASSUME FillUndo PROVE Filled
  BY <1>2, <1>9, FillDoes DEF FillUndo
<1>10. ASSUME FillPendingRefund PROVE Filled
  BY <1>2, <1>10, FillDoes DEF FillPendingRefund
<1>. QED
  BY <1>3, <1>4, <1>5, <1>6, <1>7, <1>8, <1>9, <1>10

LEMMA RequestMade ==
  ASSUME NEW f, FormTyped(f), NEW orders, OrdersTyped(orders), NEW ledger, LedgerTyped(ledger),
         PlanFor(f, orders, ledger).ok, NEW versions \in [commerce : Int, balance : Int]
  PROVE  MadeFrom(Request(f, PlanFor(f, orders, ledger), orders, ledger, versions),
                  f, orders, ledger, versions)
<1>. DEFINE plan == PlanFor(f, orders, ledger)
            o == plan.orders
            l == plan.ledger
            about == IF f.op \in OrderForms THEN {"commerce"} ELSE {}
            books == IF l = ledger THEN {} ELSE {"balance"}
            sends == about \cup books
            yes == TRUE
            r == Request(f, plan, orders, ledger, versions)
<1>1. PlanGood(f, orders, ledger, plan)
  BY PlansAreGood
<1>. HIDE DEF plan
<1>2. r = [form |-> f, heard |-> yes, orders |-> o, ledger |-> l, base |-> versions, sends |-> sends]
  BY DEF Request
<1>3. f.op \in OrderForms \cup LedgerForms
  BY FormFields
<1>4. /\ sends \subseteq {"commerce", "balance"}
      /\ f.op \in OrderForms <=> "commerce" \in sends
      /\ f.op \in LedgerForms => "balance" \in sends
  BY <1>1 DEF PlanGood
<1>. HIDE DEF o, l, yes, sends
<1>5. /\ r = [form |-> r.form, heard |-> r.heard, orders |-> r.orders, ledger |-> r.ledger,
              base |-> r.base, sends |-> r.sends]
      /\ r.form = f /\ r.heard = yes /\ r.orders = o /\ r.ledger = l /\ r.base = versions /\ r.sends = sends
  BY <1>2
<1>. HIDE DEF r
<1>6. OrdersTyped(o) /\ LedgerTyped(l)
  BY <1>1 DEF PlanGood, o, l
<1>7. RequestTyped(r)
  BY <1>4, <1>5, <1>6 DEF RequestTyped, yes
<1>8. PlanGood(f, orders, ledger, [orders |-> r.orders, ledger |-> r.ledger])
  BY <1>1, <1>5 DEF PlanGood, o, l
<1>9. PlannedBy(r, orders, ledger)
  BY <1>5 DEF sends, PlannedBy, o, l, plan
<1>. QED
  BY <1>5, <1>7, <1>8, <1>9 DEF MadeFrom, r, plan, yes

LEMMA SubmitDoes ==
  ASSUME Typed, Submit
  PROVE  Submitted
<1>. DEFINE key == KeyFor(tab.form, tab.commerce.orders, tab.balance)
            asked == [tab EXCEPT !.step = "asked", !.key = key]
            dropped == Put(NoForm, "idle")
<1>1. tab' \in {asked, dropped}
  BY DEF Submit
<1>2. TabShaped(tab)
  BY TabIsShaped DEF Typed
<1>. HIDE DEF key
<1>3. Sets(asked, tab.commerce, tab.balance, tab.form, "asked")
  BY <1>2, TabWith
<1>4. Sets(dropped, tab.commerce, tab.balance, NoForm, "idle")
  BY <1>2, PutTab
<1>. HIDE DEF asked, dropped
<1>. QED
  BY <1>1, <1>3, <1>4 DEF Submit, At, Submitted, CopiesKept, Sets

LEMMA ConfirmDoes ==
  ASSUME Typed, Confirm
  PROVE  Confirmed
<1>. DEFINE f == tab.form
            o == tab.commerce.orders
            l == tab.balance
            plan == PlanFor(f, o, l)
            r == Request(f, plan, o, l, Versions)
            sent == [tab EXCEPT !.step = "sent"]
            again == Put(f, "filled")
<1>1. tab.step = "asked" /\ UNCHANGED <<commerce, balance, forms, effects>>
  BY DEF Confirm, At
<1>2. \/ plan.ok /\ tab' = sent /\ wire' = wire \cup {r}
      \/ tab' = again /\ wire' = wire
  BY DEF Confirm
<1>3. TabShaped(tab) /\ OrdersTyped(o) /\ LedgerTyped(l) /\ FormTyped(f)
      /\ Versions \in [commerce : Int, balance : Int]
  BY TabIsShaped, <1>1 DEF Typed, TabTyped, CopyTyped, LedgerTyped, Versions
<1>4. Sets(sent, tab.commerce, tab.balance, f, "sent")
  BY <1>3, TabWith
<1>5. Sets(again, tab.commerce, tab.balance, f, "filled")
  BY <1>3, PutTab
<1>. HIDE DEF sent, again
<1>6. CASE tab' = again /\ wire' = wire
  BY <1>1, <1>5, <1>6 DEF Confirmed, CopiesKept, Sets
<1>7. CASE plan.ok /\ tab' = sent /\ wire' = wire \cup {r}
  BY <1>3, <1>7, RequestMade, <1>1, <1>4 DEF Confirmed, CopiesKept, Sets
<1>. QED
  BY <1>2, <1>6, <1>7

(* The form that is tried again gets a new number for what it makes, and    *)
(* stays the same form.                                                     *)
LEMMA Renumbered ==
  ASSUME NEW f, FormTyped(f)
  PROVE  LET is == [f EXCEPT !.id = f.id + MaxForms] IN
           FormTyped(is) /\ is.id = f.id + MaxForms /\ is.n = f.n /\ Same(is, f)
<1>. DEFINE k == f.id + MaxForms
            is == [f EXCEPT !.id = k]
<1>1. k \in Nat \ {0}
  <2>1. MaxForms \in Nat \ {0}
    BY OrderDeskAssumption, Zenon
  <2>. QED
    BY <2>1, FormFields
<1>. HIDE DEF k
<1>2. /\ is \in [op : OrderForms \cup LedgerForms, target : Nat, seen : Seq(Int), n : Nat, id : Nat \ {0},
                 kind : {"stock", "renewal"}, values : Value, appleId : AppleIds \cup {""},
                 amount : Int, back : Int, reversal : BOOLEAN]
      /\ is.op = f.op /\ is.appleId = f.appleId /\ is.seen = f.seen /\ is.n = f.n /\ is.target = f.target
      /\ is.id = k /\ is.amount = f.amount /\ is.back = f.back
  BY <1>1 DEF FormTyped
<1>. HIDE DEF is
<1>4. DrawnFor(is.n, is.id)
  <2>1. f.n \in Nat /\ f.id \in Nat /\ DrawnFor(f.n, f.id)
    BY DEF FormTyped
  <2>. QED
    BY <1>2, <2>1, DrawnNext DEF k
<1>5. AmountsFit(is)
  BY <1>2 DEF FormTyped, AmountsFit
<1>3. FormTyped(is)
  BY <1>2, <1>4, <1>5 DEF FormTyped
<1>. QED
  BY <1>2, <1>3 DEF Same, is, k

LEMMA RecoverDoes ==
  ASSUME Typed, Recover
  PROVE  Recovered
<1>. DEFINE f == tab.form
            g == [f EXCEPT !.id = f.id + MaxForms]
            next == Put(g, "filled")
            first == [next EXCEPT !.commerce = commerce]
            second == [next EXCEPT !.balance = balance]
<1>1. tab.step = "unknown" /\ UNCHANGED <<commerce, balance, wire, forms, effects>>
  BY DEF Recover, At
<1>2. tab' \in {first, second}
  BY DEF Recover
<1>3. TabShaped(tab) /\ FormTyped(f)
  BY <1>1, TabIsShaped DEF Typed, TabTyped
<1>4. FormTyped(g) /\ g.n = f.n /\ Same(g, f) /\ g.id = f.id + MaxForms
  BY <1>3, Renumbered
<1>5. Sets(next, tab.commerce, tab.balance, g, "filled")
  BY <1>3, PutTab
<1>. HIDE DEF next, g
<1>6. TabShaped(next) /\ next.commerce = tab.commerce /\ next.balance = tab.balance
      /\ next.form = g /\ next.step = "filled"
  BY <1>5 DEF Sets
<1>7. Sets(first, commerce, tab.balance, g, "filled") /\ Sets(second, tab.commerce, balance, g, "filled")
  BY <1>6, TabWith
<1>. HIDE DEF first, second
<1>8. TabShaped(tab') /\ tab'.form = g /\ tab'.step = "filled"
      /\ tab'.commerce \in {tab.commerce, commerce} /\ tab'.balance \in {tab.balance, balance}
  BY <1>2, <1>7 DEF Sets
<1>. QED
  BY <1>1, <1>4, <1>8 DEF Recovered, CopiesKept

LEMMA ServeDoes ==
  ASSUME Typed, NEW r \in wire, Serve(r)
  PROVE  Served(r)
<1>. DEFINE idle == Put(NoForm, "idle")
            c == IF "commerce" \in r.sends THEN commerce' ELSE idle.commerce
            b == IF "balance" \in r.sends THEN balance' ELSE idle.balance
            answered == [idle EXCEPT !.commerce = c, !.balance = b]
            unknown == [tab EXCEPT !.step = "unknown"]
<1>1. TabShaped(tab)
  BY TabIsShaped DEF Typed
<1>2. Sets(idle, tab.commerce, tab.balance, NoForm, "idle")
  BY <1>1, PutTab
<1>3. Sets(unknown, tab.commerce, tab.balance, tab.form, "unknown")
  BY <1>1, TabWith
<1>4. Answered(r) = answered
  BY DEF Answered
<1>5. c \in {tab.commerce, commerce'} /\ b \in {tab.balance, balance'}
  BY <1>2 DEF Sets
<1>. HIDE DEF idle, c, b
<1>6. Sets(answered, c, b, idle.form, idle.step) /\ idle.step = "idle"
  <2>1. TabShaped(idle) /\ idle.step = "idle"
    BY <1>2 DEF Sets
  <2>. QED
    BY <2>1, TabWith
<1>. HIDE DEF answered, unknown
<1>7. wire' = wire \ {r} /\ UNCHANGED forms
  BY DEF Serve
<1>8. Keeps(r) \/ UNCHANGED <<commerce, balance, effects>>
  <2>1. Verdict(r) = "stored" => ~Stale(r) /\ Accepted(r)
    BY DEF Verdict
  <2>. QED
    BY <2>1 DEF Serve, Keeps
<1>9. \/ ~r.heard /\ tab' = tab
      \/ r.heard /\ tab' = answered
      \/ r.heard /\ tab' = unknown
  BY <1>4 DEF Serve, unknown
<1>10. /\ CopiesKept
       /\ \/ ~r.heard /\ tab' = tab
          \/ r.heard /\ tab'.step = "idle"
          \/ r.heard /\ tab'.step = "unknown" /\ tab'.form = tab.form
  BY <1>1, <1>3, <1>5, <1>6, <1>9 DEF CopiesKept, Sets
<1>. QED
  BY <1>7, <1>8, <1>10 DEF Served

LEMMA SilentDoes ==
  ASSUME Typed, NEW r \in wire, GoSilent(r)
  PROVE  SilentlyLost(r)
<1>. DEFINE unknown == [tab EXCEPT !.step = "unknown"]
            no == FALSE
            q == [r EXCEPT !.heard = no]
<1>1. TabShaped(tab) /\ RequestTyped(r)
  BY TabIsShaped DEF Typed
<1>2. Sets(unknown, tab.commerce, tab.balance, tab.form, "unknown")
  BY <1>1, TabWith
<1>3. r.heard /\ tab' = unknown /\ wire' = (wire \ {r}) \cup {q} /\ UNCHANGED <<commerce, balance, forms, effects>>
  BY DEF GoSilent
<1>. HIDE DEF unknown
<1>4. r = [form |-> r.form, heard |-> r.heard, orders |-> r.orders, ledger |-> r.ledger,
           base |-> r.base, sends |-> r.sends]
  BY <1>1 DEF RequestTyped
<1>6. ~no /\ no \in BOOLEAN
  OBVIOUS
<1>. HIDE DEF no
<1>5. q = [form |-> r.form, heard |-> no, orders |-> r.orders, ledger |-> r.ledger,
           base |-> r.base, sends |-> r.sends]
  BY <1>4
<1>. HIDE DEF q
<1>7. /\ q.form = r.form /\ q.heard = no /\ q.orders = r.orders /\ q.ledger = r.ledger
      /\ q.base = r.base /\ q.sends = r.sends
      /\ q = [form |-> q.form, heard |-> q.heard, orders |-> q.orders, ledger |-> q.ledger,
              base |-> q.base, sends |-> q.sends]
  BY <1>5
<1>8. RequestTyped(q)
  BY <1>1, <1>6, <1>7 DEF RequestTyped
<1>9. CopiesKept /\ tab'.step = "unknown" /\ tab'.form = tab.form
  BY <1>2, <1>3 DEF CopiesKept, Sets
<1>. QED
  BY <1>3, <1>6, <1>7, <1>8, <1>9 DEF SilentlyLost

LEMMA RefreshDoes ==
  ASSUME Typed, RefreshOrders \/ RefreshBalance
  PROVE  Refreshed
<1>. DEFINE moved == At("asked")
            first == [tab EXCEPT !.commerce = commerce, !.moved = moved]
            second == [tab EXCEPT !.balance = balance]
<1>1. tab' \in {first, second} /\ UNCHANGED <<commerce, balance, wire, forms, effects>>
  BY DEF RefreshOrders, RefreshBalance
<1>2. TabShaped(tab)
  BY TabIsShaped DEF Typed
<1>. HIDE DEF moved
<1>3. Sets(first, commerce, tab.balance, tab.form, tab.step) /\ Sets(second, tab.commerce, balance, tab.form, tab.step)
  BY <1>2, TabWith
<1>. HIDE DEF first, second
<1>. QED
  BY <1>1, <1>3 DEF Refreshed, CopiesKept, Sets

LEMMA ColleagueDoes ==
  ASSUME Typed, Colleague
  PROVE  SavedByOthers
<1>. DEFINE Made(f) == PlanFor(f, commerce.orders, balance)
            Sent(f) == Request(f, Made(f), commerce.orders, balance, StoreVersions)
<1>1. PICK filled \in AllForms(commerce.orders, balance) :
        LET f == [filled EXCEPT !.n = forms + 1, !.id = forms + 1] IN
          Made(f).ok /\ Verdict(Sent(f)) = "stored" /\ Stored(Sent(f))
  BY DEF Colleague
<1>. DEFINE k == forms + 1
            f == [filled EXCEPT !.n = k, !.id = k]
            r == Sent(f)
<1>2. Made(f).ok /\ Verdict(r) = "stored" /\ Stored(r)
  BY <1>1
<1>3. forms < MaxForms /\ forms' = k /\ UNCHANGED <<tab, wire>>
  BY DEF Colleague
<1>4. OrdersTyped(commerce.orders) /\ LedgerTyped(balance) /\ StoreVersions \in [commerce : Int, balance : Int]
  BY DEF Typed, StoreTyped, CopyTyped, LedgerTyped, StoreVersions
<1>5. FormTyped(f) /\ f.n = k
  <2>1. k \in Nat \ {0} /\ FormReady(filled)
    BY <1>4, AllReady DEF Typed
  <2>. HIDE DEF k
  <2>. QED
    BY <2>1, Numbered
<1>. HIDE DEF f
<1>6. MadeFrom(r, f, commerce.orders, balance, StoreVersions)
  BY <1>2, <1>4, <1>5, RequestMade
<1>. HIDE DEF r
<1>7. ~Stale(r) /\ Accepted(r)
  BY <1>2 DEF Verdict
<1>8. r.form = f
  BY <1>6 DEF MadeFrom
<1>9. Keeps(r) /\ r.form.n = forms + 1 /\ MadeFrom(r, r.form, commerce.orders, balance, StoreVersions)
  BY <1>2, <1>5, <1>6, <1>7, <1>8 DEF Keeps
<1>. QED
  BY <1>3, <1>9 DEF SavedByOthers

-----------------------------------------------------------------------------
(* Type correctness, and where the money is. *)

(* Every step is one of these. *)
LEMMA StepsAre ==
  ASSUME Typed, Next
  PROVE  \/ Filled \/ Submitted \/ Confirmed \/ Recovered
         \/ \E r \in wire : Served(r) \/ SilentlyLost(r)
         \/ Refreshed \/ SavedByOthers
BY FillsDo, SubmitDoes, ConfirmDoes, RecoverDoes, ServeDoes, SilentDoes, RefreshDoes, ColleagueDoes DEF Next

(* Typed holds again, part by part: what is stored, the tab, the counters   *)
(* and the request the tab waits for.                                       *)
LEMMA KeptStore ==
  ASSUME Typed, NEW r, RequestTyped(r), Keeps(r)
  PROVE  StoreTyped'
BY StoredTyped DEF Typed, Keeps

LEMMA SameStore ==
  ASSUME Typed, UNCHANGED <<commerce, balance>>
  PROVE  StoreTyped'
BY DEF Typed, StoreTyped

LEMMA TabStaysTyped ==
  ASSUME Typed, StoreTyped', CopiesKept, tab'.step \in Steps, tab'.step # "idle" => FormTyped(tab'.form)
  PROVE  TabTyped'
BY DEF Typed, TabTyped, StoreTyped, CopiesKept, TabShaped, Tab

LEMMA EffectsTyped ==
  ASSUME Typed, NEW r, RequestTyped(r), Keeps(r)
  PROVE  effects' \in [1..MaxForms -> Nat]
<1>. DEFINE n == r.form.n
<1>1. effects' = [effects EXCEPT ![n] = effects[n] + 1]
  BY DEF Keeps, Stored
<1>2. effects \in [1..MaxForms -> Nat]
  BY DEF Typed
<1>. HIDE DEF n
<1>3. CASE n \in 1..MaxForms
  BY <1>2, <1>3, <1>1
<1>4. CASE n \notin 1..MaxForms
  <2>. DEFINE all == 1..MaxForms
              one == effects[n] + 1
  <2>1. effects' = [effects EXCEPT ![n] = one] /\ effects \in [all -> Nat] /\ n \notin all
    BY <1>1, <1>2, <1>4
  <2>. HIDE DEF all, one
  <2>2. effects' = effects
    BY <2>1
  <2>. QED
    BY <1>2, <2>2
<1>. QED
  BY <1>3, <1>4

LEMMA HeardStep ==
  ASSUME Typed, Next
  PROVE  Heard'
<1>1. Heard
  BY DEF Typed
<1>2. ASSUME Filled PROVE Heard'
  BY <1>1, <1>2 DEF Heard, Filled
<1>3. ASSUME Submitted PROVE Heard'
  BY <1>1, <1>3 DEF Heard, Submitted
<1>4. ASSUME Confirmed PROVE Heard'
  BY <1>1, <1>4 DEF Heard, Confirmed, MadeFrom
<1>5. ASSUME Recovered PROVE Heard'
  BY <1>1, <1>5 DEF Heard, Recovered
<1>6. ASSUME NEW r \in wire, Served(r) PROVE Heard'
  BY <1>1, <1>6 DEF Heard, Served
<1>7. ASSUME NEW r \in wire, SilentlyLost(r) PROVE Heard'
  BY <1>1, <1>7 DEF Heard, SilentlyLost
<1>8. ASSUME Refreshed PROVE Heard'
  BY <1>1, <1>8 DEF Heard, Refreshed
<1>9. ASSUME SavedByOthers PROVE Heard'
  BY <1>1, <1>9 DEF Heard, SavedByOthers
<1>. QED
  BY StepsAre, <1>2, <1>3, <1>4, <1>5, <1>6, <1>7, <1>8, <1>9

(* Typed is preserved by every step. *)
LEMMA TypedStep ==
  ASSUME Typed, Next
  PROVE  Typed'
<1>1. TabTyped /\ (\A r \in wire : RequestTyped(r)) /\ forms \in Nat /\ effects \in [1..MaxForms -> Nat]
  BY DEF Typed
<1>2. tab.step \in Steps /\ (tab.step # "idle" => FormTyped(tab.form))
  BY <1>1 DEF TabTyped
<1>11. Heard' /\ Heard
  BY HeardStep DEF Typed
<1>3. ASSUME Filled PROVE Typed'
  BY <1>3, SameStore, TabStaysTyped, <1>1, <1>11 DEF Filled, Steps, Typed
<1>4. ASSUME Submitted PROVE Typed'
  BY <1>4, SameStore, <1>2, TabStaysTyped, <1>1, <1>11 DEF Submitted, Steps, Typed
<1>5. ASSUME Confirmed PROVE Typed'
  BY <1>5, SameStore, <1>2, TabStaysTyped, <1>1, <1>11 DEF Confirmed, Steps, MadeFrom, Typed
<1>6. ASSUME Recovered PROVE Typed'
  BY <1>6, SameStore, TabStaysTyped, <1>1, <1>11 DEF Recovered, Steps, Typed
<1>7. ASSUME NEW r \in wire, Served(r) PROVE Typed'
  <2>1. StoreTyped' /\ effects' \in [1..MaxForms -> Nat]
    BY <1>1, KeptStore, EffectsTyped, SameStore, <1>7 DEF Served
  <2>2. TabTyped'
    BY <1>2, <1>11, <1>7, <2>1, TabStaysTyped DEF Steps, Heard, Served
  <2>. QED
    BY <1>1, <1>7, <1>11, <2>1, <2>2 DEF Typed, Served
<1>8. ASSUME NEW r \in wire, SilentlyLost(r) PROVE Typed'
  BY <1>8, SameStore, <1>11, <1>2, TabStaysTyped, <1>1 DEF SilentlyLost, Heard, Steps, Typed
<1>9. ASSUME Refreshed PROVE Typed'
  BY <1>9, SameStore, <1>2, TabStaysTyped, <1>1, <1>11 DEF Refreshed, Typed
<1>10. ASSUME SavedByOthers PROVE Typed'
  BY <1>10, KeptStore, EffectsTyped, <1>1, <1>11 DEF SavedByOthers, MadeFrom, TabTyped, Typed
<1>. QED
  BY StepsAre, <1>3, <1>4, <1>5, <1>6, <1>7, <1>8, <1>9, <1>10

(* By the steps that change nothing. *)
LEMMA TypedStutters ==
  ASSUME Typed, UNCHANGED vars
  PROVE  Typed'
BY DEF Typed, Heard, StoreTyped, TabTyped, vars

(* And holds at the start. *)
LEMMA TypedInit ==
  ASSUME Init
  PROVE  Typed
<1>1. PICK opening \in Openings :
        /\ commerce = [version |-> 1, orders |-> opening.orders]
        /\ balance = opening.ledger
        /\ tab = [commerce |-> commerce, balance |-> balance, form |-> NoForm, step |-> "idle",
                  key |-> << >>, moved |-> FALSE]
        /\ wire = {} /\ forms = 1 /\ effects = [n \in 1..MaxForms |-> 0]
  BY DEF Init
<1>2. OrdersTyped(opening.orders) /\ LedgerTyped(opening.ledger) /\ LedgerSound(opening.ledger, opening.orders)
  BY OpeningsAssumption DEF CheckAppleLedger
<1>. DEFINE o == opening.orders
<1>3. commerce = [version |-> 1, orders |-> o]
  BY <1>1
<1>. HIDE DEF o
<1>4. commerce.version = 1 /\ commerce.orders = o /\ commerce = [orders |-> commerce.orders, version |-> commerce.version]
  BY <1>3
<1>5. CopyTyped(commerce) /\ LedgerTyped(balance) /\ StoreTyped
  BY <1>1, <1>2, <1>4 DEF CopyTyped, StoreTyped, o
<1>. DEFINE no == FALSE
            none == << >>
<1>6. tab = Tab(commerce, balance, NoForm, "idle", none, no)
  BY <1>1 DEF Tab
<1>. HIDE DEF no, none
<1>7. TabShaped(tab) /\ tab.commerce = commerce /\ tab.balance = balance /\ tab.step = "idle"
  BY <1>6, TabFields
<1>8. TabTyped
  BY <1>5, <1>7 DEF TabTyped, TabShaped, Tab, Steps
<1>. QED
  BY <1>1, <1>5, <1>8 DEF Typed, Heard

(* The stored documents, the page's copies, its form and the requests on    *)
(* their way always have their types, and the ledger always belongs to the  *)
(* orders, as checkAppleLedger has it.                                      *)
THEOREM TypeCorrect == Spec => []Typed
<1>1. Init => Typed
  BY TypedInit
<1>2. Typed /\ [Next]_vars => Typed'
  BY TypedStep, TypedStutters
<1>. QED
  BY <1>1, <1>2, PTL DEF Spec

(* Each Apple ID always holds what was put in by hand less what its orders  *)
(* were charged and did not get back, and exactly the orders paid from one  *)
(* are charged, for what they say (commitAllocation, prepareRefunds,        *)
(* receiveRefund, adjustBalance, with whatever lies between two requests).  *)
THEOREM MoneyIsAlwaysAccounted == Spec => []MoneyIsAccounted
<1>1. Typed => MoneyIsAccounted
  <2>1. ASSUME Typed PROVE Accounted(balance, commerce.orders)
    BY <2>1, SoundIsAccounted DEF Typed, StoreTyped, CopyTyped
  <2>. QED
    BY <2>1 DEF Accounted, MoneyIsAccounted
<1>. QED
  BY <1>1, TypeCorrect, PTL

-----------------------------------------------------------------------------
(* A copy, or the base of a request, is what is stored or is behind it. *)

(* The evidence the server writes into the orders leaves a form's plan as   *)
(* it is.                                                                   *)
LEMMA PlannedStays ==
  ASSUME NEW f, NEW orders, OrdersTyped(orders), NEW next, OrdersTyped(next), OrdersPlanned(f, orders, next)
  PROVE  OrdersPlanned(f, orders, NormalizePaymentEvidence(orders, next))
<1>. DEFINE is == NormalizePaymentEvidence(orders, next)
<1>1. /\ DOMAIN is = DOMAIN next
      /\ \A o \in DOMAIN next :
           /\ KeptOf(next[o], is[o])
           /\ o \in DOMAIN orders /\ next[o] = orders[o] => is[o] = orders[o]
  BY NormalizedTyped
<1>. HIDE DEF is
<1>2. DOMAIN next = DOMAIN orders \cup {Own(f)} /\ \A o \in DOMAIN orders : o # Own(f) => next[o] = orders[o]
  BY DEF OrdersPlanned
<1>3. DOMAIN is = DOMAIN orders \cup {Own(f)} /\ \A o \in DOMAIN orders : o # Own(f) => is[o] = orders[o]
  BY <1>1, <1>2
<1>4. ASSUME f.op # "new"
      PROVE  /\ f.target \in DOMAIN orders /\ orders[f.target].version = f.seen[1]
             /\ OrderGrows(orders[f.target], is[f.target])
             /\ is[f.target].refunds = next[f.target].refunds
  BY <1>4, <1>1, <1>2 DEF OrdersPlanned, KeptOf, OrderGrows
<1>5. ASSUME f.op = "refund"
      PROVE  \E refund : refund.id = f.id /\ is[f.target].refunds = Append(orders[f.target].refunds, refund)
  BY <1>5, <1>4 DEF OrdersPlanned
<1>6. OrdersPlanned(f, orders, is)
  BY <1>3, <1>4, <1>5 DEF OrdersPlanned
<1>. QED
  BY <1>6 DEF is

(* Nor does the version the server gives the ledger matter. *)
LEMMA LedgerStays ==
  ASSUME NEW f, NEW was, NEW l, NEW k, SameBooks(l, k), LedgerPlanned(f, was, l)
  PROVE  LedgerPlanned(f, was, k)
BY DEF SameBooks, LedgerPlanned, RefundsPlanned

(* A request that is kept, if it was made from what is stored or from       *)
(* something stale, does with the documents what its form does.             *)
Ready(r) == RequestTyped(r) /\ OrdersReady(r) /\ LedgerReady(r)

(* What a kept request did to the documents, and their versions. *)
Written(r) ==
  /\ "commerce" \in r.sends =>
       OrdersPlanned(r.form, commerce.orders, commerce'.orders) /\ commerce'.version = commerce.version + 1
  /\ "commerce" \notin r.sends => commerce' = commerce
  /\ "balance" \in r.sends =>
       LedgerPlanned(r.form, balance, balance') /\ balance'.version = balance.version + 1
  /\ "balance" \notin r.sends => balance' = balance
  /\ HistoryKept(balance, balance')
  /\ CheckOrderFinancialHistory(commerce.orders, commerce'.orders) \/ commerce' = commerce

(* What the server kept of the history holds of the ledger as stored. *)
LEMMA HistoryStays ==
  ASSUME NEW was, NEW l, NEW k, SameBooks(l, k), HistoryKept(was, l)
  PROVE  HistoryKept(was, k)
BY DEF SameBooks, HistoryKept

(* A request that is kept was made from what is stored, so the documents    *)
(* are what its form planned.                                               *)
LEMMA KeptIsWritten ==
  ASSUME Typed, NEW r, Ready(r), Keeps(r)
  PROVE  Written(r)
<1>1. RequestTyped(r) /\ StoreTyped /\ Stored(r) /\ Accepted(r)
  BY DEF Ready, Typed, Keeps
<1>2. /\ commerce'.orders = NextOrders(r) /\ SameBooks(NextLedger(r), balance')
      /\ commerce' = [orders |-> commerce'.orders, version |-> commerce'.version]
      /\ commerce'.version = commerce.version + IF "commerce" \in r.sends THEN 1 ELSE 0
      /\ balance'.version = balance.version + IF "balance" \in r.sends THEN 1 ELSE 0
      /\ LedgerTyped(balance')
  BY <1>1, StoredParts
<1>3. /\ commerce.version \in Int /\ OrdersTyped(commerce.orders) /\ LedgerTyped(balance)
      /\ commerce = [orders |-> commerce.orders, version |-> commerce.version]
  BY <1>1 DEF StoreTyped, CopyTyped
<1>4. ASSUME "commerce" \in r.sends
      PROVE  /\ OrdersPlanned(r.form, commerce.orders, commerce'.orders)
             /\ commerce'.version = commerce.version + 1
  BY <1>4, <1>1, <1>2, <1>3, PlannedStays DEF Keeps, Stale, StoreVersions, Ready, OrdersReady,
     RequestTyped, NextOrders
<1>5. ASSUME "commerce" \notin r.sends
      PROVE  commerce' = commerce
  BY <1>2, <1>3, <1>5 DEF NextOrders
<1>6. ASSUME "balance" \in r.sends
      PROVE  LedgerPlanned(r.form, balance, balance') /\ balance'.version = balance.version + 1
  BY <1>6, <1>2, LedgerStays DEF Keeps, Stale, StoreVersions, Ready, LedgerReady, NextLedger
<1>7. ASSUME "balance" \notin r.sends
      PROVE  balance' = balance
  BY <1>3, <1>2, <1>7, LedgerParts DEF LedgerTyped, NextLedger, Shaped, SameBooks
<1>8. HistoryKept(balance, balance')
  BY <1>1, <1>2, HistoryStays DEF Accepted, CheckAppleLedger
<1>9. CheckOrderFinancialHistory(commerce.orders, commerce'.orders) \/ commerce' = commerce
  BY <1>1, <1>2, <1>5 DEF Accepted, OrdersAccepted
<1>. QED
  BY <1>4, <1>5, <1>6, <1>7, <1>8, <1>9 DEF Written

-----------------------------------------------------------------------------
(* Copies in step. *)

(* What a kept request leaves of one that is ready. *)
LEMMA VersionsGrow ==
  ASSUME Typed, NEW r, Written(r)
  PROVE  /\ commerce'.version \in Int /\ commerce.version <= commerce'.version
         /\ balance'.version \in Int /\ balance.version <= balance'.version
         /\ commerce'.version = commerce.version => commerce' = commerce
         /\ balance'.version = balance.version => balance' = balance
BY DEF Typed, StoreTyped, CopyTyped, LedgerTyped, Written

(* A request stays ready: either the documents did not change or its base   *)
(* is behind.                                                               *)
LEMMA ReadyStays ==
  ASSUME Typed, NEW q, Ready(q), q.base.commerce <= commerce.version, q.base.balance <= balance.version,
         /\ commerce'.version \in Int /\ commerce.version <= commerce'.version
         /\ balance'.version \in Int /\ balance.version <= balance'.version
         /\ commerce'.version = commerce.version => commerce' = commerce
         /\ balance'.version = balance.version => balance' = balance
  PROVE  /\ q.base.commerce <= commerce'.version /\ q.base.balance <= balance'.version
         /\ OrdersReady(q)' /\ LedgerReady(q)'
BY DEF Typed, StoreTyped, CopyTyped, LedgerTyped, Ready, RequestTyped, OrdersReady, LedgerReady

(* InStep for one pair of copies and for one request; and what every step   *)
(* does to the documents.                                                   *)
InStepOf(c, b) ==
  /\ c.version <= commerce.version /\ (c.version = commerce.version => c = commerce)
  /\ b.version <= balance.version /\ (b.version = balance.version => b = balance)

RequestInStep(r) ==
  r.base.commerce <= commerce.version /\ r.base.balance <= balance.version /\ OrdersReady(r) /\ LedgerReady(r)

Onward ==
  /\ commerce'.version \in Int /\ commerce.version <= commerce'.version
  /\ balance'.version \in Int /\ balance.version <= balance'.version
  /\ commerce'.version = commerce.version => commerce' = commerce
  /\ balance'.version = balance.version => balance' = balance

(* The copies, and the requests that stay on the wire. *)
LEMMA CopiesStay ==
  ASSUME Typed, InStep, Onward, CopiesKept
  PROVE  InStepOf(tab.commerce, tab.balance)' 
<1>1. /\ tab.commerce.version <= commerce.version /\ (tab.commerce.version = commerce.version => tab.commerce = commerce)
      /\ tab.balance.version <= balance.version /\ (tab.balance.version = balance.version => tab.balance = balance)
  BY DEF InStep
<1>2. /\ tab.commerce.version \in Int /\ commerce.version \in Int
      /\ tab.balance.version \in Int /\ balance.version \in Int
  BY DEF Typed, TabTyped, StoreTyped, CopyTyped, LedgerTyped
<1>3. CASE tab'.commerce = commerce'
  BY <1>3, <1>1, <1>2 DEF Onward, InStepOf, CopiesKept
<1>4. CASE tab'.commerce = tab.commerce
  BY <1>1, <1>2, <1>4 DEF Onward, InStepOf, CopiesKept
<1>. QED
  BY <1>3, <1>4 DEF CopiesKept

LEMMA OthersReady ==
  ASSUME Typed, InStep, Onward, NEW q \in wire
  PROVE  RequestInStep(q)'
BY ReadyStays DEF Typed, InStep, Ready, Onward, RequestInStep

(* What was made from copies that are in step is ready. *)
LEMMA MadeReady ==
  ASSUME NEW r, NEW f, NEW c, NEW b, InStepOf(c, b),
         MadeFrom(r, f, c.orders, b, [commerce |-> c.version, balance |-> b.version])
  PROVE  RequestInStep(r) /\ Ready(r)
<1>. DEFINE planned == [orders |-> r.orders, ledger |-> r.ledger]
<1>1. /\ RequestTyped(r) /\ r.form = f
      /\ r.base.commerce = c.version /\ r.base.balance = b.version
      /\ PlanGood(f, c.orders, b, planned)
  BY DEF MadeFrom
<1>2. planned.orders = r.orders /\ planned.ledger = r.ledger
  OBVIOUS
<1>. HIDE DEF planned
<1>3. LedgerPlanned(f, b, r.ledger) /\ (f.op \in OrderForms => OrdersPlanned(f, c.orders, r.orders))
  BY <1>1, <1>2 DEF PlanGood
<1>4. OrdersReady(r)
  BY <1>1, <1>3 DEF OrdersReady, RequestTyped, InStepOf
<1>5. LedgerReady(r)
  BY <1>1, <1>3 DEF LedgerReady, InStepOf
<1>. QED
  BY <1>1, <1>4, <1>5 DEF RequestInStep, InStepOf, Ready

(* InStep, in these terms. *)
LEMMA InStepParts ==
  InStep <=> InStepOf(tab.commerce, tab.balance) /\ \A r \in wire : RequestInStep(r)
BY DEF InStep, InStepOf, RequestInStep

(* A step that changes no document is onward. *)
LEMMA StillOnward ==
  ASSUME Typed, UNCHANGED <<commerce, balance>>
  PROVE  Onward
BY DEF Typed, StoreTyped, CopyTyped, LedgerTyped, Onward

(* Every step serves a request that is ready, or leaves the documents. *)
Wrote(r) == Ready(r) /\ Keeps(r) /\ Written(r)

(* What is stored, the tab's own or somebody else's, was written so. *)
LEMMA OthersMade ==
  ASSUME Typed, SavedByOthers
  PROVE  \E r : Wrote(r) /\ r.form.n = forms + 1
<1>1. PICK r : /\ Keeps(r) /\ r.form.n = forms + 1
               /\ MadeFrom(r, r.form, commerce.orders, balance, StoreVersions)
  BY DEF SavedByOthers
<1>2. InStepOf(commerce, balance)
  BY DEF Typed, StoreTyped, CopyTyped, LedgerTyped, InStepOf
<1>3. Ready(r)
  BY <1>1, <1>2, MadeReady DEF StoreVersions
<1>. QED
  BY <1>1, <1>3, KeptIsWritten DEF Wrote

LEMMA ServedWrites ==
  ASSUME Typed, InStep, NEW r \in wire, Served(r)
  PROVE  Ready(r) /\ (Wrote(r) \/ UNCHANGED <<commerce, balance, effects>>)
BY KeptIsWritten DEF Typed, InStep, Ready, Served, Wrote

(* Writing is onward. *)
LEMMA WroteOnward ==
  ASSUME Typed, NEW r, Wrote(r)
  PROVE  Onward
BY VersionsGrow DEF Wrote, Onward

(* No document goes back to an earlier version. *)
LEMMA StepOnward ==
  ASSUME Typed, InStep, Next
  PROVE  Onward
BY ServedWrites, WroteOnward, StillOnward, OthersMade, StepsAre DEF Filled, Submitted, Confirmed,
   Recovered, SilentlyLost, Refreshed

(* InStep is preserved by every step. *)
LEMMA InStepStep ==
  ASSUME Typed, InStep, Next
  PROVE  InStep'
<1>1. Onward
  BY StepOnward
<1>2. \A q \in wire : RequestInStep(q)'
  BY <1>1, OthersReady
<1>3. CopiesKept \/ tab' = tab
  BY StepsAre DEF Filled, Submitted, Confirmed, Recovered, Served, SilentlyLost, Refreshed, SavedByOthers
<1>4. InStepOf(tab.commerce, tab.balance)'
  BY <1>1, CopiesStay, TabIsShaped, <1>3 DEF Typed, CopiesKept
<1>5. \A q \in wire' : RequestInStep(q)'
  <2>1. ASSUME Confirmed PROVE \A q \in wire' : RequestInStep(q)'
    BY <2>1, InStepParts, MadeReady, <1>2 DEF Confirmed, Versions, RequestInStep, OrdersReady,
       LedgerReady
  <2>2. ASSUME NEW r \in wire, SilentlyLost(r) PROVE \A q \in wire' : RequestInStep(q)'
    BY <2>2, <1>2 DEF SilentlyLost, RequestInStep, OrdersReady, LedgerReady
  <2>. QED
    BY <1>2, <2>1, <2>2, StepsAre DEF Filled, Submitted, Recovered, Served, Refreshed, SavedByOthers
<1>6. InStep' <=> InStepOf(tab.commerce, tab.balance)' /\ \A q \in wire' : RequestInStep(q)'
  BY DEF InStep, InStepOf, RequestInStep
<1>. QED
  BY <1>4, <1>5, <1>6

(* It holds at the start, and through the steps that change nothing. *)
LEMMA InStepInit ==
  ASSUME Init
  PROVE  InStep
BY TypedInit DEF Init, InStep, Typed, StoreTyped, CopyTyped, LedgerTyped

LEMMA InStepStutters ==
  ASSUME InStep, UNCHANGED vars
  PROVE  InStep'
BY DEF InStep, OrdersReady, LedgerReady, vars

-----------------------------------------------------------------------------
(* The forms, and where they are. *)

(* The forms that are live stay what they were; only filling one in adds    *)
(* another.                                                                 *)
Follow == \A g \in LiveForms' : \E f \in LiveForms : g.n = f.n /\ Same(g, f)

(* Being the same form is an equivalence. *)
LEMMA SameIsSame ==
  ASSUME NEW f, NEW g, NEW h
  PROVE  Same(f, f) /\ (Same(f, g) => Same(g, f)) /\ (Same(f, g) /\ Same(g, h) => Same(f, h))
BY DEF Same

(* Forms that were there follow themselves. *)
LEMMA StillLive ==
  ASSUME LiveForms' \subseteq LiveForms
  PROVE  Follow
BY SameIsSame DEF Follow

(* Every step but the filling in of a form. *)
LEMMA Following ==
  ASSUME Typed, Next, ~Filled
  PROVE  Follow
<1>1. Heard
  BY DEF Typed
<1>2. ASSUME Submitted PROVE Follow
  BY <1>2, StillLive DEF Submitted, LiveForms
<1>3. ASSUME Confirmed PROVE Follow
  BY <1>3, StillLive DEF Confirmed, LiveForms, MadeFrom
<1>4. ASSUME Recovered PROVE Follow
  BY <1>4, StillLive, SameIsSame DEF Recovered, LiveForms, Follow
<1>5. ASSUME NEW r \in wire, Served(r) PROVE Follow
  BY <1>1, <1>5, StillLive DEF Served, Heard, LiveForms
<1>6. ASSUME NEW r \in wire, SilentlyLost(r) PROVE Follow
  BY <1>1, <1>6, StillLive DEF SilentlyLost, Heard, LiveForms
<1>7. ASSUME Refreshed PROVE Follow
  BY <1>7, StillLive DEF Refreshed, LiveForms
<1>8. ASSUME SavedByOthers PROVE Follow
  BY <1>8, StillLive DEF SavedByOthers, LiveForms
<1>. QED
  BY StepsAre, <1>2, <1>3, <1>4, <1>5, <1>6, <1>7, <1>8

-----------------------------------------------------------------------------
(* What a kept request does to the count of effects and to the orders. *)

(* What is written is of a form that may take effect: a new order has a     *)
(* number of its own.                                                       *)
WroteOnce(r) ==
  /\ Wrote(r) /\ r.form.n \in 2..MaxForms
  /\ IsNew(r.form) => r.form.id \notin DOMAIN commerce.orders

(* Its effect is counted, and no other form's. *)
LEMMA EffectOf ==
  ASSUME Typed, NEW r, WroteOnce(r)
  PROVE  /\ effects'[r.form.n] = effects[r.form.n] + 1 /\ effects[r.form.n] \in Nat
         /\ r.form.n \in 1..MaxForms
         /\ \A n \in 1..MaxForms : n # r.form.n => effects'[n] = effects[n]
<1>1. effects \in [1..MaxForms -> Nat] /\ MaxForms \in Nat
  BY OrderDeskAssumption, Zenon DEF Typed
<1>. DEFINE n == r.form.n
<1>2. effects' = [effects EXCEPT ![n] = effects[n] + 1]
  BY DEF WroteOnce, Wrote, Keeps, Stored
<1>3. n \in 2..MaxForms
  BY DEF WroteOnce
<1>. HIDE DEF n
<1>4. n \in 1..MaxForms
  BY <1>1, <1>3
<1>5. effects'[n] = effects[n] + 1 /\ effects[n] \in Nat /\ \A m \in 1..MaxForms : m # n => effects'[m] = effects[m]
  BY <1>1, <1>2, <1>4
<1>. QED
  BY <1>4, <1>5 DEF n

(* A form makes an order of its own, or changes the one it is about. *)
LEMMA FormsOrder ==
  ASSUME Typed, Placed, NEW r, WroteOnce(r), "commerce" \in r.sends
  PROVE  /\ DOMAIN commerce'.orders = DOMAIN commerce.orders \cup {Own(r.form)}
         /\ \A o \in DOMAIN commerce.orders : o # Own(r.form) => commerce'.orders[o] = commerce.orders[o]
         /\ r.form.op = "new" => Own(r.form) = r.form.id /\ r.form.id \notin DOMAIN commerce.orders
         /\ r.form.op # "new" =>
              /\ Own(r.form) = r.form.target /\ r.form.target \in DOMAIN commerce.orders
              /\ commerce.orders[r.form.target].version = r.form.seen[1]
              /\ OrderGrows(commerce.orders[r.form.target], commerce'.orders[r.form.target])
<1>1. OrdersPlanned(r.form, commerce.orders, commerce'.orders) /\ FormTyped(r.form)
  BY DEF WroteOnce, Wrote, Written, Ready, RequestTyped
<1>. QED
  BY <1>1 DEF OrdersPlanned, Own, WroteOnce, IsNew

(* No order goes, and one that changes grows. *)
LEMMA OrdersStay ==
  ASSUME Typed, Placed, NEW r, WroteOnce(r), NEW o \in DOMAIN commerce.orders
  PROVE  /\ o \in DOMAIN commerce'.orders
         /\ commerce'.orders[o] = commerce.orders[o] \/ OrderGrows(commerce.orders[o], commerce'.orders[o])
BY FormsOrder DEF WroteOnce, Wrote, Written

(* What was written is of a typed form. *)
LEMMA WroteTyped ==
  ASSUME NEW r, WroteOnce(r)
  PROVE  /\ RequestTyped(r) /\ FormTyped(r.form)
         /\ r.form.n \in 1..MaxForms /\ r.form.n \in 2..MaxForms
BY MaxFormsBound DEF WroteOnce, Wrote, Ready, RequestTyped

(* A typed form's number is drawn for it, and for no other form.            *)
LEMMA DrawnApart ==
  ASSUME NEW f, FormTyped(f), f.n \in 1..MaxForms, NEW n \in 1..MaxForms, DrawnFor(n, f.id)
  PROVE  n = f.n
BY DrawnByOne DEF FormTyped

(* A form that had no effect made no order. *)
LEMMA NoneEntered ==
  ASSUME Placed, NEW n \in 1..MaxForms, n # 1, effects[n] = 0
  PROVE  EnteredBy(n) = {}
<1>1. SUFFICES ASSUME NEW o \in DOMAIN commerce.orders, DrawnFor(n, o)
               PROVE  FALSE
  BY DEF EnteredBy
<1>2. o # 1
  BY <1>1, DrawnByOne, DrawnSelf, MaxFormsBound
<1>3. PICK m \in 1..MaxForms : DrawnFor(m, o) /\ effects[m] >= 1
  BY <1>2 DEF Placed, Taken
<1>4. m = n
  BY <1>1, <1>3, DrawnByOne
<1>. QED
  BY <1>3, <1>4

(* The orders a form has made are a finite set.                             *)
LEMMA EnteredFinite ==
  ASSUME StoreTyped, NEW n
  PROVE  IsFiniteSet(EnteredBy(n))
BY FS_Subset DEF StoreTyped, CopyTyped, OrdersTyped, EnteredBy

(* An order more, if the request is for a new one.                          *)
LEMMA OrdersGrow ==
  ASSUME Typed, Placed, NEW r, WroteOnce(r)
  PROVE  /\ ~IsNew(r.form) => DOMAIN commerce'.orders = DOMAIN commerce.orders
         /\ IsNew(r.form) => /\ DOMAIN commerce'.orders = DOMAIN commerce.orders \cup {r.form.id}
                             /\ r.form.id \notin DOMAIN commerce.orders
<1>1. FormTyped(r.form) /\ ("commerce" \in r.sends <=> r.form.op \in OrderForms)
  BY WroteTyped DEF RequestTyped
<1>2. ~IsNew(r.form) => DOMAIN commerce'.orders = DOMAIN commerce.orders
  BY <1>1, FormsOrder DEF WroteOnce, Wrote, Written, IsNew
<1>. QED
  BY <1>1, <1>2, FormsOrder DEF IsNew, OrderForms

(* A request that is stored for a new order adds to the orders its form     *)
(* made, and no request to those of another.                                *)
LEMMA EnteredGrows ==
  ASSUME Typed, Placed, NEW r, WroteOnce(r)
  PROVE  /\ \A n \in 1..MaxForms : ~IsNew(r.form) \/ n # r.form.n => EnteredBy(n)' = EnteredBy(n)
         /\ IsNew(r.form) => /\ EnteredBy(r.form.n)' = EnteredBy(r.form.n) \cup {r.form.id}
                             /\ r.form.id \notin EnteredBy(r.form.n)
<1>1. FormTyped(r.form) /\ r.form.n \in 1..MaxForms
  BY WroteTyped
<1>4. DrawnFor(r.form.n, r.form.id) /\ \A n \in 1..MaxForms : DrawnFor(n, r.form.id) => n = r.form.n
  BY <1>1, DrawnApart DEF FormTyped
<1>. QED
  BY <1>4, OrdersGrow DEF EnteredBy

(* What others save is of a form that may take effect. *)
LEMMA SavedWrites ==
  ASSUME Typed, Placed, SavedByOthers
  PROVE  \E r : WroteOnce(r) /\ r.form.n = forms + 1
<1>1. PICK r : Wrote(r) /\ r.form.n = forms + 1
  BY OthersMade
<1>2. forms + 1 \in 2..MaxForms /\ forms + 1 \in 1..MaxForms /\ forms + 1 # 1 /\ forms + 1 > forms
  BY MaxFormsBound DEF Typed, Placed, SavedByOthers
<1>3. EnteredBy(forms + 1) = {}
  BY <1>2, NoneEntered DEF Placed
<1>4. DrawnFor(forms + 1, r.form.id)
  BY <1>1 DEF Wrote, Ready, RequestTyped, FormTyped
<1>. QED
  BY <1>1, <1>2, <1>3, <1>4 DEF WroteOnce, EnteredBy

(* A request that is served and kept is of a form that may take effect. *)
LEMMA ServedOnce ==
  ASSUME Typed, InStep, Placed, OwnNumbers, NEW r \in wire, Served(r)
  PROVE  WroteOnce(r) \/ UNCHANGED <<commerce, balance, effects>>
BY MaxFormsBound, ServedWrites DEF Typed, Placed, LiveForms, OwnNumbers, UnderWay, WroteOnce

(* So a step leaves the documents and the effects alone, or writes for one  *)
(* such form.                                                               *)
LEMMA StepWrites ==
  ASSUME Typed, InStep, Placed, OwnNumbers, Next
  PROVE  \/ UNCHANGED <<commerce, balance, effects>>
         \/ \E r \in wire : WroteOnce(r) /\ Served(r)
         \/ SavedByOthers /\ \E r : WroteOnce(r) /\ r.form.n = forms + 1
BY SavedWrites, ServedOnce, StepsAre DEF Filled, Submitted, Confirmed, Recovered, SilentlyLost, Refreshed

(* The forms' numbers, as they are given out. *)
LEMMA FormsCount ==
  ASSUME Typed, Placed, Next
  PROVE  /\ forms' \in Nat /\ forms' >= forms
         /\ Filled \/ SavedByOthers => forms' = forms + 1 /\ forms < MaxForms
BY StepsAre DEF Typed, Filled, Submitted, Confirmed, Recovered, Served, SilentlyLost, Refreshed, SavedByOthers

(* Placed is preserved: the forms, then the orders. *)
LEMMA LivePlaced ==
  ASSUME Typed, Placed, Next
  PROVE  /\ \A f \in LiveForms' : f.n \in 2..forms' /\ f.n \in 1..MaxForms
         /\ \A f, g \in LiveForms' : f.n = g.n => Same(f, g)
<1>0. MaxForms \in Nat /\ forms \in Nat /\ forms >= 1
  BY MaxFormsBound DEF Typed, Placed
<1>1. forms' \in Nat /\ forms' >= forms
  BY FormsCount
<1>2. \A f \in LiveForms : f.n \in 2..forms' /\ f.n \in 1..MaxForms
  BY <1>0, <1>1 DEF Placed
<1>3. CASE Filled
  BY <1>3, <1>0, <1>2, SameIsSame DEF Filled, LiveForms, Placed
<1>4. CASE ~Filled
  BY <1>4, Following, <1>2 DEF Follow, Placed, Same
<1>. QED
  BY <1>3, <1>4

LEMMA WrittenPlaced ==
  ASSUME Typed, Placed, NEW r, WroteOnce(r)
  PROVE  \A o \in DOMAIN commerce'.orders : o = 1 \/ Taken(o)'
<1>1. \A n \in 1..MaxForms : effects'[n] >= effects[n] /\ effects[n] \in Nat /\ effects'[n] \in Nat
  BY EffectOf DEF Typed
<1>2. \A o : Taken(o) => Taken(o)'
  BY <1>1 DEF Taken
<1>3. CASE "commerce" \notin r.sends
  BY <1>2, <1>3 DEF WroteOnce, Wrote, Written, Placed
<1>4. CASE "commerce" \in r.sends
  <2>1. Taken(r.form.id)'
    <3>1. effects'[r.form.n] >= 1 /\ r.form.n \in 1..MaxForms
      BY EffectOf
    <3>. QED
      BY <3>1, WroteTyped DEF Taken, FormTyped
  <2>. QED
    BY <1>2, <1>4, <2>1, FormsOrder DEF Placed
<1>. QED
  BY <1>3, <1>4

LEMMA PlacedStep ==
  ASSUME Typed, InStep, Placed, OwnNumbers, Next
  PROVE  Placed'
<1>0. MaxForms \in Nat /\ forms \in Nat /\ forms >= 1 /\ forms' \in Nat /\ forms' >= forms
  BY MaxFormsBound, FormsCount DEF Typed, Placed
<1>1. CASE UNCHANGED <<commerce, balance, effects>>
  BY <1>0, <1>1, LivePlaced DEF Placed, Taken
<1>2. ASSUME NEW r \in wire, WroteOnce(r)
      PROVE  Placed'
  BY <1>0, <1>2, EffectOf, LivePlaced, WrittenPlaced DEF LiveForms, Placed
<1>3. ASSUME SavedByOthers, NEW r, WroteOnce(r), r.form.n = forms + 1
      PROVE  Placed'
  BY <1>3, FormsCount, <1>0, EffectOf, LivePlaced, WrittenPlaced DEF Placed
<1>. QED
  BY <1>1, <1>2, <1>3, StepWrites

-----------------------------------------------------------------------------
(* Each submission of a form for a new order has a number of its own. *)

(* A live form is typed. *)
LEMMA LiveTyped ==
  ASSUME Typed, NEW f \in LiveForms
  PROVE  FormTyped(f)
BY DEF Typed, TabTyped, LiveForms, RequestTyped

LEMMA LiveNumbers ==
  ASSUME Typed, Placed, NEW f \in LiveForms
  PROVE  /\ FormTyped(f) /\ f.n \in 1..MaxForms /\ f.n # 1 /\ f.n # forms + 1 /\ f.id \in Nat
         /\ DrawnFor(f.n, f.id)
<1>1. FormTyped(f) /\ f.n \in 1..MaxForms /\ f.n \in 2..forms /\ forms \in Nat
  BY LiveTyped DEF Placed, Typed
<1>. QED
  BY <1>1, FormFields, FormDrawn

LEMMA TabIsLive ==
  ASSUME tab.step # "idle"
  PROVE  tab.form \in LiveForms
BY DEF LiveForms

LEMMA WireIsLive ==
  ASSUME NEW r \in wire
  PROVE  r.form \in LiveForms
BY DEF LiveForms

(* The numbers of two forms differ. *)
LEMMA NumbersApart ==
  ASSUME NEW f, NEW g, FormTyped(f), FormTyped(g), f.n \in 1..MaxForms, g.n \in 1..MaxForms, f.id = g.id
  PROVE  f.n = g.n
BY DrawnByOne DEF FormTyped

(* The requests under way, first. *)
LEMMA UnderWayStep ==
  ASSUME Typed, InStep, Placed, OwnNumbers, Next
  PROVE  UnderWay'
<1>1. UnderWay
  BY DEF OwnNumbers
<1>2. ASSUME UNCHANGED <<commerce, wire>> PROVE UnderWay'
  BY <1>1, <1>2 DEF UnderWay
<1>3. ASSUME Confirmed PROVE UnderWay'
  <2>1. CASE wire' = wire
    BY <1>2, <1>3, <2>1 DEF Confirmed
  <2>2. ASSUME NEW r, r.form = tab.form, wire' = wire \cup {r}
        PROVE  UnderWay'
    BY <1>1, <1>3, <2>2 DEF Confirmed, UnderWay, OwnNumbers, Before, Unclaimed
  <2>. QED
    BY <1>3, <2>1, <2>2 DEF Confirmed, MadeFrom
<1>4. ASSUME NEW r \in wire, Served(r) PROVE UnderWay'
  <2>1. wire' = wire \ {r}
    BY <1>4 DEF Served
  <2>2. CASE UNCHANGED <<commerce, balance, effects>>
    BY <1>1, <2>1, <2>2 DEF UnderWay
  <2>3. CASE WroteOnce(r)
    BY <1>1, <2>1, <2>3, OrdersGrow DEF UnderWay
  <2>. QED
    BY <1>4, <2>2, <2>3, ServedOnce
<1>5. ASSUME NEW r \in wire, SilentlyLost(r) PROVE UnderWay'
  BY <1>1, <1>5 DEF SilentlyLost, UnderWay
<1>6. ASSUME SavedByOthers PROVE UnderWay'
  <2>1. PICK r : WroteOnce(r) /\ r.form.n = forms + 1
    BY <1>6, SavedWrites
  <2>2. \A q \in wire : q.form.id # r.form.id
    BY <2>1, WroteTyped, WireIsLive, LiveNumbers, NumbersApart
  <2>. QED
    BY <1>1, <1>6, <2>1, <2>2, OrdersGrow DEF UnderWay, SavedByOthers
<1>. QED
  BY <1>2, <1>3, <1>4, <1>5, <1>6, StepsAre DEF Filled, Submitted, Recovered, Refreshed

(* The tab's form draws its next number above all it has drawn. *)
LEMMA NextUnclaimed ==
  ASSUME Typed, Placed, OwnNumbers, tab.step # "idle", IsNew(tab.form),
         NEW g, FormTyped(g), g.n = tab.form.n, g.id = tab.form.id + MaxForms
  PROVE  LastDrawn(g) /\ Unclaimed(g)
<1>1. /\ FormTyped(tab.form) /\ tab.form.n \in 1..MaxForms /\ tab.form.id \in Nat /\ MaxForms \in Nat \ {0}
      /\ LastDrawn(tab.form)
  BY TabIsLive, LiveNumbers, MaxFormsBound DEF OwnNumbers
<1>2. \A x \in Int : x <= tab.form.id => x <= g.id /\ x # g.id
  BY <1>1
<1>3. \A r \in wire : FormTyped(r.form) /\ r.form.n \in 1..MaxForms /\ r.form.id \in Nat
  BY WireIsLive, LiveNumbers
<1>4. ASSUME NEW o \in EnteredBy(g.n) PROVE o \in Int
  <2>1. PICK k \in 0..o : o = g.n + k * MaxForms
    BY DEF EnteredBy, DrawnFor
  <2>. QED
    BY <1>1, <2>1
<1>5. LastDrawn(g)
  BY <1>1, <1>2, <1>3, <1>4 DEF LastDrawn
<1>6. ASSUME NEW r \in wire PROVE r.form.id # g.id
  BY <1>1, <1>2, <1>3, NumbersApart DEF LastDrawn
<1>7. g.id \notin DOMAIN commerce.orders
  <2>1. DrawnFor(g.n, g.id)
    BY DEF FormTyped
  <2>. QED
    BY <1>1, <1>2, <1>4, <2>1 DEF LastDrawn, EnteredBy
<1>. QED
  BY <1>5, <1>6, <1>7 DEF Unclaimed

(* A form that was just filled in has drawn none. *)
LEMMA FilledUnclaimed ==
  ASSUME Typed, Placed, NEW g, FormTyped(g), g.n = forms + 1, forms < MaxForms
  PROVE  LastDrawn(g) /\ Unclaimed(g)
<1>1. g.n \in 1..MaxForms /\ g.n # 1 /\ effects[g.n] = 0
  BY MaxFormsBound DEF Typed, Placed
<1>2. EnteredBy(g.n) = {}
  BY <1>1, NoneEntered
<1>3. \A r \in wire : FormTyped(r.form) /\ r.form.n \in 1..MaxForms /\ r.form.n # g.n
  BY WireIsLive, LiveNumbers
<1>4. \A r \in wire : r.form.id # g.id
  BY <1>1, <1>3, NumbersApart
<1>. QED
  BY <1>2, <1>3, <1>4 DEF LastDrawn, Unclaimed, EnteredBy, FormTyped

LEMMA OwnNumbersStep ==
  ASSUME Typed, InStep, Placed, OwnNumbers, Next
  PROVE  OwnNumbers'
<1>0. UnderWay'
  BY UnderWayStep
<1>. DEFINE f == tab.form
<1>1. ASSUME Filled PROVE OwnNumbers'
  <2>1. LastDrawn(tab'.form) /\ Unclaimed(tab'.form)
    BY <1>1, FilledUnclaimed DEF Filled
  <2>. QED
    BY <1>0, <1>1, <2>1 DEF Filled, OwnNumbers, LastDrawn, Unclaimed, EnteredBy
<1>2. ASSUME UNCHANGED <<commerce, wire>>, tab'.form = f,
             tab'.step # "idle" => tab.step # "idle", tab'.step \in Before => tab.step \in Before
      PROVE  OwnNumbers'
  BY <1>0, <1>2 DEF OwnNumbers, LastDrawn, Unclaimed, EnteredBy
<1>3. ASSUME tab'.step = "idle" PROVE OwnNumbers'
  BY <1>0, <1>3 DEF OwnNumbers
<1>4. ASSUME Confirmed PROVE OwnNumbers'
  <2>1. CASE wire' = wire
    BY <1>2, <1>4, <2>1 DEF Confirmed, Before
  <2>2. ASSUME tab'.step = "sent", NEW r, r.form = f, wire' = wire \cup {r}
        PROVE  OwnNumbers'
    BY <1>0, <1>4, <2>2, TabIsLive, LiveNumbers DEF Confirmed, OwnNumbers, LastDrawn, EnteredBy, Before
  <2>. QED
    BY <1>4, <2>1, <2>2 DEF Confirmed, MadeFrom
<1>5. ASSUME Recovered PROVE OwnNumbers'
  <2>1. IsNew(tab'.form) => LastDrawn(tab'.form) /\ Unclaimed(tab'.form)
    BY <1>5, NextUnclaimed DEF Recovered, IsNew, Same
  <2>. QED
    BY <1>0, <1>5, <2>1 DEF Recovered, OwnNumbers, LastDrawn, Unclaimed, EnteredBy
<1>6. ASSUME NEW r \in wire, Served(r) PROVE OwnNumbers'
  <2>1. CASE tab'.step = "idle"
    BY <1>3, <2>1
  <2>2. CASE tab.step # "idle" /\ tab'.form = f /\ (tab'.step \in Before => tab.step \in Before)
    <3>1. wire' = wire \ {r}
      BY <1>6 DEF Served
    <3>2. CASE UNCHANGED <<commerce, balance, effects>>
      BY <1>0, <2>2, <3>1, <3>2 DEF OwnNumbers, LastDrawn, Unclaimed, EnteredBy
    <3>3. CASE WroteOnce(r)
      <4>1. \A o \in DOMAIN commerce'.orders : o \in DOMAIN commerce.orders \/ (IsNew(r.form) /\ o = r.form.id)
        BY <3>3, OrdersGrow
      <4>2. DrawnFor(f.n, r.form.id) => r.form.n = f.n
        BY <2>2, <3>3, WroteTyped, TabIsLive, LiveNumbers, DrawnApart
      <4>. QED
        BY <1>0, <2>2, <3>1, <4>1, <4>2 DEF OwnNumbers, LastDrawn, Unclaimed, EnteredBy
    <3>. QED
      BY <1>6, <3>2, <3>3, ServedOnce
  <2>. QED
    BY <1>6, <2>1, <2>2 DEF Served, Before, Typed, Heard
<1>7. ASSUME NEW r \in wire, SilentlyLost(r) PROVE OwnNumbers'
  BY <1>0, <1>7 DEF SilentlyLost, OwnNumbers, LastDrawn, EnteredBy, Before, Typed, Heard
<1>8. ASSUME SavedByOthers PROVE OwnNumbers'
  <2>1. PICK r : WroteOnce(r) /\ r.form.n = forms + 1
    BY <1>8, SavedWrites
  <2>2. tab' = tab /\ wire' = wire
    BY <1>8 DEF SavedByOthers
  <2>3. CASE tab.step # "idle" /\ IsNew(f)
    <3>1. FormTyped(f) /\ f.n \in 1..MaxForms /\ f.n # r.form.n
      BY <2>1, <2>3, TabIsLive, LiveNumbers
    <3>2. f.id # r.form.id
      <4>1. FormTyped(r.form) /\ r.form.n \in 1..MaxForms
        BY <2>1, WroteTyped
      <4>. QED
        BY <3>1, <4>1, NumbersApart
    <3>3. EnteredBy(f.n)' = EnteredBy(f.n)
      <4>1. \A n \in 1..MaxForms : n # r.form.n => EnteredBy(n)' = EnteredBy(n)
        BY <2>1, EnteredGrows
      <4>. QED
        BY <2>2, <3>1, <4>1
    <3>. QED
      BY <1>0, <2>1, <2>2, <2>3, <3>2, <3>3, OrdersGrow DEF OwnNumbers, LastDrawn, Unclaimed
  <2>. QED
    BY <1>0, <2>2, <2>3 DEF OwnNumbers
<1>9. ASSUME Submitted \/ Refreshed PROVE OwnNumbers'
  BY <1>2, <1>3, <1>9 DEF Submitted, Refreshed, Before
<1>. QED
  BY <1>1, <1>4, <1>5, <1>6, <1>7, <1>8, <1>9, StepsAre

(* What it made is counted. *)
LEMMA CountedNow ==
  ASSUME Typed, Placed, NewCounted, NEW r, WroteOnce(r), r.form \in LiveForms \/ r.form.n = forms + 1,
         IsNew(r.form)
  PROVE  effects'[r.form.n] = Cardinality(EnteredBy(r.form.n)')
<1>1. PICK n : n = r.form.n
  OBVIOUS
<1>2. n \in 1..MaxForms /\ effects'[n] = effects[n] + 1
  BY <1>1, EffectOf
<1>3. effects[n] = Cardinality(EnteredBy(n))
  <2>1. CASE r.form \in LiveForms
    BY <1>1, <2>1 DEF NewCounted
  <2>2. CASE n = forms + 1
    <3>1. effects[n] = 0 /\ n # 1
      BY <1>2, <2>2 DEF Typed, Placed
    <3>. QED
      BY <1>2, <3>1, NoneEntered, FS_EmptySet
  <2>. QED
    BY <1>1, <2>1, <2>2
<1>4. IsFiniteSet(EnteredBy(n))
  BY EnteredFinite DEF Typed
<1>5. EnteredBy(n)' = EnteredBy(n) \cup {r.form.id} /\ r.form.id \notin EnteredBy(n)
  BY <1>1, EnteredGrows
<1>6. Cardinality(EnteredBy(n)') = Cardinality(EnteredBy(n)) + 1
  BY <1>4, <1>5, FS_AddElement
<1>. QED
  BY <1>1, <1>2, <1>3, <1>6

(* The effects and the orders of the other forms stay. *)
LEMMA CountedStay ==
  ASSUME Typed, Placed, NEW r, WroteOnce(r), NEW n \in 1..MaxForms, n # r.form.n
  PROVE  effects'[n] = effects[n] /\ EnteredBy(n)' = EnteredBy(n)
BY EffectOf, EnteredGrows

(* NewCounted is preserved by every step. *)
LEMMA NewCountedStep ==
  ASSUME Typed, InStep, Placed, OwnNumbers, NewCounted, Next
  PROVE  NewCounted'
<1>1. CASE Filled
  <2>1. UNCHANGED <<commerce, balance, effects>> /\ \A g \in LiveForms' : g \in LiveForms \/ g.n = forms + 1
    BY <1>1 DEF Filled, LiveForms
  <2>2. effects[forms + 1] = 0 /\ forms + 1 \in 1..MaxForms /\ forms + 1 # 1
    BY <1>1, MaxFormsBound DEF Filled, Typed, Placed
  <2>3. effects[forms + 1] = Cardinality(EnteredBy(forms + 1))
    BY <2>2, NoneEntered, FS_EmptySet
  <2>. QED
    BY <2>1, <2>3 DEF NewCounted, EnteredBy
<1>2. CASE ~Filled
  <2>1. SUFFICES ASSUME NEW g \in LiveForms', IsNew(g)
                 PROVE  effects'[g.n] = Cardinality(EnteredBy(g.n)')
    BY DEF NewCounted
  <2>2. PICK f \in LiveForms : g.n = f.n /\ Same(g, f)
    BY <1>2, Following DEF Follow
  <2>3. IsNew(f) /\ f.n \in 1..MaxForms /\ effects[f.n] = Cardinality(EnteredBy(f.n))
    BY <2>1, <2>2, LiveNumbers DEF IsNew, Same, NewCounted
  <2>4. CASE UNCHANGED <<commerce, balance, effects>>
    BY <2>2, <2>3, <2>4 DEF EnteredBy
  <2>5. ASSUME NEW r, WroteOnce(r), r.form \in LiveForms \/ r.form.n = forms + 1
        PROVE  effects'[g.n] = Cardinality(EnteredBy(g.n)')
    <3>1. CASE f.n # r.form.n
      BY <2>2, <2>3, <2>5, <3>1, CountedStay
    <3>2. CASE f.n = r.form.n
      <4>1. r.form \in LiveForms
        BY <2>5, <3>2, LiveNumbers
      <4>2. IsNew(r.form)
        BY <2>3, <3>2, <4>1 DEF IsNew, Placed, Same
      <4>. QED
        BY <2>2, <2>5, <3>2, <4>2, CountedNow
    <3>. QED
      BY <3>1, <3>2
  <2>. QED
    BY <2>4, <2>5, StepWrites DEF LiveForms
<1>. QED
  BY <1>1, <1>2

-----------------------------------------------------------------------------
(* What is kept of the ledger. *)

(* A wallet's version counts its movements. *)
LEMMA WalletCounts ==
  ASSUME NEW l, MovementsAddUp(l), NEW id \in AppleIds
  PROVE  l.wallets[id].version = 1 + Cardinality(MovesOn(l, id))
<1>. DEFINE sum == SumOf(l.movements, MovesOn(l, id))
            count == 1 + Cardinality(MovesOn(l, id))
<1>1. l.wallets[id] = [balance |-> sum, version |-> count]
  BY DEF MovementsAddUp
<1>. HIDE DEF sum, count
<1>2. l.wallets[id].version = count
  BY <1>1
<1>. QED
  BY <1>2 DEF count

(* The wallets' versions only grow: a wallet's version counts its           *)
(* movements, and they stay.                                                *)
LEMMA WalletsGrow ==
  ASSUME NEW l, LedgerTyped(l), MovementsAddUp(l), NEW k, LedgerTyped(k), MovementsAddUp(k), HistoryKept(l, k),
         NEW id \in AppleIds
  PROVE  l.wallets[id].version <= k.wallets[id].version
<1>1. l.movements \in Seq(Movement) /\ k.movements \in Seq(Movement)
  BY DEF LedgerTyped
<1>2. l.wallets[id].version = 1 + Cardinality(MovesOn(l, id)) /\ k.wallets[id].version = 1 + Cardinality(MovesOn(k, id))
  BY WalletCounts
<1>3. IsFiniteSet(MovesOn(l, id)) /\ IsFiniteSet(MovesOn(k, id))
  BY <1>1, FS_Interval, FS_Subset DEF MovesOn
<1>4. MovesOn(l, id) \subseteq MovesOn(k, id)
  <2>. SUFFICES ASSUME NEW n \in DOMAIN l.movements, l.movements[n].appleId = id
                PROVE  n \in DOMAIN k.movements /\ k.movements[n].appleId = id
    BY DEF MovesOn
  <2>1. n \in DOMAIN k.movements /\ [k.movements[n] EXCEPT !.undone = 0] = [l.movements[n] EXCEPT !.undone = 0]
    BY DEF HistoryKept
  <2>. DEFINE was == l.movements[n]
              is == k.movements[n]
  <2>2. was \in Movement /\ is \in Movement
    BY <1>1, <2>1
  <2>3. [is EXCEPT !.undone = 0] = [was EXCEPT !.undone = 0]
    BY <2>1
  <2>4. was.appleId = id
    OBVIOUS
  <2>. HIDE DEF was, is
  <2>5. [is EXCEPT !.undone = 0].appleId = is.appleId /\ [was EXCEPT !.undone = 0].appleId = was.appleId
    BY <2>2 DEF Movement
  <2>6. is.appleId = was.appleId
    BY <2>3, <2>5
  <2>. QED
    BY <2>1, <2>4, <2>6 DEF is
<1>5. Cardinality(MovesOn(l, id)) <= Cardinality(MovesOn(k, id))
  BY <1>3, <1>4, FS_Subset
<1>6. Cardinality(MovesOn(l, id)) \in Nat /\ Cardinality(MovesOn(k, id)) \in Nat
  BY <1>3, FS_CardinalityType
<1>. QED
  BY <1>2, <1>5, <1>6

-----------------------------------------------------------------------------
(* A form that took effect is spent. *)

(* A refund that is registered is none that was there: the server refuses   *)
(* one whose number the order has already.                                  *)
LEMMA RefundIsNew ==
  ASSUME NEW was \in Order, NEW is \in Order, NEW refund,
         is.refunds = Append(was.refunds, refund), CheckRefund(was, is)
  PROVE  \A i \in DOMAIN was.refunds : was.refunds[i].id # refund.id
<1>. DEFINE R == [id : Int, amount : Int, payment : {"bank", "apple"}]
            s == was.refunds
            t == is.refunds
            added == SubSeq(t, Len(s) + 1, Len(t))
<1>1. s \in Seq(R) /\ t \in Seq(R) /\ t = Append(s, refund)
  BY DEF Order
<1>. HIDE DEF R
<1>2. Len(t) = Len(s) + 1 /\ Len(s) \in Nat /\ t[Len(s) + 1] = refund
  BY <1>1
<1>3. Len(added) = 1 /\ added[1] = refund /\ DOMAIN added = {1}
  BY <1>1, <1>2
<1>4. added # << >> /\ t # << >>
  BY <1>2, <1>3
<1>5. \A n \in DOMAIN added : \A i \in DOMAIN s : s[i].id # added[n].id
  BY <1>4 DEF CheckRefund, added, s, t
<1>. QED
  BY <1>3, <1>5

(* So the version of no refund goes back. *)
LEMMA RefundsGrow ==
  ASSUME Typed, StoreTyped', NEW r, Wrote(r), NEW q \in DOMAIN balance.refunds
  PROVE  q \in DOMAIN balance'.refunds /\ balance'.refunds[q].version >= balance.refunds[q].version
<1>. DEFINE f == r.form
            t == f.target
<1>1. FormTyped(f) /\ Written(r) /\ (f.op \in OrderForms => "commerce" \in r.sends)
  BY DEF Wrote, Ready, RequestTyped
<1>2. balance.refunds[q].version \in Int
  BY DEF Typed, StoreTyped, LedgerTyped, Refund
<1>3. CASE "balance" \notin r.sends
  BY <1>1, <1>2, <1>3 DEF Written
<1>4. CASE "balance" \in r.sends
  <2>1. /\ q \in DOMAIN balance'.refunds
        /\ \/ balance'.refunds[q].version >= balance.refunds[q].version
           \/ f.op = "refund" /\ f.id = q /\ balance'.refunds[q].order = t
    BY <1>1, <1>4 DEF Written, LedgerPlanned, RefundsPlanned
  <2>2. CASE f.op = "refund" /\ f.id = q /\ balance'.refunds[q].order = t
    <3>1. "commerce" \in r.sends
      BY <1>1, <2>2 DEF OrderForms
    <3>2. /\ t \in DOMAIN commerce.orders
          /\ \E refund : refund.id = q /\ commerce'.orders[t].refunds = Append(commerce.orders[t].refunds, refund)
      BY <1>1, <2>2, <3>1 DEF Written, OrdersPlanned
    <3>3. t \in DOMAIN commerce'.orders
      BY <1>1, <3>1, <3>2 DEF Written, OrdersPlanned
    <3>4. commerce.orders[t] \in Order /\ commerce'.orders[t] \in Order
      BY <3>2, <3>3 DEF Typed, StoreTyped, CopyTyped, OrdersTyped
    <3>5. CheckRefund(commerce.orders[t], commerce'.orders[t])
      <4>1. commerce'.version # commerce.version
        BY <1>1, <3>1 DEF Written, Typed, StoreTyped, CopyTyped
      <4>2. CheckOrderFinancialHistory(commerce.orders, commerce'.orders)
        BY <1>1, <4>1 DEF Written
      <4>. QED
        BY <3>2, <3>3, <4>2 DEF CheckOrderFinancialHistory
    <3>6. \A i \in DOMAIN commerce.orders[t].refunds : commerce.orders[t].refunds[i].id # q
      BY <3>2, <3>4, <3>5, RefundIsNew
    <3>7. balance.refunds[q].order = t
      BY <1>1, <2>2 DEF Written, HistoryKept
    <3>8. \E i \in DOMAIN commerce.orders[t].refunds : commerce.orders[t].refunds[i].id = q
      <4>1. RefundsMatch(balance, commerce.orders)
        BY DEF Typed, StoreTyped, LedgerSound
      <4>2. \E n \in DOMAIN commerce.orders[balance.refunds[q].order].refunds :
              commerce.orders[balance.refunds[q].order].refunds[n].id = q
        BY <4>1 DEF RefundsMatch
      <4>. QED
        BY <3>7, <4>2
    <3>. QED
      BY <3>6, <3>8
  <2>. QED
    BY <2>1, <2>2
<1>. QED
  BY <1>3, <1>4

-----------------------------------------------------------------------------
(* A spent form stays spent. *)
LEMMA SpentStays ==
  ASSUME Typed, StoreTyped', Placed, NEW r, WroteOnce(r), NEW f, FormTyped(f), f.op # "new", Spent(f)
  PROVE  Spent(f)'
<1>1. /\ LedgerTyped(balance) /\ MovementsAddUp(balance) /\ LedgerTyped(balance') /\ MovementsAddUp(balance')
      /\ OrdersTyped(commerce.orders) /\ OrdersTyped(commerce'.orders)
  BY DEF Typed, StoreTyped, CopyTyped, LedgerSound, CheckMovements
<1>2. HistoryKept(balance, balance') /\ Wrote(r)
  BY DEF WroteOnce, Wrote, Written
<1>3. ASSUME f.op \in OrderForms
      PROVE  f.target \in DOMAIN commerce'.orders /\ commerce'.orders[f.target].version > f.seen[1]
  <2>1. f.target \in DOMAIN commerce.orders /\ commerce.orders[f.target].version > f.seen[1]
    BY <1>3 DEF Spent
  <2>2. /\ f.target \in DOMAIN commerce'.orders
        /\ \/ commerce'.orders[f.target] = commerce.orders[f.target]
           \/ commerce'.orders[f.target].version = commerce.orders[f.target].version + 1
    BY <2>1, OrdersStay DEF OrderGrows
  <2>3. commerce.orders[f.target].version \in Int /\ f.seen[1] \in Int
    BY <1>1, <1>3, <2>1, FormSeen DEF OrdersTyped, Order, OrderForms
  <2>. QED
    BY <2>1, <2>2, <2>3
<1>4. ASSUME f.op = "adjust"
      PROVE  balance'.wallets[f.appleId].version > f.seen[1]
  <2>1. f.appleId \in AppleIds /\ f.seen[1] \in Int
    BY <1>4, FormSeen DEF FormTyped
  <2>2. balance.wallets[f.appleId].version <= balance'.wallets[f.appleId].version
    BY <1>1, <1>2, <2>1, WalletsGrow
  <2>3. balance.wallets[f.appleId].version \in Int /\ balance'.wallets[f.appleId].version \in Int
    BY <1>1, <2>1 DEF LedgerTyped, Wallet
  <2>. QED
    BY <1>4, <2>1, <2>2, <2>3 DEF Spent
<1>5. ASSUME f.op = "undo-adjust"
      PROVE  f.target \in DOMAIN balance'.movements /\ balance'.movements[f.target].undone # 0
  BY <1>5, <1>2 DEF Spent, HistoryKept
<1>6. ASSUME f.op \in {"amend", "receive"}
      PROVE  f.target \in DOMAIN balance'.refunds /\ balance'.refunds[f.target].version > f.seen[1]
  BY <1>6, <1>2, RefundsGrow, <1>1, FormSeen DEF Spent, LedgerTyped, Refund
<1>. QED
  BY <1>3, <1>4, <1>5, <1>6 DEF Spent

(* The form that took effect is spent, and was not before. *)
LEMMA SpentNow ==
  ASSUME Typed, Placed, NEW r, WroteOnce(r), r.form.op # "new"
  PROVE  Spent(r.form)' /\ ~Spent(r.form)
<1>. DEFINE f == r.form
<1>1. /\ FormTyped(f) /\ Written(r)
      /\ f.op \in OrderForms => "commerce" \in r.sends
      /\ f.op \in LedgerForms => "balance" \in r.sends
  BY DEF WroteOnce, Wrote, Ready, RequestTyped
<1>2. CASE f.op \in OrderForms
  BY <1>1, <1>2, FormsOrder, FormSeen DEF OrderGrows, OrderForms, Spent
<1>3. CASE f.op \in LedgerForms
  BY <1>1, <1>3, FormSeen DEF Written, LedgerForms, OrderForms, LedgerPlanned, Spent
<1>. QED
  BY <1>1, <1>2, <1>3, FormFields

(* A form is spent when one that is the same is. *)
LEMMA SameSpent ==
  ASSUME NEW f, NEW g, Same(f, g)
  PROVE  (Spent(f) <=> Spent(g)) /\ (Spent(f)' <=> Spent(g)')
BY DEF Same, Spent

-----------------------------------------------------------------------------
(* The invariant, and what follows from it. *)

(* SpentForms is preserved by every step. *)
LEMMA SpentFormsStep ==
  ASSUME Typed, Typed', InStep, Placed, OwnNumbers, SpentForms, Next
  PROVE  SpentForms'
<1>0. StoreTyped' /\ forms \in Nat
  BY DEF Typed
<1>1. \A f \in LiveForms : f.n \in 1..MaxForms /\ f.n \in 2..forms
  BY DEF Placed
<1>2. CASE Filled
  BY <1>2, <1>0, MaxFormsBound DEF SpentForms, Filled, LiveForms, Placed, Spent
<1>3. CASE ~Filled
  <2>. SUFFICES ASSUME NEW g \in LiveForms', g.op # "new", effects'[g.n] >= 1
                PROVE  Spent(g)'
    BY DEF SpentForms
  <2>1. PICK f \in LiveForms : g.n = f.n /\ Same(g, f)
    BY <1>3, Following DEF Follow
  <2>2. f.op # "new" /\ FormTyped(f) /\ effects'[f.n] >= 1 /\ f.n \in 1..MaxForms
    BY <1>1, <2>1, LiveTyped DEF Same
  <2>3. Spent(f)' => Spent(g)'
    BY <2>1, SameSpent
  <2>4. CASE UNCHANGED <<commerce, balance, effects>>
    BY <2>2, <2>4, <2>3 DEF SpentForms, Spent
  <2>5. ASSUME NEW r, WroteOnce(r), r.form \in LiveForms \/ r.form.n = forms + 1
        PROVE  Spent(g)'
    BY <1>0, <1>1, <2>5, <2>2, SpentNow, <2>3, SameSpent, EffectOf, SpentStays DEF Placed, Same,
       SpentForms
  <2>. QED
    BY <2>4, <2>5, StepWrites DEF LiveForms
<1>. QED
  BY <1>2, <1>3

(* So is OneEffectPerForm: a form that takes effect was not spent, or is    *)
(* for a new order, whose effects are counted.                              *)
LEMMA OneEffectStep ==
  ASSUME Typed, InStep, Placed, OwnNumbers, NewCounted, SpentForms, OneEffectPerForm, Next
  PROVE  OneEffectPerForm'
<1>1. ASSUME NEW r, WroteOnce(r), r.form \in LiveForms \/ r.form.n = forms + 1
      PROVE  OneEffectPerForm'
  <2>1. SUFFICES ASSUME NEW n \in 1..MaxForms
                 PROVE  effects'[n] <= 1 \/ effects'[n] = Cardinality(EnteredBy(n)')
    BY DEF OneEffectPerForm
  <2>2. CASE n # r.form.n
    BY <1>1, <2>2, CountedStay DEF OneEffectPerForm
  <2>3. CASE n = r.form.n /\ IsNew(r.form)
    BY <1>1, <2>3, CountedNow
  <2>4. CASE n = r.form.n /\ ~IsNew(r.form)
    <3>1. effects[n] \in Nat /\ effects'[n] = effects[n] + 1
      BY <1>1, <2>4, EffectOf
    <3>2. ~(effects[n] >= 1)
      BY <1>1, <2>4, SpentNow DEF IsNew, SpentForms, Placed, Typed
    <3>. QED
      BY <3>1, <3>2
  <2>. QED
    BY <2>2, <2>3, <2>4
<1>2. CASE UNCHANGED <<commerce, balance, effects>>
  BY <1>2 DEF OneEffectPerForm, EnteredBy
<1>. QED
  BY <1>1, <1>2, StepWrites DEF LiveForms

(* The invariant holds at the start and through every step. *)
LEMMA DeskInit ==
  ASSUME Init
  PROVE  DeskInv
<1>1. Typed /\ InStep
  BY TypedInit, InStepInit
<1>2. MaxForms \in Nat \ {0}
  BY MaxFormsBound
<1>3. PICK opening \in Openings :
        /\ commerce = [version |-> 1, orders |-> opening.orders]
        /\ tab = [commerce |-> commerce, balance |-> balance, form |-> NoForm, step |-> "idle",
                  key |-> << >>, moved |-> FALSE]
        /\ wire = {} /\ forms = 1 /\ effects = [n \in 1..MaxForms |-> 0]
  BY DEF Init
<1>4. LiveForms = {} /\ tab.step = "idle"
  BY <1>3 DEF LiveForms
<1>5. \A n \in 1..MaxForms : effects[n] = 0
  BY <1>3
<1>6. DOMAIN commerce.orders \subseteq {1}
  BY OpeningsAssumption, <1>3
<1>7. Placed
  BY <1>3, <1>4, <1>5, <1>6 DEF Placed
<1>8. OwnNumbers
  BY <1>3, <1>4 DEF OwnNumbers, UnderWay
<1>9. SpentForms /\ NewCounted
  BY <1>4 DEF SpentForms, NewCounted
<1>10. OneEffectPerForm
  BY <1>5 DEF OneEffectPerForm
<1>. QED
  BY <1>1, <1>7, <1>8, <1>9, <1>10 DEF DeskInv

LEMMA DeskStutters ==
  ASSUME DeskInv, UNCHANGED vars
  PROVE  DeskInv'
BY TypedStutters, InStepStutters DEF DeskInv, Placed, LiveForms, OneEffectPerForm, vars, OwnNumbers,
   UnderWay, LastDrawn, Unclaimed, NewCounted, EnteredBy, Taken, SpentForms, Spent

(* Every step keeps the invariant. *)
LEMMA DeskStep ==
  ASSUME DeskInv, Next
  PROVE  DeskInv'
BY TypedStep, InStepStep, PlacedStep, OwnNumbersStep, NewCountedStep, SpentFormsStep, OneEffectStep DEF DeskInv

(* The inductive invariant holds always. *)
THEOREM DeskInvariant == Spec => []DeskInv
<1>1. Init => DeskInv
  BY DeskInit
<1>2. DeskInv /\ [Next]_vars => DeskInv'
  BY DeskStep, DeskStutters
<1>. QED
  BY <1>1, <1>2, PTL DEF Spec

(* However often a form is sent again, after whatever answer was lost, what *)
(* it asks of something stored is stored once at most; a form for a new     *)
(* order took effect as often as it made an order, each under a number of   *)
(* its own.                                                                 *)
THEOREM AFormTakesEffectOnce == Spec => []OneEffectPerForm
<1>1. DeskInv => OneEffectPerForm
  BY DEF DeskInv
<1>. QED
  BY <1>1, DeskInvariant, PTL

-----------------------------------------------------------------------------

(* The action of NothingIsLost. *)
NothingLost ==
  /\ \A o \in DOMAIN commerce.orders :
       /\ o \in DOMAIN commerce'.orders
       /\ LET was == commerce.orders[o]
              is == commerce'.orders[o]
          IN  /\ IsPrefix(was.corrections, is.corrections)
              /\ IsPrefix(was.refunds, is.refunds)
              /\ IsPrefix(was.returns, is.returns)
              /\ was # is => is.version = was.version + 1
  /\ Len(balance.movements) <= Len(balance'.movements)

(* An order that did not change has lost nothing. *)
LEMMA OrderItself ==
  ASSUME NEW order \in Order
  PROVE  /\ IsPrefix(order.corrections, order.corrections)
         /\ IsPrefix(order.refunds, order.refunds)
         /\ IsPrefix(order.returns, order.returns)
<1>. DEFINE E == [id : Int, amount : Int, payment : {"bank", "apple"}]
<1>1. order.corrections \in Seq(Correction) /\ order.refunds \in Seq(E) /\ order.returns \in Seq(Int)
  BY DEF Order
<1>. HIDE DEF E
<1>. QED
  BY <1>1, PrefixSelf

(* No step loses anything. *)
LEMMA NothingLostStep ==
  ASSUME DeskInv, Next
  PROVE  NothingLost
<1>1. Typed /\ InStep /\ Placed /\ OwnNumbers /\ Typed'
  BY DeskStep DEF DeskInv
<1>2. OrdersTyped(commerce.orders) /\ balance.movements \in Seq(Movement) /\ balance'.movements \in Seq(Movement)
  BY <1>1 DEF Typed, StoreTyped, CopyTyped, LedgerTyped
<1>3. UNCHANGED <<commerce, balance>> \/ \E r : WroteOnce(r)
  BY <1>1, StepWrites
<1>4. ASSUME NEW o \in DOMAIN commerce.orders
      PROVE  /\ o \in DOMAIN commerce'.orders
             /\ commerce'.orders[o] = commerce.orders[o] \/ OrderGrows(commerce.orders[o], commerce'.orders[o])
  BY <1>1, <1>3, OrdersStay
<1>5. Len(balance.movements) <= Len(balance'.movements)
  <2>1. CASE UNCHANGED <<commerce, balance>>
    BY <1>2, <2>1
  <2>2. ASSUME NEW r, WroteOnce(r) PROVE Len(balance.movements) <= Len(balance'.movements)
    <3>1. \A n \in DOMAIN balance.movements : n \in DOMAIN balance'.movements
      BY <2>2 DEF WroteOnce, Wrote, Written, HistoryKept
    <3>. QED
      BY <1>2, <3>1
  <2>. QED
    BY <1>3, <2>1, <2>2
<1>. QED
  BY <1>2, <1>4, <1>5, OrderItself DEF NothingLost, OrdersTyped, OrderGrows

(* No step takes away a correction, a refund, a return or a movement that   *)
(* was stored, whoever saves over what.                                     *)
THEOREM NothingIsEverLost == Spec => NothingIsLost
<1>1. DeskInv /\ [Next]_vars => [NothingLost]_vars
  BY NothingLostStep
<1>. QED
  BY <1>1, DeskInvariant, PTL DEF Spec, NothingIsLost, NothingLost

-----------------------------------------------------------------------------
(* The ledger after each of its own forms: what the server asks of a ledger *)
(* it is about to store holds again.                                        *)

(* A movement more. *)
Grown(l, is, id, e) ==
  /\ LedgerTyped(l) /\ LedgerTyped(is)
  /\ id \in AppleIds /\ e.appleId = id /\ e.amount \in Int
  /\ e.after = l.wallets[id].balance + e.amount /\ e.version = l.wallets[id].version + 1 /\ e.undone = 0
  /\ Len(l.movements) \in Nat /\ Len(is.movements) = Len(l.movements) + 1
  /\ DOMAIN l.movements = 1..Len(l.movements)
  /\ DOMAIN is.movements = DOMAIN l.movements \cup {Len(is.movements)}
  /\ Len(is.movements) \notin DOMAIN l.movements
  /\ is.movements[Len(is.movements)] = e
  /\ \A n \in DOMAIN l.movements : is.movements[n] = l.movements[n]
  /\ \A j \in AppleIds : is.wallets[j] = IF j = id THEN [balance |-> e.after, version |-> e.version]
                                         ELSE l.wallets[j]
  /\ is.allocations = l.allocations /\ is.refunds = l.refunds

(* pushMovement grows the ledger so. *)
LEMMA PushGrows ==
  ASSUME NEW l, LedgerTyped(l), NEW id \in AppleIds, NEW amount \in Int, NEW d \in Details
  PROVE  \E e : /\ Grown(l, PushMovement(l, id, amount, d), id, e)
                /\ e.amount = amount /\ e.kind = d.kind /\ e.form = d.form /\ e.order = d.order /\ e.of = d.of
<1>. DEFINE b == l.wallets[id].balance + amount
            v == l.wallets[id].version + 1
            wallet == [balance |-> b, version |-> v]
            e == [appleId |-> id, amount |-> amount, after |-> b, version |-> v,
                  undone |-> 0, kind |-> d.kind, form |-> d.form, order |-> d.order, of |-> d.of]
            w == [l.wallets EXCEPT ![id] = wallet]
            m == Append(l.movements, e)
            paid == [l EXCEPT !.wallets = w]
            is == Ledger(l.version, w, l.allocations, m, l.refunds)
<1>0. /\ Shaped(l) /\ l.wallets \in [AppleIds -> Wallet] /\ l.movements \in Seq(Movement)
  BY LedgerParts
<1>1. PushMovement(l, id, amount, d) = is
  <2>1. PushMovement(l, id, amount, d) = [paid EXCEPT !.movements = m]
    BY DEF PushMovement
  <2>. HIDE DEF m, w
  <2>2. paid = Ledger(l.version, w, l.allocations, l.movements, l.refunds)
    BY <1>0, LedgerWith
  <2>. HIDE DEF paid
  <2>3. /\ Shaped(paid) /\ paid.version = l.version /\ paid.wallets = w
        /\ paid.allocations = l.allocations /\ paid.refunds = l.refunds
    BY <2>2, LedgerFields
  <2>4. [paid EXCEPT !.movements = m] =
          Ledger(paid.version, paid.wallets, paid.allocations, m, paid.refunds)
    BY <2>3, LedgerWith, Zenon
  <2>. QED
    BY <2>1, <2>3, <2>4, Zenon
<1>2. LedgerTyped(is)
  BY <1>1, PushTyped
<1>3. l.wallets[id] \in Wallet
  BY <1>0
<1>4. b \in Int /\ v \in Int
  BY <1>3 DEF Wallet
<1>. HIDE DEF b, v
<1>5. /\ e.appleId = id /\ e.amount = amount /\ e.after = b /\ e.version = v /\ e.undone = 0
      /\ e.kind = d.kind /\ e.form = d.form /\ e.order = d.order /\ e.of = d.of
  OBVIOUS
<1>6. e \in Movement
  BY <1>4 DEF Details, Movement
<1>7. \A j \in AppleIds : w[j] = IF j = id THEN wallet ELSE l.wallets[j]
  BY <1>0
<1>. HIDE DEF e, w, wallet
<1>8. /\ Len(l.movements) \in Nat /\ Len(m) = Len(l.movements) + 1
      /\ DOMAIN l.movements = 1..Len(l.movements) /\ DOMAIN m = 1..Len(m)
      /\ m[Len(m)] = e /\ \A n \in DOMAIN l.movements : m[n] = l.movements[n]
  BY <1>0, <1>6
<1>. HIDE DEF m
<1>9. DOMAIN m = DOMAIN l.movements \cup {Len(m)} /\ Len(m) \notin DOMAIN l.movements
  BY <1>8
<1>10. /\ is.wallets = w /\ is.movements = m /\ is.allocations = l.allocations /\ is.refunds = l.refunds
  BY LedgerFields
<1>. HIDE DEF is
<1>11. Grown(l, is, id, e)
  BY <1>5, <1>7, <1>2, <1>8, <1>9, <1>10 DEF wallet, b, v, Grown
<1>. QED
  BY <1>1, <1>5, <1>11

(* Sums over what was there, and over what came. *)
SumsGrow(l, is, e, S) ==
  /\ IsFiniteSet(S) /\ SumOf(l.movements, S) \in Int
  /\ SumOf(is.movements, S) = SumOf(l.movements, S)
  /\ SumOf(is.movements, S \cup {Len(is.movements)}) = SumOf(l.movements, S) + e.amount
  /\ Cardinality(S) \in Nat /\ Cardinality(S \cup {Len(is.movements)}) = Cardinality(S) + 1

LEMMA GrownSums ==
  ASSUME NEW l, NEW is, NEW id, NEW e, Grown(l, is, id, e), NEW S, S \subseteq DOMAIN l.movements
  PROVE  SumsGrow(l, is, e, S)
<1>. DEFINE A == Amounts(l.movements)
            B == Amounts(is.movements)
            k == Len(is.movements)
<1>1. /\ LedgerTyped(l) /\ LedgerTyped(is) /\ e.amount \in Int
      /\ DOMAIN is.movements = DOMAIN l.movements \cup {k} /\ k \notin DOMAIN l.movements
      /\ is.movements[k] = e /\ \A n \in DOMAIN l.movements : is.movements[n] = l.movements[n]
  BY DEF Grown
<1>2. IsFiniteSet(S) /\ IntOn(A, S) /\ IntOn(B, S \cup {k}) /\ IsFiniteSet(S \cup {k})
  BY <1>1, MovementsFinite, FS_Subset, IntOnPart
<1>3. \A x \in S : B[x] = A[x]
  BY <1>1 DEF Amounts
<1>4. B[k] = e.amount
  BY <1>1 DEF Amounts
<1>5. k \in S \cup {k} /\ (S \cup {k}) \ {k} = S /\ k \notin S
  BY <1>1
<1>. HIDE DEF A, B, k
<1>6. SumFunctionOnSet(B, S) = SumFunctionOnSet(A, S) /\ SumFunctionOnSet(A, S) \in Int
  BY <1>2, <1>3, SumEqual, SumInt
<1>7. SumFunctionOnSet(B, S \cup {k}) = B[k] + SumFunctionOnSet(B, S)
  BY <1>2, <1>5, SumRemove
<1>8. Cardinality(S) \in Nat /\ Cardinality(S \cup {k}) = Cardinality(S) + 1
  BY <1>2, <1>5, FS_CardinalityType, FS_AddElement
<1>9. SumFunctionOnSet(B, S \cup {k}) = SumFunctionOnSet(A, S) + e.amount
  BY <1>1, <1>4, <1>6, <1>7
<1>. QED
  BY <1>2, <1>6, <1>8, <1>9 DEF SumsGrow, SumOf, A, B, k

(* What is asked of the balances holds on if they do not go below nothing. *)
LEMMA GrownAddsUp ==
  ASSUME NEW l, NEW is, NEW id, NEW e, Grown(l, is, id, e), MovementsAddUp(l), e.after >= 0
  PROVE  MovementsAddUp(is)
<1>. DEFINE k == Len(is.movements)
<1>1. /\ id \in AppleIds /\ e.appleId = id /\ Len(l.movements) \in Nat /\ k = Len(l.movements) + 1
      /\ DOMAIN l.movements = 1..Len(l.movements)
      /\ DOMAIN is.movements = DOMAIN l.movements \cup {k} /\ k \notin DOMAIN l.movements
      /\ is.movements[k] = e /\ \A n \in DOMAIN l.movements : is.movements[n] = l.movements[n]
  BY DEF Grown
<1>2. /\ e.after = l.wallets[id].balance + e.amount /\ e.version = l.wallets[id].version + 1
      /\ \A j \in AppleIds : is.wallets[j] = IF j = id THEN [balance |-> e.after, version |-> e.version]
                                             ELSE l.wallets[j]
  BY DEF Grown
<1>3. /\ l.wallets[id].balance = SumOf(l.movements, MovesOn(l, id))
      /\ l.wallets[id].version = 1 + Cardinality(MovesOn(l, id))
  <2>1. l.wallets[id] = [balance |-> SumOf(l.movements, MovesOn(l, id)),
                         version |-> 1 + Cardinality(MovesOn(l, id))]
    BY <1>1, Zenon DEF MovementsAddUp
  <2>. QED
    BY <2>1
<1>0. \A S : S \subseteq DOMAIN l.movements => SumsGrow(l, is, e, S)
  BY GrownSums, Zenon
<1>4. \A j : MovesOn(l, j) \subseteq DOMAIN l.movements
  BY DEF MovesOn
<1>5. \A j : MovesOn(is, j) = IF j = id THEN MovesOn(l, j) \cup {k} ELSE MovesOn(l, j)
  BY <1>1 DEF MovesOn
<1>6. /\ e.after = SumOf(is.movements, MovesOn(is, id))
      /\ e.version = 1 + Cardinality(MovesOn(is, id))
  <2>1. SumsGrow(l, is, e, MovesOn(l, id))
    BY <1>0, <1>4
  <2>2. MovesOn(is, id) = MovesOn(l, id) \cup {k}
    BY <1>5
  <2>. QED
    BY <1>2, <1>3, <2>1, <2>2 DEF SumsGrow
<1>. HIDE DEF k
<1>7. ASSUME NEW n \in DOMAIN is.movements
      PROVE  LET m == is.movements[n]
                 upTo == {i \in MovesOn(is, m.appleId) : i <= n}
             IN  m.after = SumOf(is.movements, upTo) /\ m.after >= 0 /\ m.version = 1 + Cardinality(upTo)
  <2>1. CASE n = k
    <3>1. {i \in MovesOn(is, id) : i <= k} = MovesOn(is, id)
      BY <1>1, <1>4, <1>5
    <3>. QED
      BY <1>1, <1>6, <2>1, <3>1
  <2>2. CASE n \in DOMAIN l.movements
    <3>. DEFINE m == l.movements[n]
                S == {i \in MovesOn(l, m.appleId) : i <= n}
    <3>1. {i \in MovesOn(is, m.appleId) : i <= n} = S
      BY <1>1, <1>5, <2>2
    <3>2. m.after = SumOf(l.movements, S) /\ m.after >= 0 /\ m.version = 1 + Cardinality(S)
      BY <2>2 DEF MovementsAddUp
    <3>3. S \subseteq DOMAIN l.movements
      BY <1>4
    <3>4. SumOf(is.movements, S) = SumOf(l.movements, S)
      BY <1>0, <3>3 DEF SumsGrow
    <3>5. is.movements[n] = m
      BY <1>1, <2>2
    <3>. HIDE DEF S, m
    <3>. QED
      BY <3>1, <3>2, <3>4, <3>5
  <2>. QED
    BY <1>1, <2>1, <2>2
<1>8. ASSUME NEW j \in AppleIds
      PROVE  is.wallets[j] = [balance |-> SumOf(is.movements, MovesOn(is, j)),
                              version |-> 1 + Cardinality(MovesOn(is, j))]
  <2>1. CASE j = id
    BY <1>2, <1>6, <2>1
  <2>2. CASE j # id
    <3>1. l.wallets[j] = [balance |-> SumOf(l.movements, MovesOn(l, j)),
                          version |-> 1 + Cardinality(MovesOn(l, j))]
      BY DEF MovementsAddUp
    <3>2. SumOf(is.movements, MovesOn(l, j)) = SumOf(l.movements, MovesOn(l, j))
      BY <1>0, <1>4 DEF SumsGrow
    <3>. QED
      BY <1>2, <1>5, <2>2, <3>1, <3>2
  <2>. QED
    BY <2>1, <2>2
<1>. QED
  BY <1>7, <1>8 DEF MovementsAddUp

(* Which movements there are then. *)
LEMMA GrownMoves ==
  ASSUME NEW l, NEW is, NEW id, NEW e, Grown(l, is, id, e)
  PROVE  /\ \A ids, kinds : MovesOf(is, ids, kinds) =
              MovesOf(l, ids, kinds) \cup {n \in {Len(is.movements)} : id \in ids /\ e.kind \in kinds}
         /\ \A ids, kinds : MovesOf(l, ids, kinds) \subseteq DOMAIN l.movements
         /\ \A n \in DOMAIN l.movements : is.movements[n] = l.movements[n]
         /\ is.movements[Len(is.movements)] = e /\ Len(is.movements) \notin DOMAIN l.movements
BY DEF Grown, MovesOf

LEMMA GrownUndos ==
  ASSUME NEW l, NEW is, NEW id, NEW e, Grown(l, is, id, e), UndosMatch(l), e.kind # "manual-undo"
  PROVE  UndosMatch(is)
<1>1. MovesOf(is, AppleIds, {"manual-undo"}) = MovesOf(l, AppleIds, {"manual-undo"})
  <2>1. MovesOf(is, AppleIds, {"manual-undo"}) =
          MovesOf(l, AppleIds, {"manual-undo"})
            \cup {n \in {Len(is.movements)} : id \in AppleIds /\ e.kind \in {"manual-undo"}}
    BY GrownMoves
  <2>. QED
    BY <2>1
<1>2. /\ \A n \in DOMAIN l.movements : is.movements[n] = l.movements[n]
      /\ DOMAIN l.movements = 1..Len(l.movements) /\ Len(l.movements) \in Nat
  BY DEF Grown
<1>3. ASSUME NEW n \in MovesOf(l, AppleIds, {"manual-undo"})
      PROVE  /\ is.movements[n] = l.movements[n]
             /\ is.movements[l.movements[n].of] = l.movements[l.movements[n].of]
  BY <1>2 DEF MovesOf, UndosMatch
<1>. QED
  BY <1>1, <1>3 DEF UndosMatch

LEMMA GrownReceipts ==
  ASSUME NEW l, NEW is, NEW id, NEW e, Grown(l, is, id, e), ReceiptsMatch(l), e.kind # "apple-refund"
  PROVE  ReceiptsMatch(is)
<1>1. Receipts(is) = Receipts(l)
  <2>1. MovesOf(is, AppleIds, {"apple-refund"}) =
          MovesOf(l, AppleIds, {"apple-refund"})
            \cup {n \in {Len(is.movements)} : id \in AppleIds /\ e.kind \in {"apple-refund"}}
    BY GrownMoves
  <2>. QED
    BY <2>1 DEF Receipts
<1>2. \A n \in Receipts(l) : is.movements[n] = l.movements[n]
  BY GrownMoves DEF Receipts
<1>3. is.refunds = l.refunds
  BY DEF Grown
<1>4. \A r : {n \in Receipts(is) : is.movements[n].of = r} = {n \in Receipts(l) : l.movements[n].of = r}
  BY <1>1, <1>2
<1>. QED
  BY <1>1, <1>2, <1>3, <1>4 DEF ReceiptsMatch

(* The first half of DebitsMatch, movement by movement. *)
SignedAs(m, orders) ==
  /\ m.kind = "charge" => m.amount < 0
  /\ m.kind = "reversal" => m.amount > 0
  /\ m.order # 0 => m.order \in DOMAIN orders

Signed(l, orders) == \A n \in DOMAIN l.movements : SignedAs(l.movements[n], orders)

Debited(l, orders) ==
  \A o \in DOMAIN orders, id \in AppleIds :
    -SumOf(l.movements, Debits(l, id, o)) = IF AllocationOf(l, o).appleId = id THEN AllocationOf(l, o).amount ELSE 0

LEMMA DebitsParted ==
  ASSUME NEW l, NEW orders
  PROVE  DebitsMatch(l, orders) <=> Signed(l, orders) /\ Debited(l, orders)
BY DEF Range, Signed, DebitsMatch, SignedAs, Debited

LEMMA GrownSigned ==
  ASSUME NEW l, NEW is, NEW id, NEW e, Grown(l, is, id, e), NEW orders, Signed(l, orders), SignedAs(e, orders)
  PROVE  Signed(is, orders)
BY DEF Grown, Signed

(* What an order was charged on an Apple ID. *)
LEMMA GrownDebits ==
  ASSUME NEW l, NEW is, NEW id, NEW e, Grown(l, is, id, e), NEW j, NEW o
  PROVE  /\ SumOf(l.movements, Debits(l, j, o)) \in Int
         /\ SumOf(is.movements, Debits(is, j, o)) =
              SumOf(l.movements, Debits(l, j, o))
                + IF j = id /\ e.order = o /\ e.kind \in {"charge", "reversal"} THEN e.amount ELSE 0
<1>. DEFINE S == Debits(l, j, o)
            k == Len(is.movements)
            booked == j = id /\ e.order = o /\ e.kind \in {"charge", "reversal"}
<1>1. S \subseteq DOMAIN l.movements
  BY DEF Debits, MovesOf
<1>2. Debits(is, j, o) = IF booked THEN S \cup {k} ELSE S
  BY GrownMoves DEF Debits
<1>. HIDE DEF S
<1>3. SumsGrow(l, is, e, S)
  BY <1>1, GrownSums
<1>4. e.amount \in Int
  BY DEF Grown
<1>5. CASE booked
  BY <1>2, <1>3, <1>5 DEF SumsGrow, S
<1>6. CASE ~booked
  BY <1>2, <1>3, <1>6 DEF SumsGrow, S
<1>. QED
  BY <1>5, <1>6

(* A movement that was undone has the one that undid it. *)
Explained(l, n) ==
  l.movements[n].undone # 0 =>
    \E i \in DOMAIN l.movements :
      l.movements[i].kind = "manual-undo" /\ l.movements[i].of = n /\ l.movements[i].form = l.movements[n].undone

SelfKept(l) == \A n \in DOMAIN l.movements : Explained(l, n)

MovementKept(p, l, n) ==
  /\ n \in DOMAIN l.movements
  /\ [l.movements[n] EXCEPT !.undone = 0] = [p.movements[n] EXCEPT !.undone = 0]
  /\ p.movements[n].undone # 0 => l.movements[n].undone = p.movements[n].undone
  /\ Explained(l, n)

MovesKept(p, l) == \A n \in DOMAIN p.movements : MovementKept(p, l, n)

RefundsKept(p, l) ==
  \A r \in DOMAIN p.refunds :
    /\ r \in DOMAIN l.refunds
    /\ l.refunds[r].appleId = p.refunds[r].appleId /\ l.refunds[r].order = p.refunds[r].order
    /\ p.refunds[r].status = "received" => l.refunds[r] = p.refunds[r]

LEMMA HistoryParted ==
  ASSUME NEW p, NEW l
  PROVE  HistoryKept(p, l) <=> MovesKept(p, l) /\ RefundsKept(p, l)
<1>1. Range(l.movements) = {l.movements[n] : n \in DOMAIN l.movements}
  BY DEF Range
<1>2. \A n : Explained(l, n) <=>
               (l.movements[n].undone # 0 => \E m \in Range(l.movements) :
                  m.kind = "manual-undo" /\ m.of = n /\ m.form = l.movements[n].undone)
  BY <1>1 DEF Explained
<1>. QED
  BY <1>2 DEF HistoryKept, MovesKept, MovementKept, RefundsKept

LEMMA GrownExplained ==
  ASSUME NEW l, NEW is, NEW id, NEW e, Grown(l, is, id, e), NEW n \in DOMAIN l.movements, Explained(l, n)
  PROVE  Explained(is, n) /\ is.movements[n] = l.movements[n] /\ n \in DOMAIN is.movements
BY DEF Grown, Explained

LEMMA GrownKept ==
  ASSUME NEW l, NEW is, NEW id, NEW e, Grown(l, is, id, e)
  PROVE  /\ SelfKept(l) => SelfKept(is)
         /\ \A p : MovesKept(p, l) => MovesKept(p, is)
<1>1. /\ DOMAIN is.movements = DOMAIN l.movements \cup {Len(is.movements)}
      /\ is.movements[Len(is.movements)] = e /\ e.undone = 0
  BY DEF Grown
<1>2. Explained(is, Len(is.movements))
  BY <1>1 DEF Explained
<1>3. ASSUME NEW p, MovesKept(p, l), NEW n \in DOMAIN p.movements PROVE MovementKept(p, is, n)
  <2>1. MovementKept(p, l, n)
    BY <1>3 DEF MovesKept
  <2>2. n \in DOMAIN l.movements /\ Explained(l, n)
    BY <2>1 DEF MovementKept
  <2>3. Explained(is, n) /\ is.movements[n] = l.movements[n] /\ n \in DOMAIN is.movements
    BY <2>2, GrownExplained
  <2>. QED
    BY <2>1, <2>3 DEF MovementKept
<1>4. SelfKept(l) => SelfKept(is)
  BY <1>1, <1>2, GrownExplained DEF SelfKept
<1>. QED
  BY <1>3, <1>4 DEF MovesKept

(* The books as far as the movements go. *)
Books(p, l, orders) ==
  /\ LedgerTyped(l) /\ MovementsAddUp(l) /\ Signed(l, orders) /\ ReceiptsMatch(l) /\ UndosMatch(l)
  /\ MovesKept(p, l) /\ SelfKept(l)

(* The books of a ledger with one movement more. *)
LEMMA GrownBooks ==
  ASSUME NEW l, NEW is, NEW id, NEW e, Grown(l, is, id, e), NEW p, NEW orders, Books(p, l, orders),
         e.kind \notin {"manual-undo", "apple-refund"}, SignedAs(e, orders), e.after >= 0
  PROVE  Books(p, is, orders)
<1>1. LedgerTyped(is)
  BY DEF Grown
<1>2. MovementsAddUp(is)
  BY GrownAddsUp DEF Books
<1>3. Signed(is, orders)
  BY GrownSigned DEF Books
<1>4. ReceiptsMatch(is) /\ UndosMatch(is)
  BY GrownReceipts, GrownUndos DEF Books
<1>5. MovesKept(p, is) /\ SelfKept(is)
  BY GrownKept DEF Books
<1>. QED
  BY <1>1, <1>2, <1>3, <1>4, <1>5 DEF Books

-----------------------------------------------------------------------------
(* What the ledger and the orders have to do with each other. *)
Belongs(l, orders) == Debited(l, orders) /\ RefundsMatch(l, orders) /\ AllocationsMatch(l, orders)

(* What the server asks of a ledger before it takes the place of another,   *)
(* and what the pages keep besides.                                         *)
Keepable(p, l, orders) == LedgerTyped(l) /\ CheckAppleLedger(p, l, orders) /\ SelfKept(l)

LEMMA SoundParted ==
  ASSUME NEW l, LedgerTyped(l), NEW orders, LedgerSound(l, orders), SelfKept(l)
  PROVE  Books(l, l, orders) /\ Belongs(l, orders) /\ RefundsKept(l, l)
BY DebitsParted DEF SelfKept, MovesKept, MovementKept, RefundsKept, LedgerSound, CheckMovements,
   Books, Belongs

LEMMA KeepableParted ==
  ASSUME NEW p, NEW l, NEW orders, Books(p, l, orders), Belongs(l, orders), RefundsKept(p, l)
  PROVE  Keepable(p, l, orders)
BY DebitsParted, HistoryParted DEF Keepable, CheckAppleLedger, LedgerSound, CheckMovements, Books, Belongs

(* What does not depend on the movements stays. *)
LEMMA GrownBelongs ==
  ASSUME NEW l, NEW is, NEW id, NEW e, Grown(l, is, id, e), NEW orders, Belongs(l, orders),
         e.kind \notin {"charge", "reversal"}
  PROVE  Belongs(is, orders)
<1>1. is.allocations = l.allocations /\ is.refunds = l.refunds
  BY DEF Grown
<1>2. /\ \A o : AllocationOf(is, o) = AllocationOf(l, o)
      /\ \A o, status : RefundsOf(is, o, status) = RefundsOf(l, o, status)
  BY <1>1 DEF AllocationOf, RefundsOf
<1>3. Debited(is, orders)
  BY GrownDebits, <1>2 DEF Belongs, Debited
<1>4. RefundsMatch(is, orders)
  BY <1>1, <1>2 DEF Belongs, RefundsMatch
<1>5. AllocationsMatch(is, orders)
  BY <1>1, <1>2 DEF Belongs, AllocationsMatch
<1>. QED
  BY <1>3, <1>4, <1>5 DEF Belongs

LEMMA DetailFields ==
  ASSUME NEW kind, NEW form, NEW order, NEW of
  PROVE  LET d == Detail(kind, form, order, of) IN
           d.kind = kind /\ d.form = form /\ d.order = order /\ d.of = of
BY DEF Detail

(* An adjustment by hand. *)
LEMMA AdjustKeeps ==
  ASSUME NEW l, LedgerTyped(l), NEW orders, LedgerSound(l, orders), SelfKept(l),
         NEW id \in AppleIds, NEW amount \in Int, NEW seen, NEW form \in Int,
         Adjust(l, id, amount, seen, form).ok
  PROVE  Keepable(l, Adjust(l, id, amount, seen, form).ledger, orders)
<1>. DEFINE d == Detail("manual", form, 0, 0)
            is == PushMovement(l, id, amount, d)
<1>1. d \in Details /\ d.kind = "manual" /\ d.order = 0
  BY DetailTyped, DetailFields
<1>2. Adjust(l, id, amount, seen, form) = Done(is) /\ l.wallets[id].balance + amount >= 0
  BY DEF Adjust, Refused
<1>. HIDE DEF d
<1>3. PICK e : Grown(l, is, id, e) /\ e.amount = amount /\ e.kind = d.kind /\ e.order = d.order
  BY <1>1, PushGrows
<1>. HIDE DEF is
<1>4. Books(l, l, orders) /\ Belongs(l, orders) /\ RefundsKept(l, l)
  BY SoundParted
<1>5. SignedAs(e, orders)
  BY <1>1, <1>3 DEF SignedAs
<1>6. e.after >= 0
  BY <1>2, <1>3 DEF Grown
<1>7. Books(l, is, orders)
  BY <1>1, <1>3, <1>4, <1>5, <1>6, GrownBooks
<1>8. Belongs(is, orders)
  BY <1>1, <1>3, <1>4, GrownBelongs
<1>9. RefundsKept(l, is)
  BY <1>3, <1>4 DEF Grown, RefundsKept
<1>. QED
  BY <1>2, <1>7, <1>8, <1>9, KeepableParted DEF Done

(* A movement that is marked as undone: the rest of the ledger stays. *)
SameMove(a, b) ==
  /\ a.appleId = b.appleId /\ a.amount = b.amount /\ a.after = b.after /\ a.version = b.version
  /\ a.kind = b.kind /\ a.form = b.form /\ a.order = b.order /\ a.of = b.of
  /\ [a EXCEPT !.undone = 0] = [b EXCEPT !.undone = 0]

Marks(l, k, n, form) ==
  /\ LedgerTyped(l) /\ LedgerTyped(k)
  /\ k.wallets = l.wallets /\ k.allocations = l.allocations /\ k.refunds = l.refunds
  /\ DOMAIN k.movements = DOMAIN l.movements /\ n \in DOMAIN l.movements
  /\ SameMove(k.movements[n], l.movements[n]) /\ k.movements[n].undone = form
  /\ \A i \in DOMAIN l.movements : i # n => k.movements[i] = l.movements[i]

MarkedLedger(l, n, form) ==
  [l EXCEPT !.movements = [l.movements EXCEPT ![n] = [l.movements[n] EXCEPT !.undone = form]]]

LEMMA MarkMarks ==
  ASSUME NEW l, LedgerTyped(l), NEW n \in DOMAIN l.movements, NEW form \in Int
  PROVE  Marks(l, MarkedLedger(l, n, form), n, form)
<1>1. /\ Shaped(l) /\ l.version \in Int /\ l.wallets \in [AppleIds -> Wallet]
      /\ l.movements \in Seq(Movement)
      /\ AllocationsTyped(l.allocations) /\ RefundsTyped(l.refunds)
  BY LedgerParts
<1>2. PICK entry : entry = l.movements[n]
  OBVIOUS
<1>3. entry \in Movement
  BY <1>1, <1>2
<1>4. PICK mark : mark = [entry EXCEPT !.undone = form]
  BY <1>2
<1>5. mark \in Movement /\ mark.undone = form
  BY <1>3, <1>4 DEF Movement
<1>6. SameMove(mark, entry)
  BY <1>3, <1>4 DEF Movement, SameMove
<1>7. PICK m : m = [l.movements EXCEPT ![n] = mark]
  OBVIOUS
<1>8. /\ m \in Seq(Movement) /\ DOMAIN m = DOMAIN l.movements /\ m[n] = mark
      /\ \A i \in DOMAIN l.movements : i # n => m[i] = l.movements[i]
  BY <1>1, <1>5, <1>7
<1>9. MarkedLedger(l, n, form) = [l EXCEPT !.movements = m]
  BY <1>2, <1>4, <1>7 DEF MarkedLedger
<1>10. PICK k : k = MarkedLedger(l, n, form)
  OBVIOUS
<1>11. k = Ledger(l.version, l.wallets, l.allocations, m, l.refunds)
  BY <1>1, <1>9, <1>10, LedgerWith
<1>12. /\ LedgerTyped(k) /\ k.movements = m /\ k.wallets = l.wallets
       /\ k.allocations = l.allocations /\ k.refunds = l.refunds
  BY <1>1, <1>8, <1>11, LedgerParts, LedgerFields
<1>13. Marks(l, k, n, form)
  BY <1>2, <1>5, <1>6, <1>8, <1>12 DEF Marks
<1>. QED
  BY <1>10, <1>13

(* Which is not seen in anything the balances are about. *)
LEMMA MarkedSame ==
  ASSUME NEW l, NEW k, NEW n, NEW form, Marks(l, k, n, form)
  PROVE  /\ Amounts(k.movements) = Amounts(l.movements)
         /\ \A i \in DOMAIN l.movements : SameMove(k.movements[i], l.movements[i])
         /\ \A ids, kinds : MovesOf(k, ids, kinds) = MovesOf(l, ids, kinds)
         /\ \A id : MovesOn(k, id) = MovesOn(l, id)
         /\ \A id, o : Debits(k, id, o) = Debits(l, id, o)
         /\ Receipts(k) = Receipts(l)
<1>1. \A i \in DOMAIN l.movements : SameMove(k.movements[i], l.movements[i])
  BY DEF SameMove, Marks
<1>2. DOMAIN k.movements = DOMAIN l.movements
  BY DEF Marks
<1>3. Amounts(k.movements) = Amounts(l.movements)
  BY <1>1, <1>2 DEF Amounts, SameMove
<1>4. \A ids, kinds : MovesOf(k, ids, kinds) = MovesOf(l, ids, kinds)
  BY <1>1, <1>2 DEF MovesOf, SameMove
<1>5. \A id : MovesOn(k, id) = MovesOn(l, id)
  BY <1>1, <1>2 DEF MovesOn, SameMove
<1>6. \A id, o : Debits(k, id, o) = Debits(l, id, o)
  <2>1. \A id : \A i \in MovesOf(l, {id}, {"charge", "reversal"}) : k.movements[i].order = l.movements[i].order
    BY <1>1 DEF SameMove, MovesOf
  <2>. QED
    BY <1>4, <2>1 DEF Debits
<1>7. Receipts(k) = Receipts(l)
  BY <1>4 DEF Receipts
<1>. QED
  BY <1>1, <1>3, <1>4, <1>5, <1>6, <1>7

LEMMA MarkedBelongs ==
  ASSUME NEW l, NEW k, NEW n, NEW form, Marks(l, k, n, form), NEW orders
  PROVE  /\ MovementsAddUp(l) => MovementsAddUp(k)
         /\ Signed(l, orders) => Signed(k, orders)
         /\ ReceiptsMatch(l) => ReceiptsMatch(k)
         /\ Belongs(l, orders) => Belongs(k, orders)
<1>1. /\ k.wallets = l.wallets /\ k.allocations = l.allocations /\ k.refunds = l.refunds
      /\ DOMAIN k.movements = DOMAIN l.movements
  BY DEF Marks
<1>2. \A S : SumOf(k.movements, S) = SumOf(l.movements, S)
  BY MarkedSame DEF SumOf
<1>3. \A i \in DOMAIN l.movements : SameMove(k.movements[i], l.movements[i])
  BY MarkedSame
<1>4. \A id : MovesOn(k, id) = MovesOn(l, id)
  BY MarkedSame
<1>5. MovementsAddUp(l) => MovementsAddUp(k)
  <2>. SUFFICES ASSUME MovementsAddUp(l) PROVE MovementsAddUp(k)
    OBVIOUS
  <2>1. ASSUME NEW i \in DOMAIN k.movements
        PROVE  LET m == k.movements[i]
                   upTo == {j \in MovesOn(k, m.appleId) : j <= i}
               IN  m.after = SumOf(k.movements, upTo) /\ m.after >= 0 /\ m.version = 1 + Cardinality(upTo)
    <3>1. PICK a : a = k.movements[i]
      OBVIOUS
    <3>2. PICK b : b = l.movements[i]
      OBVIOUS
    <3>3. a.appleId = b.appleId /\ a.after = b.after /\ a.version = b.version
      BY <1>1, <1>3, <3>1, <3>2 DEF SameMove
    <3>4. PICK upTo : upTo = {j \in MovesOn(l, b.appleId) : j <= i}
      OBVIOUS
    <3>5. b.after = SumOf(l.movements, upTo) /\ b.after >= 0 /\ b.version = 1 + Cardinality(upTo)
      BY <1>1, <3>2, <3>4 DEF MovementsAddUp
    <3>6. {j \in MovesOn(k, a.appleId) : j <= i} = upTo
      BY <1>4, <3>3, <3>4
    <3>. QED
      BY <1>2, <3>1, <3>3, <3>5, <3>6
  <2>2. ASSUME NEW id \in AppleIds
        PROVE  k.wallets[id] = [balance |-> SumOf(k.movements, MovesOn(k, id)),
                                version |-> 1 + Cardinality(MovesOn(k, id))]
    BY <1>1, <1>2, <1>4 DEF MovementsAddUp
  <2>. QED
    BY <2>1, <2>2 DEF MovementsAddUp
<1>6. Signed(l, orders) => Signed(k, orders)
  BY <1>1, <1>3 DEF Signed, SignedAs, SameMove
<1>7. ReceiptsMatch(l) => ReceiptsMatch(k)
  <2>1. Receipts(k) = Receipts(l) /\ Receipts(l) \subseteq DOMAIN l.movements
    BY MarkedSame DEF Receipts, MovesOf
  <2>2. \A i \in Receipts(l) :
          /\ k.movements[i].of = l.movements[i].of /\ k.movements[i].order = l.movements[i].order
          /\ k.movements[i].appleId = l.movements[i].appleId /\ k.movements[i].amount = l.movements[i].amount
    BY <1>3, <2>1 DEF SameMove
  <2>3. \A r : {i \in Receipts(k) : k.movements[i].of = r} = {i \in Receipts(l) : l.movements[i].of = r}
    BY <2>1, <2>2
  <2>. QED
    BY <1>1, <2>1, <2>2, <2>3 DEF ReceiptsMatch
<1>8. /\ \A o : AllocationOf(k, o) = AllocationOf(l, o)
      /\ \A o, status : RefundsOf(k, o, status) = RefundsOf(l, o, status)
  BY <1>1 DEF AllocationOf, RefundsOf
<1>9. Belongs(l, orders) => Belongs(k, orders)
  BY MarkedSame, <1>2, <1>8, <1>1 DEF Debited, RefundsMatch, AllocationsMatch, Belongs
<1>. QED
  BY <1>5, <1>6, <1>7, <1>9

(* An Apple ID's balance is of a version no movement is ahead of. *)
LEMMA WalletIsLatest ==
  ASSUME NEW l, LedgerTyped(l), MovementsAddUp(l), NEW i \in DOMAIN l.movements
  PROVE  /\ l.movements[i].version <= l.wallets[l.movements[i].appleId].version
         /\ l.movements[i].version \in Int /\ l.wallets[l.movements[i].appleId].version \in Int
<1>. DEFINE id == l.movements[i].appleId
            S == MovesOn(l, id)
            T == {j \in S : j <= i}
<1>1. id \in AppleIds
  BY MovementFields
<1>2. IsFiniteSet(S) /\ T \subseteq S
  BY MovementsFinite, FS_Subset DEF MovesOn
<1>3. l.movements[i].version = 1 + Cardinality(T)
  BY DEF MovementsAddUp
<1>4. l.wallets[id].version = 1 + Cardinality(S)
  <2>1. l.wallets[id] = [balance |-> SumOf(l.movements, S), version |-> 1 + Cardinality(S)]
    BY <1>1, Zenon DEF MovementsAddUp
  <2>. QED
    BY <2>1
<1>. HIDE DEF S, T
<1>5. Cardinality(T) <= Cardinality(S) /\ Cardinality(T) \in Nat /\ Cardinality(S) \in Nat
  BY <1>2, FS_Subset, FS_CardinalityType
<1>. QED
  BY <1>3, <1>4, <1>5

(* What undoing an adjustment makes of the ledger: the adjustment is        *)
(* marked, and its opposite is the newest movement.                         *)
Undoes(l, k, is, n, form, e) ==
  /\ Marks(l, k, n, form) /\ Grown(k, is, l.movements[n].appleId, e)
  /\ form # 0 /\ l.movements[n].kind = "manual" /\ l.movements[n].undone = 0
  /\ l.wallets[l.movements[n].appleId].version = l.movements[n].version
  /\ e.kind = "manual-undo" /\ e.order = 0 /\ e.of = n /\ e.form = form /\ e.amount = -l.movements[n].amount

(* Undone movements and what undid them go together again. *)
LEMMA UndoneUndos ==
  ASSUME NEW l, NEW k, NEW is, NEW n, NEW form, NEW e, Undoes(l, k, is, n, form, e),
         UndosMatch(l), MovementsAddUp(l)
  PROVE  UndosMatch(is)
<1>1. /\ Marks(l, k, n, form) /\ LedgerTyped(l) /\ n \in DOMAIN l.movements
      /\ Grown(k, is, l.movements[n].appleId, e)
  BY DEF Undoes, Marks
<1>2. /\ DOMAIN l.movements = 1..Len(k.movements) /\ Len(k.movements) \in Nat
      /\ Len(is.movements) = Len(k.movements) + 1
      /\ is.movements[Len(is.movements)] = e
      /\ \A i \in DOMAIN l.movements : i # n => is.movements[i] = l.movements[i]
      /\ is.movements[n] = k.movements[n]
  BY <1>1 DEF Marks, Grown
<1>3. MovesOf(is, AppleIds, {"manual-undo"}) = MovesOf(l, AppleIds, {"manual-undo"}) \cup {Len(is.movements)}
  BY <1>1, GrownMoves, MovementFields, MarkedSame DEF Undoes
<1>. DEFINE Fits(i) == LET undo == is.movements[i]
                           original == is.movements[undo.of]
                       IN  /\ undo.of \in 1..(i - 1)
                           /\ original.kind = "manual" /\ original.appleId = undo.appleId
                           /\ original.undone = undo.form
                           /\ original.version = undo.version - 1
                           /\ original.amount = -undo.amount
<1>4. Fits(Len(is.movements))
  <2>1. PICK was : was = l.movements[n]
    OBVIOUS
  <2>2. PICK now : now = is.movements[n]
    OBVIOUS
  <2>3. /\ now.kind = "manual" /\ now.appleId = was.appleId /\ now.undone = form
        /\ now.version = was.version /\ now.amount = was.amount /\ was.amount \in Int
    <3>1. SameMove(now, was) /\ now.undone = form
      BY <1>1, <1>2, <2>1, <2>2 DEF Marks
    <3>. QED
      BY <1>1, <2>1, <3>1, MovementFields DEF Undoes, SameMove
  <2>4. e.appleId = was.appleId /\ e.version = was.version + 1 /\ e.of = n /\ e.form = form /\ e.amount = -was.amount
    <3>1. e.appleId = was.appleId /\ e.version = k.wallets[was.appleId].version + 1
      BY <1>1, <2>1 DEF Grown
    <3>2. k.wallets = l.wallets
      BY <1>1 DEF Marks
    <3>. QED
      BY <2>1, <3>1, <3>2 DEF Undoes
  <2>5. was.version \in Int
    BY <1>1, <2>1, WalletIsLatest DEF Undoes
  <2>6. n \in 1..(Len(is.movements) - 1)
    BY <1>1, <1>2
  <2>. QED
    <3>1. is.movements[Len(is.movements)] = e /\ is.movements[e.of] = now /\ e.of \in 1..(Len(is.movements) - 1)
      BY <1>2, <2>2, <2>4, <2>6
    <3>2. now.version = e.version - 1 /\ now.amount = -e.amount
      BY <2>3, <2>4, <2>5
    <3>. QED
      BY <2>3, <2>4, <3>1, <3>2
<1>5. ASSUME NEW i \in MovesOf(l, AppleIds, {"manual-undo"})
      PROVE  Fits(i)
  <2>1. i \in DOMAIN l.movements /\ l.movements[i].kind = "manual-undo"
    BY DEF MovesOf
  <2>2. i # n /\ is.movements[i] = l.movements[i]
    BY <1>2, <2>1 DEF Undoes
  <2>3. PICK undo : undo = l.movements[i]
    OBVIOUS
  <2>4. PICK original : original = l.movements[undo.of]
    OBVIOUS
  <2>5. /\ undo.of \in 1..(i - 1) /\ original.kind = "manual" /\ original.appleId = undo.appleId
        /\ original.undone = undo.form /\ original.version = undo.version - 1 /\ original.amount = -undo.amount
    BY <2>3, <2>4 DEF UndosMatch
  <2>6. undo.of # n
    <3>1. undo.version <= l.wallets[undo.appleId].version /\ undo.version \in Int
      BY <1>1, <2>1, <2>3, WalletIsLatest DEF Undoes
    <3>. SUFFICES ASSUME undo.of = n PROVE FALSE
      OBVIOUS
    <3>2. l.wallets[undo.appleId].version = undo.version - 1
      BY <2>4, <2>5 DEF Undoes
    <3>. QED
      BY <3>1, <3>2
  <2>7. undo.of \in DOMAIN l.movements
    BY <1>2, <2>1, <2>5
  <2>8. is.movements[undo.of] = original
    BY <1>2, <2>4, <2>6, <2>7
  <2>. QED
    BY <2>2, <2>3, <2>5, <2>8
<1>. QED
  BY <1>3, <1>4, <1>5 DEF UndosMatch

LEMMA UndoneKept ==
  ASSUME NEW l, NEW k, NEW is, NEW n, NEW form, NEW e, Undoes(l, k, is, n, form, e), SelfKept(l)
  PROVE  SelfKept(is) /\ MovesKept(l, is)
<1>1. /\ DOMAIN is.movements = DOMAIN l.movements \cup {Len(is.movements)}
      /\ is.movements[Len(is.movements)] = e /\ e.undone = 0
      /\ \A i \in DOMAIN l.movements : i # n => is.movements[i] = l.movements[i]
      /\ n \in DOMAIN l.movements
  BY DEF Undoes, Marks, Grown
<1>2. is.movements[n] = k.movements[n] /\ SameMove(k.movements[n], l.movements[n]) /\ k.movements[n].undone = form
  BY DEF Undoes, Marks, Grown
<1>3. e.kind = "manual-undo" /\ e.of = n /\ e.form = form /\ l.movements[n].undone = 0
  BY DEF Undoes
<1>4. Explained(is, n)
  BY <1>1, <1>2, <1>3 DEF Explained
<1>5. ASSUME NEW i \in DOMAIN l.movements
      PROVE  /\ is.movements[i].kind = l.movements[i].kind /\ is.movements[i].of = l.movements[i].of
             /\ is.movements[i].form = l.movements[i].form
             /\ [is.movements[i] EXCEPT !.undone = 0] = [l.movements[i] EXCEPT !.undone = 0]
  BY <1>2, <1>1 DEF SameMove
<1>6. ASSUME NEW i \in DOMAIN l.movements, i # n PROVE Explained(is, i)
  <2>1. Explained(l, i) /\ is.movements[i] = l.movements[i]
    BY <1>1, <1>6 DEF SelfKept
  <2>. QED
    BY <1>1, <1>5, <2>1 DEF Explained
<1>7. Explained(is, Len(is.movements))
  BY <1>1 DEF Explained
<1>8. SelfKept(is)
  BY <1>1, <1>4, <1>6, <1>7 DEF SelfKept
<1>9. ASSUME NEW i \in DOMAIN l.movements PROVE MovementKept(l, is, i)
  BY <1>1, <1>8, <1>3, <1>5 DEF SelfKept, MovementKept
<1>. QED
  BY <1>8, <1>9 DEF MovesKept

(* The server stores the ledger an adjustment was undone in. *)
LEMMA UndoKeeps ==
  ASSUME NEW l, LedgerTyped(l), NEW orders, LedgerSound(l, orders), SelfKept(l),
         NEW n \in Nat, NEW form \in Nat \ {0}, UndoAdjustment(l, n, form).ok
  PROVE  Keepable(l, UndoAdjustment(l, n, form).ledger, orders)
<1>. DEFINE id == l.movements[n].appleId
            k == MarkedLedger(l, n, form)
            back == -l.movements[n].amount
            d == Detail("manual-undo", form, 0, n)
            is == PushMovement(k, id, back, d)
<1>1. /\ UndoAdjustment(l, n, form) = Done(is)
      /\ n \in DOMAIN l.movements /\ l.movements[n].kind = "manual" /\ l.movements[n].undone = 0
      /\ l.wallets[id].version = l.movements[n].version
      /\ l.wallets[id].balance - l.movements[n].amount >= 0
  BY DEF UndoAdjustment, Refused, MarkedLedger
<1>2. Marks(l, k, n, form)
  BY <1>1, MarkMarks
<1>. HIDE DEF k
<1>3. LedgerTyped(k) /\ k.wallets = l.wallets /\ k.refunds = l.refunds
  BY <1>2 DEF Marks
<1>4. id \in AppleIds /\ back \in Int /\ l.movements[n].amount \in Int
  BY <1>1, MovementFields
<1>5. d \in Details /\ d.kind = "manual-undo" /\ d.form = form /\ d.order = 0 /\ d.of = n
  BY DetailTyped, DetailFields
<1>. HIDE DEF d, back
<1>6. PICK e : /\ Grown(k, is, id, e) /\ e.amount = back
               /\ e.kind = d.kind /\ e.form = d.form /\ e.order = d.order /\ e.of = d.of
  BY <1>3, <1>4, <1>5, PushGrows
<1>. HIDE DEF is
<1>7. Undoes(l, k, is, n, form, e)
  BY <1>1, <1>2, <1>5, <1>6 DEF Undoes, back
<1>8. Books(l, l, orders) /\ Belongs(l, orders) /\ RefundsKept(l, l)
  BY SoundParted
<1>9. MovementsAddUp(k) /\ Signed(k, orders) /\ ReceiptsMatch(k) /\ Belongs(k, orders)
  BY <1>2, <1>8, MarkedBelongs DEF Books
<1>10. e.after >= 0
  <2>1. e.after = l.wallets[id].balance + back
    BY <1>3, <1>6 DEF Grown
  <2>2. l.wallets[id].balance \in Int
    BY <1>4 DEF LedgerTyped, Wallet
  <2>. QED
    BY <1>1, <1>4, <2>1, <2>2 DEF back
<1>11. MovementsAddUp(is)
  BY <1>6, <1>9, <1>10, GrownAddsUp
<1>12. Signed(is, orders)
  BY <1>5, <1>6, <1>9, GrownSigned DEF SignedAs
<1>13. ReceiptsMatch(is) /\ Belongs(is, orders)
  BY <1>5, <1>6, <1>9, GrownReceipts, GrownBelongs
<1>14. UndosMatch(is)
  BY <1>7, <1>8, UndoneUndos DEF Books
<1>15. SelfKept(is) /\ MovesKept(l, is)
  BY <1>7, UndoneKept
<1>16. LedgerTyped(is) /\ RefundsKept(l, is)
  BY <1>3, <1>6, <1>8 DEF Grown, RefundsKept
<1>17. Books(l, is, orders)
  BY <1>11, <1>12, <1>13, <1>14, <1>15, <1>16 DEF Books
<1>. QED
  BY <1>1, <1>13, <1>16, <1>17, KeepableParted DEF Done

(* A finite set of numbers has a last one. *)
Numbers(S) == S \subseteq Nat

LEMMA LastOne ==
  ASSUME NEW S, IsFiniteSet(S), S # {}, Numbers(S)
  PROVE  \E n \in S : \A i \in S : i <= n
<1>. DEFINE Above(n) == {i \in S : i > n}
<1>1. PICK T : T = {Above(n) : n \in S}
  OBVIOUS
<1>2. T \subseteq SUBSET S
  BY <1>1
<1>3. T # {}
  BY <1>1
<1>4. PICK t \in T : \A u \in T : u \subseteq t => u = t
  BY <1>2, <1>3, Smallest
<1>5. PICK n \in S : t = Above(n)
  BY <1>1
<1>6. ASSUME NEW i \in S, i > n PROVE FALSE
  <2>1. Above(i) \in T
    BY <1>1
  <2>2. \A j \in S : j > i => j > n
    BY <1>6 DEF Numbers
  <2>3. Above(i) \subseteq Above(n)
    BY <2>2
  <2>4. i \in Above(n)
    BY <1>6
  <2>5. i \notin Above(i)
    BY DEF Numbers
  <2>. HIDE DEF Above
  <2>. QED
    BY <1>4, <1>5, <2>1, <2>3, <2>4, <2>5
<1>. QED
  BY <1>6 DEF Numbers

(* No balance is below nothing. *)
LEMMA NothingBelow ==
  ASSUME NEW l, LedgerTyped(l), MovementsAddUp(l), NEW id \in AppleIds
  PROVE  l.wallets[id].balance \in Int /\ l.wallets[id].balance >= 0
<1>. DEFINE S == MovesOn(l, id)
<1>1. l.wallets[id].balance = SumOf(l.movements, S)
  <2>1. l.wallets[id] = [balance |-> SumOf(l.movements, S), version |-> 1 + Cardinality(S)]
    BY Zenon DEF MovementsAddUp
  <2>. QED
    BY <2>1
<1>2. IsFiniteSet(S) /\ S \subseteq Nat /\ S \subseteq DOMAIN l.movements
  BY MovementsFinite, FS_Subset DEF MovesOn, LedgerTyped
<1>3. CASE S = {}
  BY SumOfNone, <1>1, <1>3 DEF SumOf
<1>4. CASE S # {}
  <2>. HIDE DEF S
  <2>1. PICK n \in S : \A i \in S : i <= n
    BY <1>2, <1>4, LastOne DEF Numbers
  <2>2. n \in DOMAIN l.movements /\ l.movements[n].appleId = id
    BY DEF S, MovesOn
  <2>3. {i \in MovesOn(l, l.movements[n].appleId) : i <= n} = S
    BY <2>1, <2>2 DEF S
  <2>4. l.movements[n].after = SumOf(l.movements, S) /\ l.movements[n].after >= 0
    BY <2>2, <2>3 DEF MovementsAddUp
  <2>5. SumOf(l.movements, S) \in Int
    BY <1>2, MovementsFinite, IntOnPart, SumInt DEF SumOf
  <2>. QED
    BY <1>1, <2>4, <2>5
<1>. QED
  BY <1>3, <1>4

(* One refund is another, or a new one. *)
Touches(l, k, r) ==
  /\ LedgerTyped(l) /\ LedgerTyped(k)
  /\ DOMAIN k.refunds = DOMAIN l.refunds \cup {r}
  /\ \A q \in DOMAIN l.refunds : q # r => k.refunds[q] = l.refunds[q]

Counts(l, r, o, status) ==
  r \in DOMAIN l.refunds /\ l.refunds[r].order = o /\ l.refunds[r].status = status

(* What is counted of an order's refunds, but for that one, and with it. *)
LEMMA TouchedSums ==
  ASSUME NEW l, NEW k, NEW r, Touches(l, k, r), NEW o, NEW status
  PROVE  LET rest == SumOf(l.refunds, RefundsOf(l, o, status) \ {r}) IN
           /\ rest \in Int /\ k.refunds[r].amount \in Int
           /\ r \in DOMAIN l.refunds => l.refunds[r].amount \in Int
           /\ SumOf(l.refunds, RefundsOf(l, o, status)) =
                rest + IF Counts(l, r, o, status) THEN l.refunds[r].amount ELSE 0
           /\ SumOf(k.refunds, RefundsOf(k, o, status)) =
                rest + IF Counts(k, r, o, status) THEN k.refunds[r].amount ELSE 0
<1>. DEFINE A == Amounts(l.refunds)
            B == Amounts(k.refunds)
            L == RefundsOf(l, o, status)
            K == RefundsOf(k, o, status)
            S == L \ {r}
<1>1. LedgerTyped(l) /\ LedgerTyped(k) /\ r \in DOMAIN k.refunds
  BY DEF Touches
<1>2. L \subseteq DOMAIN l.refunds /\ K \subseteq DOMAIN k.refunds /\ S \subseteq DOMAIN l.refunds /\ S \subseteq L
  BY DEF RefundsOf
<1>3. L = IF Counts(l, r, o, status) THEN S \cup {r} ELSE S
  BY DEF RefundsOf, Counts
<1>4. K = IF Counts(k, r, o, status) THEN S \cup {r} ELSE S
  BY DEF RefundsOf, Counts, Touches
<1>5. IsFiniteSet(L) /\ IntOn(A, L) /\ IsFiniteSet(S) /\ IntOn(A, S)
  BY <1>1, <1>2, RefundsFinite
<1>6. IsFiniteSet(K) /\ IntOn(B, K)
  BY <1>1, <1>2, RefundsFinite
<1>7. \A x \in S : B[x] = A[x]
  BY <1>2 DEF Touches, Amounts
<1>8. B[r] = k.refunds[r].amount /\ (r \in DOMAIN l.refunds => A[r] = l.refunds[r].amount)
  BY <1>1 DEF Amounts
<1>9. k.refunds[r].amount \in Int /\ (r \in DOMAIN l.refunds => l.refunds[r].amount \in Int)
  BY <1>1, RefundFields
<1>10. r \notin S
  OBVIOUS
<1>. HIDE DEF A, B, L, K, S
<1>11. SumFunctionOnSet(B, S) = SumFunctionOnSet(A, S) /\ SumFunctionOnSet(A, S) \in Int
  BY <1>5, <1>7, SumEqual, SumInt
<1>12. SumFunctionOnSet(A, L) =
         SumFunctionOnSet(A, S) + IF Counts(l, r, o, status) THEN l.refunds[r].amount ELSE 0
  BY <1>3, <1>10, <1>5, SumRemove, <1>8, <1>11, <1>9 DEF Counts
<1>13. SumFunctionOnSet(B, K) =
         SumFunctionOnSet(A, S) + IF Counts(k, r, o, status) THEN k.refunds[r].amount ELSE 0
  BY <1>4, <1>10, <1>6, SumRemove, <1>8, <1>11, <1>9
<1>. QED
  BY <1>9, <1>11, <1>12, <1>13 DEF SumOf, A, B, L, K, S

(* The fields of a refund written over, and of a charge some came back of. *)
LEMMA WithRefundIs ==
  ASSUME NEW l, LedgerTyped(l), NEW r \in DOMAIN l.refunds, NEW amount \in Int,
         NEW status \in {"pending", "received", "none"}
  PROVE  LET k == WithRefund(l, r, amount, status) IN
           /\ Touches(l, k, r)
           /\ k.wallets = l.wallets /\ k.allocations = l.allocations /\ k.movements = l.movements
           /\ k.refunds[r].amount = amount /\ k.refunds[r].status = status
           /\ k.refunds[r].order = l.refunds[r].order /\ k.refunds[r].appleId = l.refunds[r].appleId
<1>1. Shaped(l) /\ RefundsTyped(l.refunds)
  BY LedgerParts
<1>2. PICK was : was = l.refunds[r]
  OBVIOUS
<1>3. was \in Refund
  BY <1>1, <1>2 DEF RefundsTyped
<1>4. PICK version : version = was.version + 1
  OBVIOUS
<1>5. PICK refund : refund = [was EXCEPT !.amount = amount, !.status = status, !.version = version]
  OBVIOUS
<1>6. /\ refund.amount = amount /\ refund.status = status
      /\ refund.order = was.order /\ refund.appleId = was.appleId
  BY <1>3, <1>5 DEF Refund
<1>7. PICK refunds : refunds = With(l.refunds, r, refund)
  OBVIOUS
<1>8. PICK k : k = WithRefund(l, r, amount, status)
  OBVIOUS
<1>9. k = [l EXCEPT !.refunds = refunds]
  BY <1>2, <1>4, <1>5, <1>7, <1>8 DEF WithRefund
<1>10. k = Ledger(l.version, l.wallets, l.allocations, l.movements, refunds)
  BY <1>1, <1>9, LedgerWith
<1>11. /\ k.wallets = l.wallets /\ k.allocations = l.allocations /\ k.movements = l.movements
       /\ k.refunds = refunds
  BY <1>10, LedgerFields
<1>12. refunds[r] = refund
  BY <1>7, WithAt
<1>13. /\ LedgerTyped(k) /\ DOMAIN k.refunds = DOMAIN l.refunds
       /\ \A q \in DOMAIN l.refunds : q # r => k.refunds[q] = l.refunds[q]
  BY <1>8, WithRefundTyped
<1>14. Touches(l, k, r)
  BY <1>13 DEF Touches
<1>. QED
  BY <1>2, <1>6, <1>8, <1>11, <1>12, <1>14

LEMMA ReturnedIs ==
  ASSUME NEW l, LedgerTyped(l), NEW o \in DOMAIN l.allocations, NEW amount \in Int
  PROVE  LET k == Returned(l, o, amount) IN
           /\ LedgerTyped(k)
           /\ k.wallets = l.wallets /\ k.movements = l.movements /\ k.refunds = l.refunds
           /\ DOMAIN k.allocations = DOMAIN l.allocations
           /\ \A q \in DOMAIN l.allocations : q # o => k.allocations[q] = l.allocations[q]
           /\ k.allocations[o].amount = l.allocations[o].amount
           /\ k.allocations[o].appleId = l.allocations[o].appleId
           /\ k.allocations[o].returned = l.allocations[o].returned + amount
<1>1. Shaped(l) /\ AllocationsTyped(l.allocations)
  BY LedgerParts
<1>2. PICK was : was = l.allocations[o]
  OBVIOUS
<1>3. was \in Allocation
  BY <1>1, <1>2 DEF AllocationsTyped
<1>4. PICK back, version : back = was.returned + amount /\ version = was.version + 1
  OBVIOUS
<1>5. PICK one : one = [was EXCEPT !.returned = back, !.version = version]
  OBVIOUS
<1>6. one.amount = was.amount /\ one.appleId = was.appleId /\ one.returned = back
  BY <1>3, <1>5 DEF Allocation
<1>7. PICK a : a = With(l.allocations, o, one)
  OBVIOUS
<1>8. PICK k : k = Returned(l, o, amount)
  OBVIOUS
<1>9. k = [l EXCEPT !.allocations = a]
  BY <1>2, <1>4, <1>5, <1>7, <1>8 DEF Returned
<1>10. k = Ledger(l.version, l.wallets, a, l.movements, l.refunds)
  BY <1>1, <1>9, LedgerWith
<1>11. k.wallets = l.wallets /\ k.movements = l.movements /\ k.refunds = l.refunds /\ k.allocations = a
  BY <1>10, LedgerFields
<1>12. /\ DOMAIN a = DOMAIN l.allocations /\ a[o] = one
       /\ \A q \in DOMAIN l.allocations : q # o => a[q] = l.allocations[q]
  <2>1. DOMAIN a = DOMAIN l.allocations \cup {o}
    BY <1>7, WithDomain
  <2>2. a[o] = one
    BY <1>7, WithAt
  <2>3. \A q \in DOMAIN l.allocations : q # o => a[q] = l.allocations[q]
    BY <1>7, WithElse
  <2>. QED
    BY <2>1, <2>2, <2>3
<1>13. LedgerTyped(k)
  BY <1>8, ReturnedTyped
<1>. QED
  BY <1>2, <1>4, <1>6, <1>8, <1>11, <1>12, <1>13

(* A receipt to come corrected: nothing has been booked for it. *)
Amends(l, k, r, amount) ==
  /\ Touches(l, k, r) /\ r \in DOMAIN l.refunds
  /\ k.wallets = l.wallets /\ k.allocations = l.allocations /\ k.movements = l.movements
  /\ l.refunds[r].status = "pending" /\ amount >= 0
  /\ k.refunds[r].amount = amount /\ k.refunds[r].status = (IF amount > 0 THEN "pending" ELSE "none")
  /\ k.refunds[r].order = l.refunds[r].order /\ k.refunds[r].appleId = l.refunds[r].appleId

LEMMA AmendedBooks ==
  ASSUME NEW l, NEW k, NEW r, NEW amount, Amends(l, k, r, amount), NEW orders, Books(l, l, orders)
  PROVE  Books(l, k, orders)
<1>1. /\ k.wallets = l.wallets /\ k.movements = l.movements
      /\ DOMAIN k.refunds = DOMAIN l.refunds
      /\ \A q \in DOMAIN l.refunds : q # r => k.refunds[q] = l.refunds[q]
      /\ l.refunds[r].status # "received" /\ k.refunds[r].status # "received" /\ r \in DOMAIN l.refunds
  BY DEF Amends, Touches
<1>2. MovementsAddUp(k)
  BY <1>1 DEF Books, MovementsAddUp, MovesOn
<1>3. Signed(k, orders)
  BY <1>1 DEF Books, Signed
<1>4. UndosMatch(k)
  BY <1>1 DEF Books, UndosMatch, MovesOf
<1>5. MovesKept(l, k) /\ SelfKept(k)
  BY <1>1 DEF Explained, Books, MovesKept, MovementKept, SelfKept
<1>6. ReceiptsMatch(k)
  BY <1>1 DEF Receipts, MovesOf, Books, ReceiptsMatch
<1>7. LedgerTyped(k)
  BY DEF Amends, Touches
<1>. QED
  BY <1>2, <1>3, <1>4, <1>5, <1>6, <1>7 DEF Books

LEMMA AmendedBelongs ==
  ASSUME NEW l, NEW k, NEW r, NEW amount, Amends(l, k, r, amount), amount \in Int,
         NEW orders, Belongs(l, orders),
         PendingTotal(l, l.refunds[r].order, r) + amount <= Net(AllocationOf(l, l.refunds[r].order))
  PROVE  Belongs(k, orders)
<1>1. /\ k.allocations = l.allocations /\ k.movements = l.movements
      /\ DOMAIN k.refunds = DOMAIN l.refunds
      /\ \A q \in DOMAIN l.refunds : q # r => k.refunds[q] = l.refunds[q]
      /\ r \in DOMAIN l.refunds /\ Touches(l, k, r) /\ LedgerTyped(l)
      /\ l.refunds[r].status = "pending" /\ amount >= 0
      /\ k.refunds[r].amount = amount /\ k.refunds[r].status = (IF amount > 0 THEN "pending" ELSE "none")
      /\ k.refunds[r].order = l.refunds[r].order /\ k.refunds[r].appleId = l.refunds[r].appleId
  BY DEF Amends, Touches
<1>2. \A o : AllocationOf(k, o) = AllocationOf(l, o)
  BY <1>1 DEF AllocationOf
<1>3. Debited(k, orders)
  BY <1>1, <1>2 DEF Debits, MovesOf, Belongs, Debited
<1>4. RefundsMatch(k, orders)
  BY <1>1, <1>2 DEF Belongs, RefundsMatch
<1>5. \A o : SumOf(k.refunds, RefundsOf(k, o, "received")) = SumOf(l.refunds, RefundsOf(l, o, "received"))
  <2>. TAKE o
  <2>1. ~Counts(l, r, o, "received") /\ ~Counts(k, r, o, "received")
    BY <1>1 DEF Counts
  <2>2. LET rest == SumOf(l.refunds, RefundsOf(l, o, "received") \ {r}) IN
           /\ rest \in Int /\ k.refunds[r].amount \in Int
           /\ r \in DOMAIN l.refunds => l.refunds[r].amount \in Int
           /\ SumOf(l.refunds, RefundsOf(l, o, "received")) =
                rest + IF Counts(l, r, o, "received") THEN l.refunds[r].amount ELSE 0
           /\ SumOf(k.refunds, RefundsOf(k, o, "received")) =
                rest + IF Counts(k, r, o, "received") THEN k.refunds[r].amount ELSE 0
    BY <1>1, TouchedSums
  <2>. QED
    BY <2>1, <2>2
<1>6. ASSUME NEW o \in DOMAIN l.allocations
      PROVE  l.allocations[o].returned + SumOf(k.refunds, RefundsOf(k, o, "pending")) <= l.allocations[o].amount
  <2>. DEFINE rest == SumOf(l.refunds, RefundsOf(l, o, "pending") \ {r})
              one == l.allocations[o]
  <2>1. /\ rest \in Int
        /\ SumOf(l.refunds, RefundsOf(l, o, "pending")) =
             rest + IF Counts(l, r, o, "pending") THEN l.refunds[r].amount ELSE 0
        /\ SumOf(k.refunds, RefundsOf(k, o, "pending")) =
             rest + IF Counts(k, r, o, "pending") THEN k.refunds[r].amount ELSE 0
    BY <1>1, TouchedSums
  <2>2. one.returned + SumOf(l.refunds, RefundsOf(l, o, "pending")) <= one.amount
    BY DEF Belongs, AllocationsMatch
  <2>3. one.returned \in Int /\ one.amount \in Int
    BY <1>1 DEF LedgerTyped, Allocation
  <2>4. CASE o = l.refunds[r].order
    BY <2>4, <1>1, <2>1, <2>3 DEF PendingTotal, AllocationOf, Counts, Net, one
  <2>5. CASE o # l.refunds[r].order
    BY <1>1, <2>5, <2>1, <2>2 DEF Counts
  <2>. QED
    BY <2>4, <2>5
<1>7. AllocationsMatch(k, orders)
  BY <1>1, <1>5, <1>6 DEF Belongs, AllocationsMatch
<1>. QED
  BY <1>3, <1>4, <1>7 DEF Belongs

(* The server stores the ledger a receipt was corrected in. *)
LEMMA AmendKeeps ==
  ASSUME NEW l, LedgerTyped(l), NEW orders, LedgerSound(l, orders), SelfKept(l),
         NEW r, NEW amount \in Nat, NEW seen, CorrectRefund(l, r, amount, seen).ok
  PROVE  Keepable(l, CorrectRefund(l, r, amount, seen).ledger, orders)
<1>. DEFINE status == IF amount > 0 THEN "pending" ELSE "none"
            k == WithRefund(l, r, amount, status)
<1>1. /\ CorrectRefund(l, r, amount, seen) = Done(k)
      /\ VerifyPendingRefund(l, r, seen)
      /\ PendingTotal(l, l.refunds[r].order, r) + amount <= Net(AllocationOf(l, l.refunds[r].order))
  BY DEF CorrectRefund, Refused
<1>2. r \in DOMAIN l.refunds /\ l.refunds[r].status = "pending"
  BY <1>1 DEF VerifyPendingRefund
<1>3. status \in {"pending", "received", "none"}
  OBVIOUS
<1>. HIDE DEF status
<1>4. /\ Touches(l, k, r)
      /\ k.wallets = l.wallets /\ k.allocations = l.allocations /\ k.movements = l.movements
      /\ k.refunds[r].amount = amount /\ k.refunds[r].status = status
      /\ k.refunds[r].order = l.refunds[r].order /\ k.refunds[r].appleId = l.refunds[r].appleId
  BY <1>2, <1>3, WithRefundIs
<1>. HIDE DEF k
<1>5. Amends(l, k, r, amount)
  BY <1>2, <1>4 DEF Amends, status
<1>6. Books(l, l, orders) /\ Belongs(l, orders) /\ RefundsKept(l, l)
  BY SoundParted
<1>7. Books(l, k, orders) /\ Belongs(k, orders)
  BY <1>1, <1>5, <1>6, AmendedBooks, AmendedBelongs
<1>8. RefundsKept(l, k)
  BY <1>2, <1>4 DEF RefundsKept, Touches
<1>. QED
  BY <1>1, <1>7, <1>8, KeepableParted DEF Done

(* A receipt of what Apple gave back: one movement, which the refund and    *)
(* the charge know of.                                                      *)
Receives(l, x, r, o, amount) ==
  /\ Touches(l, x, r) /\ r \in DOMAIN l.refunds
  /\ x.wallets = l.wallets /\ x.movements = l.movements
  /\ l.refunds[r].status = "pending" /\ x.refunds[r].status = "received"
  /\ l.refunds[r].amount = amount /\ x.refunds[r].amount = amount
  /\ l.refunds[r].order = o /\ x.refunds[r].order = o
  /\ x.refunds[r].appleId = l.refunds[r].appleId
  /\ o \in DOMAIN l.allocations /\ DOMAIN x.allocations = DOMAIN l.allocations
  /\ \A q \in DOMAIN l.allocations : q # o => x.allocations[q] = l.allocations[q]
  /\ x.allocations[o].amount = l.allocations[o].amount
  /\ x.allocations[o].appleId = l.allocations[o].appleId
  /\ x.allocations[o].returned = l.allocations[o].returned + amount

(* Refunds, charges and orders go together after a receipt. *)
LEMMA ReceivedBelongs ==
  ASSUME NEW l, NEW x, NEW r, NEW o, NEW amount \in Int, Receives(l, x, r, o, amount), amount > 0,
         NEW orders, Belongs(l, orders)
  PROVE  Belongs(x, orders)
<1>1. /\ Touches(l, x, r) /\ r \in DOMAIN l.refunds /\ DOMAIN x.refunds = DOMAIN l.refunds
      /\ \A q \in DOMAIN l.refunds : q # r => x.refunds[q] = l.refunds[q]
      /\ LedgerTyped(l) /\ x.movements = l.movements
      /\ l.refunds[r].status = "pending" /\ x.refunds[r].status = "received"
      /\ l.refunds[r].amount = amount /\ x.refunds[r].amount = amount
      /\ l.refunds[r].order = o /\ x.refunds[r].order = o
      /\ x.refunds[r].appleId = l.refunds[r].appleId
  BY DEF Receives, Touches
<1>2. /\ o \in DOMAIN l.allocations /\ DOMAIN x.allocations = DOMAIN l.allocations
      /\ \A q \in DOMAIN l.allocations : q # o => x.allocations[q] = l.allocations[q]
      /\ x.allocations[o].amount = l.allocations[o].amount
      /\ x.allocations[o].appleId = l.allocations[o].appleId
      /\ x.allocations[o].returned = l.allocations[o].returned + amount
  BY DEF Receives
<1>3. \A q : /\ AllocationOf(x, q).appleId = AllocationOf(l, q).appleId
             /\ AllocationOf(x, q).amount = AllocationOf(l, q).amount
  BY <1>2 DEF AllocationOf
<1>4. Debited(x, orders)
  BY <1>1, <1>3 DEF Debits, MovesOf, Belongs, Debited
<1>5. RefundsMatch(x, orders)
  BY <1>1, <1>3 DEF Belongs, RefundsMatch
<1>6. ASSUME NEW p \in DOMAIN l.allocations
      PROVE  /\ x.allocations[p].returned = SumOf(x.refunds, RefundsOf(x, p, "received"))
             /\ x.allocations[p].returned + SumOf(x.refunds, RefundsOf(x, p, "pending")) <= x.allocations[p].amount
  <2>. DEFINE got == SumOf(l.refunds, RefundsOf(l, p, "received") \ {r})
              open == SumOf(l.refunds, RefundsOf(l, p, "pending") \ {r})
              one == l.allocations[p]
  <2>1. /\ got \in Int
        /\ SumOf(l.refunds, RefundsOf(l, p, "received")) =
             got + IF Counts(l, r, p, "received") THEN l.refunds[r].amount ELSE 0
        /\ SumOf(x.refunds, RefundsOf(x, p, "received")) =
             got + IF Counts(x, r, p, "received") THEN x.refunds[r].amount ELSE 0
    BY <1>1, TouchedSums
  <2>2. /\ open \in Int
        /\ SumOf(l.refunds, RefundsOf(l, p, "pending")) =
             open + IF Counts(l, r, p, "pending") THEN l.refunds[r].amount ELSE 0
        /\ SumOf(x.refunds, RefundsOf(x, p, "pending")) =
             open + IF Counts(x, r, p, "pending") THEN x.refunds[r].amount ELSE 0
    BY <1>1, TouchedSums
  <2>3. /\ one.returned = SumOf(l.refunds, RefundsOf(l, p, "received"))
        /\ one.returned + SumOf(l.refunds, RefundsOf(l, p, "pending")) <= one.amount
    BY DEF Belongs, AllocationsMatch
  <2>4. one.returned \in Int /\ one.amount \in Int
    BY <1>1 DEF LedgerTyped, Allocation
  <2>5. ~Counts(l, r, p, "received") /\ ~Counts(x, r, p, "pending")
    BY <1>1 DEF Counts
  <2>6. CASE p = o
    BY <1>1, <2>6, <1>2, <2>1, <2>2, <2>3, <2>4, <2>5 DEF Counts
  <2>7. CASE p # o
    BY <1>1, <2>7, <1>2, <2>1, <2>2, <2>3, <2>4, <2>5 DEF Counts
  <2>. QED
    BY <2>6, <2>7
<1>7. AllocationsMatch(x, orders)
  BY <1>2, <1>6, <1>1 DEF Belongs, AllocationsMatch
<1>. QED
  BY <1>4, <1>5, <1>7 DEF Belongs

LEMMA ReceivedReceipts ==
  ASSUME NEW l, NEW x, NEW is, NEW r, NEW o, NEW amount, NEW e,
         Receives(l, x, r, o, amount), Grown(x, is, l.refunds[r].appleId, e),
         e.amount = amount, e.kind = "apple-refund", e.order = o, e.of = r, ReceiptsMatch(l)
  PROVE  ReceiptsMatch(is)
<1>. DEFINE k == Len(is.movements)
<1>1. /\ r \in DOMAIN l.refunds /\ DOMAIN x.refunds = DOMAIN l.refunds
      /\ \A q \in DOMAIN l.refunds : q # r => x.refunds[q] = l.refunds[q]
      /\ x.movements = l.movements
      /\ l.refunds[r].status = "pending" /\ x.refunds[r].status = "received"
      /\ x.refunds[r].amount = amount /\ x.refunds[r].order = o
      /\ x.refunds[r].appleId = l.refunds[r].appleId
  BY DEF Receives, Touches
<1>2. /\ is.refunds = x.refunds /\ e.appleId = l.refunds[r].appleId
      /\ l.refunds[r].appleId \in AppleIds
  BY DEF Grown
<1>3. Receipts(is) = Receipts(l) \cup {k}
  <2>1. MovesOf(is, AppleIds, {"apple-refund"}) =
          MovesOf(x, AppleIds, {"apple-refund"})
            \cup {n \in {k} : l.refunds[r].appleId \in AppleIds /\ e.kind \in {"apple-refund"}}
    BY GrownMoves
  <2>2. MovesOf(x, AppleIds, {"apple-refund"}) = MovesOf(l, AppleIds, {"apple-refund"})
    BY <1>1 DEF MovesOf
  <2>. HIDE DEF k
  <2>. QED
    BY <1>2, <2>1, <2>2 DEF Receipts
<1>4. /\ \A n \in Receipts(l) : is.movements[n] = l.movements[n]
      /\ is.movements[k] = e /\ k \notin Receipts(l)
  BY GrownMoves, <1>1 DEF Receipts, MovesOf
<1>. HIDE DEF k
<1>5. ASSUME NEW n \in Receipts(l)
      PROVE  l.movements[n].of \in DOMAIN l.refunds /\ l.movements[n].of # r
  BY <1>1 DEF ReceiptsMatch
<1>6. ASSUME NEW n \in Receipts(is)
      PROVE  LET m == is.movements[n] IN
               /\ m.of \in DOMAIN is.refunds
               /\ LET refund == is.refunds[m.of] IN
                    /\ refund.status = "received"
                    /\ <<refund.order, refund.appleId, refund.amount>> = <<m.order, m.appleId, m.amount>>
  BY <1>1, <1>2, <1>4, <1>5, <1>3 DEF ReceiptsMatch
<1>7. ASSUME NEW q \in DOMAIN is.refunds
      PROVE  Cardinality({n \in Receipts(is) : is.movements[n].of = q}) =
               IF is.refunds[q].status = "received" THEN 1 ELSE 0
  <2>1. CASE q = r
    <3>1. {n \in Receipts(is) : is.movements[n].of = q} = {k}
      BY <1>3, <1>4, <1>5, <2>1
    <3>2. Cardinality({k}) = 1
      BY FS_Singleton
    <3>. QED
      BY <1>1, <1>2, <2>1, <3>1, <3>2
  <2>2. CASE q # r
    BY <1>3, <1>4, <2>2, <1>1, <1>2 DEF ReceiptsMatch
  <2>. QED
    BY <2>1, <2>2
<1>. QED
  BY <1>6, <1>7 DEF ReceiptsMatch

LEMMA ReceivedBooks ==
  ASSUME NEW l, NEW x, NEW is, NEW r, NEW o, NEW amount \in Int, NEW e,
         Receives(l, x, r, o, amount), Grown(x, is, l.refunds[r].appleId, e), amount > 0,
         e.amount = amount, e.kind = "apple-refund", e.order = o, e.of = r,
         NEW orders, o \in DOMAIN orders, Books(l, l, orders)
  PROVE  Books(l, is, orders)
<1>1. x.wallets = l.wallets /\ x.movements = l.movements /\ LedgerTyped(l)
  BY DEF Receives, Touches
<1>2. MovementsAddUp(is)
  <2>1. MovementsAddUp(x)
    <3>1. MovementsAddUp(l)
      BY DEF Books
    <3>. QED
      BY <1>1, <3>1 DEF MovementsAddUp, MovesOn
  <2>2. l.refunds[r].appleId \in AppleIds
    BY DEF Grown
  <2>3. l.wallets[l.refunds[r].appleId].balance \in Int /\ l.wallets[l.refunds[r].appleId].balance >= 0
    BY <1>1, <2>2, NothingBelow DEF Books
  <2>4. e.after = l.wallets[l.refunds[r].appleId].balance + amount
    BY <1>1 DEF Grown
  <2>5. e.after >= 0
    BY <2>3, <2>4
  <2>. QED
    BY <2>1, <2>5, GrownAddsUp
<1>3. Signed(is, orders)
  BY <1>1, GrownSigned DEF Books, Signed, SignedAs
<1>4. UndosMatch(is)
  BY <1>1, GrownUndos DEF Books, UndosMatch, MovesOf
<1>5. MovesKept(l, is) /\ SelfKept(is)
  <2>1. \A n : Explained(l, n) <=> Explained(x, n)
    BY <1>1 DEF Explained
  <2>2. MovesKept(l, x) /\ SelfKept(x)
    BY <1>1, <2>1 DEF Books, MovesKept, MovementKept, SelfKept
  <2>. QED
    BY <2>2, GrownKept
<1>6. ReceiptsMatch(is)
  BY ReceivedReceipts DEF Books
<1>7. LedgerTyped(is)
  BY DEF Grown
<1>. QED
  BY <1>2, <1>3, <1>4, <1>5, <1>6, <1>7 DEF Books

(* The server stores the ledger a receipt was booked in. *)
LEMMA ReceiveKeeps ==
  ASSUME NEW l, LedgerTyped(l), NEW orders, LedgerSound(l, orders), SelfKept(l),
         NEW r, NEW seen, NEW form \in Int, ReceiveRefund(l, r, seen, form).ok
  PROVE  Keepable(l, ReceiveRefund(l, r, seen, form).ledger, orders)
<1>a. PICK o, id, amount :
       o = l.refunds[r].order /\ id = l.refunds[r].appleId /\ amount = l.refunds[r].amount
  OBVIOUS
<1>b. PICK back : back = Returned(l, o, amount)
  OBVIOUS
<1>c. PICK x : x = WithRefund(back, r, amount, "received")
  OBVIOUS
<1>d. PICK d : d = Detail("apple-refund", form, o, r)
  OBVIOUS
<1>e. PICK is : is = PushMovement(x, id, amount, d)
  OBVIOUS
<1>1. ReceiveRefund(l, r, seen, form) = Done(is) /\ VerifyPendingRefund(l, r, seen)
  BY <1>a, <1>b, <1>c, <1>d, <1>e DEF ReceiveRefund, Refused
<1>2. r \in DOMAIN l.refunds /\ l.refunds[r].status = "pending" /\ AllocationOf(l, o).appleId = id
  BY <1>1, <1>a DEF VerifyPendingRefund
<1>3. o \in Int /\ id \in AppleIds /\ amount \in Int /\ r \in Nat
  BY <1>2, <1>a DEF LedgerTyped, Refund
<1>4. o \in DOMAIN l.allocations
  BY OrderDeskAssumption, <1>2, <1>3 DEF AllocationOf, NoAllocation
<1>5. Books(l, l, orders) /\ Belongs(l, orders) /\ RefundsKept(l, l)
  BY SoundParted
<1>6. amount > 0 /\ o \in DOMAIN orders
  BY <1>a, <1>2, <1>5 DEF Belongs, RefundsMatch
<1>7. d \in Details /\ d.kind = "apple-refund" /\ d.order = o /\ d.of = r
  BY <1>3, <1>d, DetailTyped, DetailFields
<1>8. /\ LedgerTyped(back)
      /\ back.wallets = l.wallets /\ back.movements = l.movements /\ back.refunds = l.refunds
      /\ DOMAIN back.allocations = DOMAIN l.allocations
      /\ \A q \in DOMAIN l.allocations : q # o => back.allocations[q] = l.allocations[q]
      /\ back.allocations[o].amount = l.allocations[o].amount
      /\ back.allocations[o].appleId = l.allocations[o].appleId
      /\ back.allocations[o].returned = l.allocations[o].returned + amount
  BY <1>3, <1>4, <1>b, ReturnedIs
<1>9. /\ Touches(back, x, r)
      /\ x.wallets = back.wallets /\ x.allocations = back.allocations /\ x.movements = back.movements
      /\ x.refunds[r].amount = amount /\ x.refunds[r].status = "received"
      /\ x.refunds[r].order = back.refunds[r].order /\ x.refunds[r].appleId = back.refunds[r].appleId
  BY <1>2, <1>3, <1>8, <1>c, WithRefundIs
<1>10. Receives(l, x, r, o, amount)
  BY <1>8, <1>9, <1>a, <1>2, <1>4 DEF Touches, Receives
<1>11. PICK e : Grown(x, is, id, e) /\ e.amount = amount /\ e.kind = d.kind /\ e.order = d.order /\ e.of = d.of
  BY <1>9, <1>3, <1>7, <1>e, PushGrows DEF Touches
<1>12. Grown(x, is, l.refunds[r].appleId, e) /\ e.amount = amount /\ e.kind = "apple-refund" /\ e.order = o /\ e.of = r
  BY <1>a, <1>7, <1>11
<1>13. Books(l, is, orders)
  BY <1>3, <1>5, <1>6, <1>10, <1>12, ReceivedBooks
<1>14. Belongs(is, orders)
  BY <1>3, <1>5, <1>6, <1>10, ReceivedBelongs, <1>12, GrownBelongs
<1>15. RefundsKept(l, is)
  BY <1>11, <1>2, <1>10, <1>8, <1>9 DEF Grown, Receives, Touches, RefundsKept
<1>. QED
  BY <1>1, <1>13, <1>14, <1>15, KeepableParted DEF Done

-----------------------------------------------------------------------------
(* The ledger after an order was charged, or charged anew. *)

(* A sum of positive amounts is not below nothing, and nothing only if there *)
(* are none.                                                                *)
PositiveOn(f, S) == \A x \in S : f[x] > 0

LEMMA SumPositive ==
  ASSUME NEW f, NEW S, IsFiniteSet(S), IntOn(f, S), PositiveOn(f, S)
  PROVE  SumFunctionOnSet(f, S) >= 0 /\ (SumFunctionOnSet(f, S) = 0 => S = {})
<1>. DEFINE Fair(s) == SumFunctionOnSet(f, s) >= 0 /\ (SumFunctionOnSet(f, s) = 0 => s = {})
            Bad == {s \in SUBSET S : ~Fair(s)}
<1>. SUFFICES ASSUME Bad # {} PROVE FALSE
  OBVIOUS
<1>1. PICK s \in Bad : \A t \in Bad : t \subseteq s => t = s
  <2>1. Bad \subseteq SUBSET S
    OBVIOUS
  <2>. HIDE DEF Bad
  <2>. QED
    BY <2>1, Smallest
<1>2. IsFiniteSet(s) /\ s \subseteq S /\ ~Fair(s)
  BY FS_Subset
<1>3. s # {} /\ Chosen(s) \in s
  BY <1>2, SumOfNone DEF Chosen
<1>4. Fair(s \ {Chosen(s)})
  BY <1>1, <1>3
<1>5. f[Chosen(s)] \in Int /\ f[Chosen(s)] > 0
  BY <1>2, <1>3 DEF IntOn, PositiveOn
<1>6. SumFunctionOnSet(f, s) = f[Chosen(s)] + SumFunctionOnSet(f, s \ {Chosen(s)})
  BY <1>2, <1>3, SumStep
<1>7. SumFunctionOnSet(f, s \ {Chosen(s)}) \in Int
  BY <1>2, FS_Subset, SumInt DEF IntOn
<1>. QED
  BY <1>2, <1>3, <1>4, <1>5, <1>6, <1>7

(* What was charged for an order on an Apple ID, so far. *)
Debit(l, id, o) == SumOf(l.movements, Debits(l, id, o))

(* One change of a balance, for an order. *)
SignedChange(c) == ChangeTyped(c) /\ (c.kind = "charge" => c.amount < 0) /\ (c.kind = "reversal" => c.amount > 0)

Shifts(p, l, k, orders, o, id, amount) ==
  /\ Books(p, k, orders)
  /\ k.allocations = l.allocations /\ k.refunds = l.refunds
  /\ \A j \in AppleIds : j # id => k.wallets[j] = l.wallets[j]
  /\ \A j, q : Debit(l, j, q) \in Int
  /\ \A j, q : Debit(k, j, q) = Debit(l, j, q) + IF j = id /\ q = o THEN amount ELSE 0

(* One movement for an order, in terms of what it was charged. *)
LEMMA MoveShifts ==
  ASSUME NEW p, NEW l, NEW orders, Books(p, l, orders), NEW order \in Order, order.id \in DOMAIN orders,
         NEW c, SignedChange(c), l.wallets[c.appleId].balance + c.amount >= 0, NEW form \in Int
  PROVE  Shifts(p, l, MoveFor(l, order, c, form), orders, order.id, c.appleId, c.amount)
<1>. DEFINE d == Detail(c.kind, form, order.id, 0)
            k == PushMovement(l, c.appleId, c.amount, d)
<1>1. order.id \in Nat \ {0} /\ c.kind \in {"charge", "reversal"} /\ c.appleId \in AppleIds /\ c.amount \in Int
  BY OrderNumbers DEF SignedChange, ChangeTyped
<1>2. d \in Details /\ d.kind = c.kind /\ d.order = order.id
  BY <1>1, DetailTyped, DetailFields
<1>3. MoveFor(l, order, c, form) = k
  BY DEF MoveFor
<1>. HIDE DEF d
<1>4. LedgerTyped(l)
  BY DEF Books
<1>5. PICK e : Grown(l, k, c.appleId, e) /\ e.amount = c.amount /\ e.kind = d.kind /\ e.order = d.order
  BY <1>1, <1>2, <1>4, PushGrows
<1>. HIDE DEF k
<1>6. SignedAs(e, orders)
  BY <1>2, <1>5 DEF SignedAs, SignedChange
<1>7. e.after >= 0
  BY <1>5 DEF Grown
<1>8. Books(p, k, orders)
  BY <1>1, <1>2, <1>5, <1>6, <1>7, GrownBooks
<1>9. /\ k.allocations = l.allocations /\ k.refunds = l.refunds
      /\ \A j \in AppleIds : j # c.appleId => k.wallets[j] = l.wallets[j]
  BY <1>5 DEF Grown
<1>10. ASSUME NEW j, NEW q
       PROVE  /\ Debit(l, j, q) \in Int
              /\ Debit(k, j, q) = Debit(l, j, q) + IF j = c.appleId /\ q = order.id THEN c.amount ELSE 0
  BY <1>5, GrownDebits, <1>1, <1>2 DEF Debit
<1>11. Shifts(p, l, k, orders, order.id, c.appleId, c.amount)
  BY <1>8, <1>9, <1>10 DEF Shifts
<1>. QED
  BY <1>3, <1>11

(* Nothing came back of a charge, or is to, when there is nothing held; nor *)
(* of one there is not.                                                     *)
LEMMA PendingAll ==
  ASSUME NEW l, 0 \notin DOMAIN l.refunds, NEW o
  PROVE  PendingTotal(l, o, 0) = SumOf(l.refunds, RefundsOf(l, o, "pending"))
BY DEF RefundsOf, PendingTotal

LEMMA RefundsCount ==
  ASSUME NEW l, LedgerTyped(l), NEW orders, RefundsMatch(l, orders), NEW o, NEW status \in {"pending", "received"}
  PROVE  /\ SumOf(l.refunds, RefundsOf(l, o, status)) \in Int
         /\ SumOf(l.refunds, RefundsOf(l, o, status)) >= 0
         /\ SumOf(l.refunds, RefundsOf(l, o, status)) = 0 => RefundsOf(l, o, status) = {}
<1>. DEFINE S == RefundsOf(l, o, status)
            f == Amounts(l.refunds)
<1>1. S \subseteq DOMAIN l.refunds
  BY DEF RefundsOf
<1>2. IsFiniteSet(S) /\ IntOn(f, S)
  BY <1>1, RefundsFinite
<1>3. PositiveOn(f, S)
  BY DEF RefundsOf, RefundsMatch, Amounts, PositiveOn
<1>. HIDE DEF S, f
<1>4. SumFunctionOnSet(f, S) \in Int
  BY <1>2, SumInt
<1>5. SumFunctionOnSet(f, S) >= 0 /\ (SumFunctionOnSet(f, S) = 0 => S = {})
  BY <1>2, <1>3, SumPositive
<1>. QED
  BY <1>4, <1>5 DEF SumOf, f, S

NoneOpen(l, o) == RefundsOf(l, o, "pending") = {} /\ RefundsOf(l, o, "received") = {}

LEMMA NothingHeld ==
  ASSUME NEW l, LedgerTyped(l), 0 \notin DOMAIN l.refunds, NEW orders, Belongs(l, orders),
         NEW o \in DOMAIN l.allocations, AllocationOf(l, o).returned + PendingTotal(l, o, 0) = 0
  PROVE  AllocationOf(l, o).returned = 0 /\ NoneOpen(l, o)
<1>. DEFINE a == SumOf(l.refunds, RefundsOf(l, o, "received"))
            b == SumOf(l.refunds, RefundsOf(l, o, "pending"))
<1>1. AllocationOf(l, o).returned = a
  BY DEF Belongs, AllocationsMatch, AllocationOf
<1>2. PendingTotal(l, o, 0) = b
  BY PendingAll
<1>3. a \in Int /\ a >= 0 /\ (a = 0 => RefundsOf(l, o, "received") = {})
  BY RefundsCount DEF Belongs
<1>4. b \in Int /\ b >= 0 /\ (b = 0 => RefundsOf(l, o, "pending") = {})
  BY RefundsCount DEF Belongs
<1>. HIDE DEF a, b
<1>5. a = 0 /\ b = 0
  BY <1>1, <1>2, <1>3, <1>4
<1>. QED
  BY <1>1, <1>3, <1>4, <1>5 DEF NoneOpen

LEMMA NothingOpen ==
  ASSUME NEW l, LedgerTyped(l), NEW orders, Belongs(l, orders), NEW o, o \notin DOMAIN l.allocations
  PROVE  NoneOpen(l, o)
BY RefundFields, AllocationFields DEF Belongs, RefundsMatch, NoneOpen, RefundsOf

(* What an order is charged for, as far as the movements go. *)
Due(l, o, id) == IF AllocationOf(l, o).appleId = id THEN AllocationOf(l, o).amount ELSE 0

LEMMA DebitBefore ==
  ASSUME NEW l, NEW orders, Books(l, l, orders), Belongs(l, orders), NEW o \in Nat \ {0}, NEW id \in AppleIds
  PROVE  Debit(l, id, o) = 0 - Due(l, o, id)
<1>0. LedgerTyped(l)
  BY DEF Books
<1>1. CASE o \in DOMAIN orders
  BY <1>1, <1>0, MovementsFinite, FS_Subset, SumInt DEF Belongs, Debited, Debit, Due, Debits,
     MovesOf, IntOn, SumOf
<1>2. CASE o \notin DOMAIN orders
  <2>1. Debits(l, id, o) = {}
    BY <1>2 DEF Debits, MovesOf, Books, Signed, SignedAs
  <2>2. Debit(l, id, o) = 0
    BY <2>1, SumOfNone DEF Debit, SumOf
  <2>3. o \notin DOMAIN l.allocations
    BY <1>2 DEF Belongs, AllocationsMatch
  <2>4. AllocationOf(l, o).amount = 0
    BY <2>3, NoAllocationFields DEF AllocationOf
  <2>5. Due(l, o, id) = 0
    BY <2>4 DEF Due
  <2>. QED
    BY <2>2, <2>5
<1>. QED
  BY <1>1, <1>2

-----------------------------------------------------------------------------
(* What an order's new payment asks of the ledger. *)

Prior(l, row) == AllocationOf(l, row.id)

(* Four cases: nothing to move; the money moves to another Apple ID; there  *)
(* is more or less to charge; all of it comes back.                         *)
Unmoved(l, row) ==
  /\ Changes(l, row) = << >>
  /\ Charged(row) => Prior(l, row).appleId = row.appleId /\ Prior(l, row).amount = row.paid
  /\ ~Charged(row) => row.id \notin DOMAIN l.allocations /\ Prior(l, row).amount = 0

MovesOver(l, row) ==
  /\ row.id \in DOMAIN l.allocations /\ Charged(row) /\ Prior(l, row).appleId # row.appleId
  /\ Prior(l, row).amount > 0 /\ Prior(l, row).returned = 0 /\ NoneOpen(l, row.id)
  /\ Changes(l, row) = <<Change(Prior(l, row).appleId, Prior(l, row).amount), Change(row.appleId, -row.paid)>>

ChargesMore(l, row) ==
  /\ Charged(row) /\ row.paid # Prior(l, row).amount
  /\ Prior(l, row).appleId = row.appleId \/ (row.id \notin DOMAIN l.allocations /\ Prior(l, row).amount = 0)
  /\ Changes(l, row) = <<Change(row.appleId, Prior(l, row).amount - row.paid)>>

ComesBack(l, row) ==
  /\ row.id \in DOMAIN l.allocations /\ ~Charged(row)
  /\ Prior(l, row).amount > 0 /\ Prior(l, row).returned = 0 /\ NoneOpen(l, row.id)
  /\ Changes(l, row) = <<Change(Prior(l, row).appleId, Prior(l, row).amount)>>

(* charging, taken apart into these cases. *)
LEMMA ChargeCases ==
  ASSUME NEW l, LedgerTyped(l), 0 \notin DOMAIN l.refunds, NEW orders, Belongs(l, orders),
         NEW row \in Order, NEW reversal, MayCharge(l, row, reversal)
  PROVE  Unmoved(l, row) \/ MovesOver(l, row) \/ ChargesMore(l, row) \/ ComesBack(l, row)
<1>. DEFINE prior == Prior(l, row)
            had == row.id \in DOMAIN l.allocations
            moved == had /\ Charged(row) /\ prior.appleId # row.appleId
            more == row.paid - prior.amount
            changes == Changes(l, row)
            held == prior.returned + PendingTotal(l, row.id, 0)
<1>1. /\ prior.amount \in Int /\ prior.returned \in Int /\ row.paid \in Int
      /\ Charged(row) => row.appleId \in AppleIds
      /\ prior.appleId \in AppleIds => had
  BY AllocationFields, OrderNumbers, OrderPayer DEF Prior
<1>2. changes = IF moved THEN <<Change(prior.appleId, Net(prior)), Change(row.appleId, -row.paid)>>
                ELSE IF Charged(row) /\ more # 0 THEN <<Change(row.appleId, -more)>>
                ELSE IF had /\ ~Charged(row) /\ Net(prior) > 0 THEN <<Change(prior.appleId, Net(prior))>>
                ELSE << >>
  BY DEF Changes, Prior
<1>3. had => prior.amount > 0
  BY DEF Belongs, AllocationsMatch, Prior, AllocationOf, Charged
<1>4. ~had => prior.amount = 0
  BY NoAllocationFields DEF Prior, AllocationOf
<1>5. had => IF Charged(row) /\ prior.appleId = row.appleId THEN row.paid >= held ELSE held = 0
  BY DEF MayCharge, Prior
<1>6. had /\ held = 0 => prior.returned = 0 /\ NoneOpen(l, row.id)
  BY NothingHeld DEF Prior
<1>7. Net(prior) = prior.amount - prior.returned
  BY DEF Net
<1>. DEFINE net == Net(prior)
<1>8. CASE moved
  BY <1>3, <1>5, <1>6, <1>8, <1>1, <1>7, <1>2 DEF MovesOver
<1>9. CASE ~moved /\ Charged(row) /\ more # 0
  BY <1>2, <1>9, <1>1, <1>4 DEF ChargesMore
<1>10. CASE ~moved /\ Charged(row) /\ more = 0
  BY <1>2, <1>10, <1>1, <1>4 DEF Charged, Unmoved
<1>11. CASE ~Charged(row) /\ had
  BY <1>3, <1>5, <1>6, <1>11, <1>1, <1>7, <1>2 DEF ComesBack
<1>12. CASE ~Charged(row) /\ ~had
  BY <1>2, <1>12, <1>4 DEF Unmoved
<1>. QED
  BY <1>8, <1>9, <1>10, <1>11, <1>12

(* What the preview covers. *)
LEMMA CoveredOne ==
  ASSUME NEW l, NEW c, ChangeTyped(c), Covered(l, <<c>>)
  PROVE  l.wallets[c.appleId].balance + c.amount >= 0
<1>. DEFINE changes == <<c>>
            upTo == {i \in 1..1 : changes[i].appleId = c.appleId}
<1>1. c.appleId \in AppleIds /\ c.amount \in Int
  BY DEF ChangeTyped
<1>2. DOMAIN changes = {1} /\ changes[1] = c
  OBVIOUS
<1>3. upTo = {1}
  BY <1>2
<1>4. l.wallets[c.appleId].balance + SumOf(changes, upTo) >= 0
  BY <1>1, <1>2 DEF Covered
<1>. HIDE DEF changes, upTo
<1>5. Amounts(changes)[1] = c.amount
  BY <1>2 DEF Amounts
<1>6. SumOf(changes, upTo) = c.amount
  BY <1>1, <1>3, <1>5, SumOne DEF SumOf
<1>. QED
  BY <1>4, <1>6

LEMMA CoveredTwo ==
  ASSUME NEW l, NEW c, NEW d, ChangeTyped(c), ChangeTyped(d), c.appleId # d.appleId, Covered(l, <<c, d>>)
  PROVE  /\ l.wallets[c.appleId].balance + c.amount >= 0
         /\ l.wallets[d.appleId].balance + d.amount >= 0
<1>. DEFINE changes == <<c, d>>
            first == {i \in 1..1 : changes[i].appleId = c.appleId}
            second == {i \in 1..2 : changes[i].appleId = d.appleId}
<1>1. c.appleId \in AppleIds /\ c.amount \in Int /\ d.appleId \in AppleIds /\ d.amount \in Int
  BY DEF ChangeTyped
<1>2. DOMAIN changes = {1, 2} /\ changes[1] = c /\ changes[2] = d
  OBVIOUS
<1>3. first = {1} /\ second = {2}
  BY <1>2
<1>4. /\ l.wallets[c.appleId].balance + SumOf(changes, first) >= 0
      /\ l.wallets[d.appleId].balance + SumOf(changes, second) >= 0
  BY <1>1, <1>2 DEF Covered
<1>. HIDE DEF changes, first, second
<1>5. Amounts(changes)[1] = c.amount /\ Amounts(changes)[2] = d.amount
  BY <1>2 DEF Amounts
<1>6. SumOf(changes, first) = c.amount /\ SumOf(changes, second) = d.amount
  BY <1>1, <1>3, <1>5, SumOne DEF SumOf
<1>. QED
  BY <1>4, <1>6

LEMMA ChangeIs ==
  ASSUME NEW id \in AppleIds, NEW amount \in Int, amount # 0
  PROVE  SignedChange(Change(id, amount)) /\ Change(id, amount).appleId = id /\ Change(id, amount).amount = amount
BY DEF SignedChange, ChangeTyped, Change

(* The movements that follow, on the way to the new charge. *)
Paying(row, id) == IF Charged(row) /\ row.appleId = id THEN row.paid ELSE 0

Recharged(l, k, row, next) ==
  /\ Books(l, k, next) /\ k.allocations = l.allocations /\ k.refunds = l.refunds
  /\ \A id \in AppleIds : \A q : q # row.id => Debit(k, id, q) = Debit(l, id, q)
  /\ \A id \in AppleIds : Debit(k, id, row.id) = 0 - Paying(row, id)

LEMMA OneMoveRight ==
  ASSUME NEW l, NEW k, NEW row \in Order, NEW next, NEW j \in AppleIds, NEW amount \in Int,
         Shifts(l, l, k, next, row.id, j, amount),
         \A id \in AppleIds : /\ Debit(l, id, row.id) = 0 - Due(l, row.id, id)
                              /\ Due(l, row.id, id) \in Int /\ Paying(row, id) \in Int
                              /\ Due(l, row.id, id) = Paying(row, id) + IF id = j THEN amount ELSE 0
  PROVE  Recharged(l, k, row, next)
BY DEF Shifts, Recharged

TwoDue(l, row, i, amount, j, other) ==
  \A id \in AppleIds : /\ Debit(l, id, row.id) = 0 - Due(l, row.id, id)
                       /\ Due(l, row.id, id) \in Int /\ Paying(row, id) \in Int
                       /\ Due(l, row.id, id) = Paying(row, id) + (IF id = i THEN amount ELSE 0)
                                                 + (IF id = j THEN other ELSE 0)

LEMMA TwoMovesRight ==
  ASSUME NEW l, NEW h, NEW k, NEW row \in Order, NEW next, NEW i \in AppleIds, NEW j \in AppleIds, i # j,
         NEW amount \in Int, NEW other \in Int,
         Shifts(l, l, h, next, row.id, i, amount), Shifts(l, h, k, next, row.id, j, other),
         TwoDue(l, row, i, amount, j, other)
  PROVE  Recharged(l, k, row, next)
BY DEF Shifts, TwoDue, Recharged

(* In each case the order is charged what it says, on its Apple ID. *)
LEMMA MovedRight ==
  ASSUME NEW l, LedgerTyped(l), 0 \notin DOMAIN l.refunds,
         NEW orders, Books(l, l, orders), Belongs(l, orders),
         NEW next, Books(l, l, next), NEW row \in Order, row.id \in DOMAIN next,
         NEW reversal, PreviewOrder(l, row, reversal), NEW form \in Int
  PROVE  Recharged(l, Moved(l, row, Changes(l, row), form), row, next)
<1>. DEFINE t == row.id
            pid == Prior(l, row).appleId
            amount == Prior(l, row).amount
            changes == Changes(l, row)
            k == Moved(l, row, changes, form)
<1>1. MayCharge(l, row, reversal) /\ Covered(l, changes)
  BY DEF PreviewOrder
<1>2. /\ amount \in Int /\ row.paid \in Int /\ (Charged(row) => row.appleId \in AppleIds /\ row.paid > 0)
      /\ t \in DOMAIN l.allocations => pid \in AppleIds
      /\ t \in Nat \ {0}
  BY AllocationFields, OrderNumbers, OrderPayer DEF Prior, Charged
<1>3. \A id \in AppleIds : Debit(l, id, t) = 0 - Due(l, t, id)
  BY <1>2, DebitBefore
<1>4. \A id \in AppleIds : /\ Due(l, t, id) = (IF pid = id THEN amount ELSE 0) /\ Due(l, t, id) \in Int
                           /\ Paying(row, id) \in Int
  BY <1>2 DEF Due, Paying, Prior
<1>5. Unmoved(l, row) \/ MovesOver(l, row) \/ ChargesMore(l, row) \/ ComesBack(l, row)
  BY <1>1, ChargeCases
<1>6. \A c : Moved(l, row, <<c>>, form) = MoveFor(l, row, c, form)
  BY DEF Moved
<1>7. \A c, d : Moved(l, row, <<c, d>>, form) = MoveFor(MoveFor(l, row, c, form), row, d, form)
  BY DEF Moved
<1>8. CASE Unmoved(l, row)
  BY <1>8, <1>4, <1>3 DEF Unmoved, Moved, pid, amount, Paying, Recharged
<1>9. CASE ChargesMore(l, row)
  <2>. DEFINE step == amount - row.paid
              c == Change(row.appleId, step)
              is == MoveFor(l, row, c, form)
  <2>1. Charged(row) /\ row.appleId \in AppleIds /\ step \in Int /\ step # 0
    BY <1>2, <1>9 DEF ChargesMore
  <2>2. changes = <<c>>
    BY <1>9 DEF ChargesMore
  <2>3. k = is
    BY <1>6, <2>2
  <2>4. SignedChange(c) /\ c.appleId = row.appleId /\ c.amount = step
    BY <2>1, ChangeIs
  <2>. HIDE DEF c, changes
  <2>5. l.wallets[c.appleId].balance + c.amount >= 0
    BY <2>4, <1>1, <2>2, CoveredOne DEF SignedChange
  <2>6. Shifts(l, l, is, next, t, c.appleId, c.amount)
    BY <2>4, <2>5, MoveShifts
  <2>. HIDE DEF is, k
  <2>7. \A id \in AppleIds : Due(l, t, id) = Paying(row, id) + IF id = row.appleId THEN step ELSE 0
    BY <1>9, <1>2, <1>4, <2>1 DEF ChargesMore, Paying
  <2>8. Shifts(l, l, is, next, t, row.appleId, step)
    BY <2>4, <2>6
  <2>. HIDE DEF step
  <2>9. Recharged(l, is, row, next)
    BY <1>3, <1>4, <2>1, <2>7, <2>8, OneMoveRight
  <2>. QED
    BY <2>3, <2>9 DEF k, changes
<1>10. CASE ComesBack(l, row)
  <2>. DEFINE c == Change(pid, amount)
              is == MoveFor(l, row, c, form)
  <2>1. ~Charged(row) /\ pid \in AppleIds /\ amount > 0
    BY <1>2, <1>10 DEF ComesBack
  <2>2. changes = <<c>>
    BY <1>10 DEF ComesBack
  <2>3. k = is
    BY <1>6, <2>2
  <2>4. SignedChange(c) /\ c.appleId = pid /\ c.amount = amount
    BY <1>2, <2>1, ChangeIs
  <2>. HIDE DEF c, changes
  <2>5. l.wallets[c.appleId].balance + c.amount >= 0
    BY <2>4, <1>1, <2>2, CoveredOne DEF SignedChange
  <2>6. Shifts(l, l, is, next, t, c.appleId, c.amount)
    BY <2>4, <2>5, MoveShifts
  <2>. HIDE DEF is, k
  <2>7. \A id \in AppleIds : Due(l, t, id) = Paying(row, id) + IF id = pid THEN amount ELSE 0
    BY <1>2, <1>4, <2>1 DEF Paying
  <2>8. Shifts(l, l, is, next, t, pid, amount)
    BY <2>4, <2>6
  <2>. HIDE DEF pid, amount
  <2>9. Recharged(l, is, row, next)
    BY <1>2, <1>3, <1>4, <2>1, <2>7, <2>8, OneMoveRight
  <2>. QED
    BY <2>3, <2>9 DEF k, changes
<1>11. CASE MovesOver(l, row)
  <2>. DEFINE minus == -row.paid
              c == Change(pid, amount)
              d == Change(row.appleId, minus)
              h == MoveFor(l, row, c, form)
              is == MoveFor(h, row, d, form)
  <2>1. Charged(row) /\ pid \in AppleIds /\ amount > 0 /\ row.appleId \in AppleIds /\ pid # row.appleId
    BY <1>2, <1>11 DEF MovesOver
  <2>2. changes = <<c, d>>
    BY <1>11 DEF MovesOver
  <2>3. k = is
    BY <1>7, <2>2
  <2>4. SignedChange(c) /\ c.appleId = pid /\ c.amount = amount
    BY <1>2, <2>1, ChangeIs
  <2>5. SignedChange(d) /\ d.appleId = row.appleId /\ d.amount = minus /\ minus \in Int
    BY <1>2, <2>1, ChangeIs
  <2>. HIDE DEF c, d, changes
  <2>6. /\ l.wallets[c.appleId].balance + c.amount >= 0
        /\ l.wallets[d.appleId].balance + d.amount >= 0
    BY <2>1, <2>4, <2>5, <1>1, <2>2, CoveredTwo DEF SignedChange
  <2>7. Shifts(l, l, h, next, t, c.appleId, c.amount)
    BY <2>4, <2>6, MoveShifts
  <2>. HIDE DEF h
  <2>8. Books(l, h, next) /\ h.wallets[d.appleId] = l.wallets[d.appleId]
    BY <2>1, <2>4, <2>5, <2>7 DEF Shifts
  <2>9. Shifts(l, h, is, next, t, d.appleId, d.amount)
    BY <2>5, <2>6, <2>8, MoveShifts
  <2>. HIDE DEF is, k
  <2>10. \A id \in AppleIds : Due(l, t, id) = Paying(row, id) + (IF id = pid THEN amount ELSE 0)
                                               + (IF id = row.appleId THEN minus ELSE 0)
    BY <1>2, <1>4, <2>1 DEF Paying
  <2>11. Shifts(l, l, h, next, t, pid, amount) /\ Shifts(l, h, is, next, t, row.appleId, minus)
    BY <2>4, <2>5, <2>7, <2>9
  <2>. HIDE DEF pid, amount, minus
  <2>12. TwoDue(l, row, pid, amount, row.appleId, minus)
    BY <1>3, <1>4, <2>10 DEF TwoDue
  <2>13. Recharged(l, is, row, next)
    BY <1>2, <2>1, <2>5, <2>11, <2>12, TwoMovesRight
  <2>. QED
    BY <2>3, <2>13 DEF k, changes
<1>. QED
  BY <1>5, <1>8, <1>9, <1>10, <1>11

-----------------------------------------------------------------------------
(* What the ledger has for the orders then. *)

SamePayment(a, b) == a.payment = b.payment /\ a.appleId = b.appleId /\ a.paid = b.paid

(* The orders, with one that is paid as `row` is. *)
Repays(orders, next, row) ==
  /\ DOMAIN next = DOMAIN orders \cup {row.id}
  /\ \A o \in DOMAIN orders : next[o].refunds = orders[o].refunds /\ (o # row.id => SamePayment(next[o], orders[o]))
  /\ row.id \notin DOMAIN orders => next[row.id].refunds = << >>
  /\ SamePayment(next[row.id], row)

Settled(l, k, is, row) ==
  /\ LedgerTyped(is)
  /\ is.wallets = k.wallets /\ is.movements = k.movements /\ is.refunds = k.refunds
  /\ \A o \in DOMAIN is.allocations : o = row.id \/ o \in DOMAIN l.allocations
  /\ \A o \in DOMAIN l.allocations : o = row.id \/ o \in DOMAIN is.allocations
  /\ \A o : o # row.id => AllocationOf(is, o) = AllocationOf(l, o)
  /\ row.id \in DOMAIN is.allocations <=> Charged(row)
  /\ Charged(row) =>
       /\ AllocationOf(is, row.id).appleId = row.appleId /\ AllocationOf(is, row.id).amount = row.paid
       /\ AllocationOf(is, row.id).returned =
            IF Prior(l, row).appleId # row.appleId THEN 0 ELSE Prior(l, row).returned
  /\ ~Charged(row) => AllocationOf(is, row.id).amount = 0

(* commitAllocation leaves the order charged for what it paid. *)
LEMMA CommitSettles ==
  ASSUME NEW l, LedgerTyped(l), NEW row \in Order, NEW reversal, NEW form \in Int, PreviewOrder(l, row, reversal)
  PROVE  Settled(l, Moved(l, row, Changes(l, row), form), CommitOrder(l, row, reversal, form).ledger, row)
<1>. DEFINE k == Moved(l, row, Changes(l, row), form)
            a == NextAllocations(l, row)
            is == [k EXCEPT !.allocations = a]
            t == row.id
            rest == Restrict(l.allocations, DOMAIN l.allocations \ {t})
            one == NextAllocation(l, row)
<1>1. LedgerTyped(k)
  <2>1. row.id \in Nat \ {0}
    BY OrderNumbers
  <2>. DEFINE changes == Changes(l, row)
  <2>2. /\ \A n \in 1..Len(changes) : ChangeTyped(changes[n])
        /\ changes = << >> \/ Len(changes) = 1 \/ Len(changes) = 2
    BY ChangesTyped
  <2>. HIDE DEF changes
  <2>. QED
    BY <2>1, <2>2, MovedTyped DEF changes
<1>2. CommitOrder(l, row, reversal, form).ledger = is
  BY DEF CommitOrder, Done
<1>3. LedgerTyped(CommitOrder(l, row, reversal, form).ledger)
  BY CommitTyped
<1>4. LedgerTyped(is)
  BY <1>2, <1>3
<1>5. DOMAIN rest = DOMAIN l.allocations \ {t} /\ \A o \in DOMAIN rest : rest[o] = l.allocations[o]
  BY DEF Restrict
<1>6. a = IF Charged(row) THEN With(rest, t, one) ELSE rest
  BY DEF NextAllocations
<1>7. /\ one.appleId = row.appleId /\ one.amount = row.paid
      /\ one.returned = IF Prior(l, row).appleId # row.appleId THEN 0 ELSE Prior(l, row).returned
  BY DEF NextAllocation, Prior
<1>. HIDE DEF k, a, rest, one
<1>8. is = Ledger(k.version, k.wallets, a, k.movements, k.refunds)
  BY <1>1, LedgerWith, LedgerParts
<1>. HIDE DEF is
<1>9. is.wallets = k.wallets /\ is.movements = k.movements /\ is.refunds = k.refunds /\ is.allocations = a
  BY <1>8, LedgerFields
<1>10. DOMAIN a = (DOMAIN l.allocations \ {t}) \cup (IF Charged(row) THEN {t} ELSE {})
  BY <1>5, <1>6, WithDomain
<1>11. \A o \in DOMAIN l.allocations : o # t => a[o] = l.allocations[o]
  BY <1>6, WithElse, <1>5
<1>12. Charged(row) => a[t] = one
  BY <1>6, WithAt
<1>13. \A o : o # t => AllocationOf(is, o) = AllocationOf(l, o)
  BY <1>9, <1>10, <1>11 DEF AllocationOf
<1>14. Charged(row) => AllocationOf(is, t) = one
  BY <1>9, <1>10, <1>12 DEF AllocationOf
<1>15. ~Charged(row) => AllocationOf(is, t).amount = 0
  BY <1>9, <1>10, NoAllocationFields DEF AllocationOf
<1>16. /\ \A o \in DOMAIN is.allocations : o = t \/ o \in DOMAIN l.allocations
       /\ \A o \in DOMAIN l.allocations : o = t \/ o \in DOMAIN is.allocations
       /\ t \in DOMAIN is.allocations <=> Charged(row)
  BY <1>9, <1>10
<1>17. Settled(l, k, is, row)
  BY <1>4, <1>7, <1>9, <1>13, <1>14, <1>15, <1>16 DEF Settled
<1>. QED
  BY <1>2, <1>17 DEF k

(* The amounts a charge is about, in every case. *)
LEMMA ChargeHolds ==
  ASSUME NEW l, LedgerTyped(l), 0 \notin DOMAIN l.refunds, NEW orders, Belongs(l, orders),
         NEW row \in Order, NEW reversal, MayCharge(l, row, reversal), NEW k, NEW is, Settled(l, k, is, row)
  PROVE  LET o == row.id
             back == SumOf(l.refunds, RefundsOf(l, o, "received"))
             open == SumOf(l.refunds, RefundsOf(l, o, "pending"))
         IN  /\ Charged(row) => AllocationOf(is, o).returned = back /\ back + open <= row.paid
             /\ \A r \in DOMAIN l.refunds :
                  l.refunds[r].order = o /\ l.refunds[r].status # "none" =>
                    AllocationOf(is, o).appleId = l.refunds[r].appleId
<1>. DEFINE o == row.id
            back == SumOf(l.refunds, RefundsOf(l, o, "received"))
            open == SumOf(l.refunds, RefundsOf(l, o, "pending"))
            same == o \in DOMAIN l.allocations /\ Charged(row) /\ Prior(l, row).appleId = row.appleId
<1>1. CASE same
  <2>1. Prior(l, row).returned = back
    BY <1>1 DEF Belongs, AllocationsMatch, Prior, AllocationOf
  <2>2. row.paid >= Prior(l, row).returned + PendingTotal(l, o, 0)
    BY <1>1 DEF MayCharge, Prior
  <2>3. PendingTotal(l, o, 0) = open
    BY PendingAll
  <2>4. back \in Int /\ open \in Int /\ row.paid \in Int
    BY RefundsCount, OrderNumbers DEF Belongs
  <2>5. AllocationOf(is, o).returned = back /\ AllocationOf(is, o).appleId = Prior(l, row).appleId
    BY <1>1, <2>1 DEF Settled
  <2>6. back + open <= row.paid
    BY <2>1, <2>2, <2>3, <2>4
  <2>7. \A r \in DOMAIN l.refunds :
          l.refunds[r].order = o /\ l.refunds[r].status # "none" => Prior(l, row).appleId = l.refunds[r].appleId
    BY DEF Belongs, RefundsMatch, Prior
  <2>. QED
    BY <2>5, <2>6, <2>7
<1>2. CASE ~same
  <2>1. NoneOpen(l, o)
    BY NothingOpen, <1>2, NothingHeld DEF MayCharge, Prior
  <2>2. back = 0 /\ open = 0
    BY <2>1, SumOfNone DEF NoneOpen, SumOf
  <2>3. Charged(row) => AllocationOf(is, o).returned = 0
    <3>1. CASE o \in DOMAIN l.allocations
      BY <1>2, <3>1 DEF Settled
    <3>2. CASE o \notin DOMAIN l.allocations
      <4>1. Prior(l, row).returned = 0
        BY <3>2, NoAllocationFields DEF Prior, AllocationOf
      <4>. QED
        BY <4>1 DEF Settled
    <3>. QED
      BY <3>1, <3>2
  <2>4. \A r \in DOMAIN l.refunds : ~(l.refunds[r].order = o /\ l.refunds[r].status # "none")
    BY <2>1 DEF LedgerTyped, Refund, NoneOpen, RefundsOf
  <2>5. Charged(row) => row.paid \in Int /\ 0 + 0 <= row.paid
    BY OrderNumbers DEF Charged
  <2>. HIDE DEF back, open
  <2>6. Charged(row) => AllocationOf(is, o).returned = back /\ back + open <= row.paid
    BY <2>2, <2>3, <2>5
  <2>. QED
    BY <2>4, <2>6 DEF back, open
<1>. QED
  BY <1>1, <1>2

LEMMA ChargedAlike ==
  ASSUME NEW a, NEW b, SamePayment(a, b)
  PROVE  Charged(a) <=> Charged(b)
BY DEF SamePayment, Charged

LEMMA SettledDebits ==
  ASSUME NEW l, LedgerTyped(l), NEW orders, Belongs(l, orders),
         NEW row \in Order, NEW k, NEW is, Settled(l, k, is, row),
         NEW next, Repays(orders, next, row), Recharged(l, k, row, next)
  PROVE  Debited(is, next)
<1>1. ASSUME NEW o \in DOMAIN next, NEW id \in AppleIds
      PROVE  -SumOf(is.movements, Debits(is, id, o)) =
                IF AllocationOf(is, o).appleId = id THEN AllocationOf(is, o).amount ELSE 0
  <2>1. SumOf(is.movements, Debits(is, id, o)) = Debit(k, id, o)
    BY DEF Debit, Settled, Debits, MovesOf
  <2>2. CASE o # row.id
    BY <2>2, <2>1 DEF Repays, Recharged, Settled, Belongs, Debited, Debit
  <2>3. CASE o = row.id
    <3>. DEFINE now == IF AllocationOf(is, o).appleId = id THEN AllocationOf(is, o).amount ELSE 0
    <3>1. Debit(k, id, o) = 0 - Paying(row, id)
      BY <2>3 DEF Recharged
    <3>2. now = Paying(row, id)
      BY <2>3 DEF Settled, Paying
    <3>3. Paying(row, id) \in Int
      BY OrderNumbers DEF Paying
    <3>4. \A x \in Int : -(0 - x) = x
      OBVIOUS
    <3>. HIDE DEF now
    <3>5. -Debit(k, id, o) = now
      BY <3>1, <3>2, <3>3, <3>4, Zenon
    <3>. QED
      BY <2>1, <3>5 DEF now
  <2>. QED
    BY <2>2, <2>3
<1>. QED
  BY <1>1 DEF Debited

(* The ledger belongs to the orders with the one just charged. *)
LEMMA SettledBelongs ==
  ASSUME NEW l, LedgerTyped(l), 0 \notin DOMAIN l.refunds, NEW orders, Belongs(l, orders),
         NEW row \in Order, NEW reversal, MayCharge(l, row, reversal),
         NEW k, NEW is, Settled(l, k, is, row), is.refunds = l.refunds,
         NEW next, Repays(orders, next, row), Recharged(l, k, row, next)
  PROVE  Belongs(is, next)
<1>. DEFINE t == row.id
<1>1. \A o, status : RefundsOf(is, o, status) = RefundsOf(l, o, status)
  BY DEF RefundsOf
<1>2. \A o \in DOMAIN orders : next[o].refunds = orders[o].refunds
  BY DEF Repays
<1>3. /\ Charged(row) => /\ AllocationOf(is, t).returned = SumOf(l.refunds, RefundsOf(l, t, "received"))
                         /\ SumOf(l.refunds, RefundsOf(l, t, "received"))
                              + SumOf(l.refunds, RefundsOf(l, t, "pending")) <= row.paid
      /\ \A r \in DOMAIN l.refunds :
           l.refunds[r].order = t /\ l.refunds[r].status # "none" =>
             AllocationOf(is, t).appleId = l.refunds[r].appleId
  BY ChargeHolds
<1>4. Debited(is, next)
  BY SettledDebits
<1>5. RefundsMatch(is, next)
  <2>1. ASSUME NEW r \in DOMAIN l.refunds
        PROVE  LET refund == l.refunds[r] IN
                 /\ refund.order \in DOMAIN next
                 /\ \E n \in DOMAIN next[refund.order].refunds : next[refund.order].refunds[n].id = r
                 /\ IF refund.status = "none" THEN refund.amount = 0
                    ELSE refund.amount > 0 /\ AllocationOf(is, refund.order).appleId = refund.appleId
    <3>. DEFINE o == l.refunds[r].order
    <3>1. /\ o \in DOMAIN orders
          /\ \E n \in DOMAIN orders[o].refunds : orders[o].refunds[n].id = r
          /\ IF l.refunds[r].status = "none" THEN l.refunds[r].amount = 0
             ELSE l.refunds[r].amount > 0 /\ AllocationOf(l, o).appleId = l.refunds[r].appleId
      BY DEF Belongs, RefundsMatch
    <3>2. o \in DOMAIN next
      BY <3>1 DEF Repays
    <3>3. l.refunds[r].status # "none" => AllocationOf(is, o).appleId = l.refunds[r].appleId
      BY <1>3, <3>1 DEF Settled
    <3>. QED
      BY <1>2, <3>1, <3>2, <3>3
  <2>. QED
    BY <2>1 DEF RefundsMatch
<1>6. ASSUME NEW o \in DOMAIN is.allocations
      PROVE  LET allocation == is.allocations[o] IN
               /\ o \in DOMAIN next /\ Charged(next[o])
               /\ <<next[o].appleId, next[o].paid>> = <<allocation.appleId, allocation.amount>>
               /\ allocation.returned = SumOf(is.refunds, RefundsOf(is, o, "received"))
               /\ allocation.returned + SumOf(is.refunds, RefundsOf(is, o, "pending")) <= allocation.amount
  <2>1. is.allocations[o] = AllocationOf(is, o)
    BY DEF AllocationOf
  <2>2. CASE o = t
    BY <2>2, ChargedAlike, <1>1, <1>3, <2>1 DEF Settled, Repays, SamePayment
  <2>3. CASE o # t
    BY <2>3, ChargedAlike, <1>1, <2>1 DEF Settled, AllocationOf, Belongs, AllocationsMatch,
       Repays, SamePayment
  <2>. QED
    BY <2>2, <2>3
<1>7. ASSUME NEW o \in DOMAIN next
      PROVE  /\ Charged(next[o]) => o \in DOMAIN is.allocations
             /\ \A n \in DOMAIN next[o].refunds :
                  LET refund == next[o].refunds[n] IN
                    refund.payment = "apple" =>
                      refund.id \in DOMAIN is.refunds /\ is.refunds[refund.id].order = o
  <2>1. Charged(next[o]) => o \in DOMAIN is.allocations
    BY ChargedAlike DEF Settled, Repays, Belongs, AllocationsMatch
  <2>2. ASSUME NEW n \in DOMAIN next[o].refunds, next[o].refunds[n].payment = "apple"
        PROVE  next[o].refunds[n].id \in DOMAIN l.refunds /\ l.refunds[next[o].refunds[n].id].order = o
    BY <1>2, <2>2 DEF Belongs, AllocationsMatch, Repays
  <2>. QED
    BY <2>1, <2>2
<1>8. AllocationsMatch(is, next)
  BY <1>6, <1>7 DEF AllocationsMatch
<1>. QED
  BY <1>4, <1>5, <1>8 DEF Belongs

(* Books go with more orders, too. *)
LEMMA BooksOn ==
  ASSUME NEW p, NEW l, NEW orders, Books(p, l, orders), NEW next, DOMAIN orders \subseteq DOMAIN next
  PROVE  Books(p, l, next)
BY DEF Books, Signed, SignedAs

(* What committing an order makes of the ledger is what the server accepts. *)
LEMMA CommitKeeps ==
  ASSUME NEW l, LedgerTyped(l), 0 \notin DOMAIN l.refunds, NEW orders, LedgerSound(l, orders), SelfKept(l),
         NEW row \in Order, NEW next, Repays(orders, next, row),
         NEW reversal, NEW form \in Int, CommitOrder(l, row, reversal, form).ok
  PROVE  Keepable(l, CommitOrder(l, row, reversal, form).ledger, next)
<1>. DEFINE k == Moved(l, row, Changes(l, row), form)
            is == CommitOrder(l, row, reversal, form).ledger
<1>1. PreviewOrder(l, row, reversal) /\ MayCharge(l, row, reversal)
  BY DEF CommitOrder, Refused, PreviewOrder
<1>2. Settled(l, k, is, row)
  BY <1>1, CommitSettles
<1>3. is.refunds = l.refunds
  BY CommitTyped
<1>4. Books(l, l, orders) /\ Belongs(l, orders) /\ RefundsKept(l, l)
  BY SoundParted
<1>5. DOMAIN orders \subseteq DOMAIN next /\ row.id \in DOMAIN next
  BY DEF Repays
<1>6. Books(l, l, next)
  BY <1>4, <1>5, BooksOn
<1>7. Recharged(l, k, row, next)
  BY <1>1, <1>4, <1>5, <1>6, MovedRight
<1>. HIDE DEF k, is
<1>8. Belongs(is, next)
  BY <1>1, <1>2, <1>3, <1>4, <1>7, SettledBelongs
<1>9. Books(l, is, next)
  <2>1. LedgerTyped(is) /\ is.wallets = k.wallets /\ is.movements = k.movements /\ is.refunds = k.refunds
    BY <1>2 DEF Settled
  <2>2. Books(l, k, next)
    BY <1>7 DEF Recharged
  <2>3. MovementsAddUp(is)
    BY <2>1, <2>2 DEF Books, MovementsAddUp, MovesOn
  <2>4. Signed(is, next) /\ UndosMatch(is)
    BY <2>1, <2>2 DEF Books, Signed, UndosMatch, MovesOf
  <2>5. ReceiptsMatch(is)
    BY <2>1, <2>2 DEF Books, ReceiptsMatch, Receipts, MovesOf
  <2>6. MovesKept(l, is) /\ SelfKept(is)
    <3>1. \A n : Explained(k, n) <=> Explained(is, n)
      BY <2>1 DEF Explained
    <3>. QED
      BY <2>1, <2>2, <3>1 DEF Books, MovesKept, MovementKept, SelfKept
  <2>. QED
    BY <2>1, <2>3, <2>4, <2>5, <2>6 DEF Books
<1>10. RefundsKept(l, is)
  BY <1>3, <1>4 DEF RefundsKept
<1>11. Keepable(l, is, next)
  BY <1>8, <1>9, <1>10, KeepableParted
<1>. QED
  BY <1>11 DEF is

-----------------------------------------------------------------------------
(* Orders that are charged as they were: with the same ledger, and with one *)
(* refund more in it.                                                       *)

Follows(orders, next) ==
  /\ DOMAIN next = DOMAIN orders
  /\ \A o \in DOMAIN orders :
       /\ SamePayment(next[o], orders[o])
       /\ \A n \in DOMAIN orders[o].refunds :
            n \in DOMAIN next[o].refunds /\ next[o].refunds[n] = orders[o].refunds[n]

(* The refunds in the orders which Apple is asked about. *)
Asked(orders, next, t, id) ==
  \A o \in DOMAIN next : \A n \in DOMAIN next[o].refunds :
    next[o].refunds[n].payment = "apple" =>
      n \in DOMAIN orders[o].refunds \/ (o = t /\ next[o].refunds[n].id = id)

LEMMA FollowedDebits ==
  ASSUME NEW l, NEW is, is.movements = l.movements, is.allocations = l.allocations,
         NEW orders, Debited(l, orders), NEW next, Follows(orders, next)
  PROVE  Debited(is, next)
BY DEF Debits, MovesOf, AllocationOf, Follows, Debited

LEMMA FollowedRefunds ==
  ASSUME NEW l, NEW is, is.allocations = l.allocations, NEW orders, RefundsMatch(l, orders),
         NEW next, Follows(orders, next), NEW r \in DOMAIN l.refunds, is.refunds[r] = l.refunds[r]
  PROVE  LET refund == is.refunds[r] IN
           /\ refund.order \in DOMAIN next
           /\ \E n \in DOMAIN next[refund.order].refunds : next[refund.order].refunds[n].id = r
           /\ IF refund.status = "none" THEN refund.amount = 0
              ELSE refund.amount > 0 /\ AllocationOf(is, refund.order).appleId = refund.appleId
<1>. DEFINE o == l.refunds[r].order
<1>1. /\ o \in DOMAIN orders
      /\ \E n \in DOMAIN orders[o].refunds : orders[o].refunds[n].id = r
      /\ IF l.refunds[r].status = "none" THEN l.refunds[r].amount = 0
         ELSE l.refunds[r].amount > 0 /\ AllocationOf(l, o).appleId = l.refunds[r].appleId
  BY DEF RefundsMatch
<1>2. AllocationOf(is, o) = AllocationOf(l, o)
  BY DEF AllocationOf
<1>3. o \in DOMAIN next /\ \E n \in DOMAIN next[o].refunds : next[o].refunds[n].id = r
  BY <1>1 DEF Follows
<1>. QED
  BY <1>1, <1>2, <1>3

LEMMA FollowedCharges ==
  ASSUME NEW l, NEW is, is.allocations = l.allocations, NEW orders, AllocationsMatch(l, orders),
         NEW next, Follows(orders, next)
  PROVE  /\ \A o \in DOMAIN is.allocations :
              /\ o \in DOMAIN next /\ Charged(next[o])
              /\ <<next[o].appleId, next[o].paid>> = <<is.allocations[o].appleId, is.allocations[o].amount>>
         /\ \A o \in DOMAIN next : Charged(next[o]) => o \in DOMAIN is.allocations
BY ChargedAlike DEF Follows, SamePayment, AllocationsMatch

(* The ledger as it was. *)
LEMMA FollowedKeeps ==
  ASSUME NEW l, LedgerTyped(l), NEW orders, LedgerSound(l, orders), SelfKept(l),
         NEW next, Follows(orders, next),
         \A o \in DOMAIN next : \A n \in DOMAIN next[o].refunds :
           next[o].refunds[n].payment = "apple" => n \in DOMAIN orders[o].refunds
  PROVE  Keepable(l, l, next)
<1>1. Books(l, l, orders) /\ Belongs(l, orders) /\ RefundsKept(l, l)
  BY SoundParted
<1>2. DOMAIN next = DOMAIN orders
  BY DEF Follows
<1>3. Books(l, l, next)
  BY <1>1, <1>2, BooksOn
<1>4. Debited(l, next) /\ RefundsMatch(l, next)
  <2>1. Debited(l, next)
    BY <1>1, FollowedDebits DEF Belongs
  <2>2. RefundsMatch(l, next)
    BY <1>1, FollowedRefunds DEF Belongs, RefundsMatch
  <2>. QED
    BY <2>1, <2>2
<1>5. AllocationsMatch(l, next)
  <2>1. /\ \A o \in DOMAIN l.allocations :
             /\ o \in DOMAIN next /\ Charged(next[o])
             /\ <<next[o].appleId, next[o].paid>> = <<l.allocations[o].appleId, l.allocations[o].amount>>
        /\ \A o \in DOMAIN next : Charged(next[o]) => o \in DOMAIN l.allocations
    BY <1>1, FollowedCharges DEF Belongs
  <2>2. ASSUME NEW o \in DOMAIN next, NEW n \in DOMAIN next[o].refunds, next[o].refunds[n].payment = "apple"
        PROVE  next[o].refunds[n].id \in DOMAIN l.refunds /\ l.refunds[next[o].refunds[n].id].order = o
    BY <1>2, <2>2, <1>1 DEF Follows, Belongs, AllocationsMatch
  <2>3. \A o \in DOMAIN l.allocations :
          /\ l.allocations[o].returned = SumOf(l.refunds, RefundsOf(l, o, "received"))
          /\ l.allocations[o].returned + SumOf(l.refunds, RefundsOf(l, o, "pending")) <= l.allocations[o].amount
    BY <1>1 DEF Belongs, AllocationsMatch
  <2>. QED
    BY <2>1, <2>2, <2>3 DEF AllocationsMatch
<1>. QED
  BY <1>1, <1>3, <1>4, <1>5, KeepableParted DEF Belongs

(* A refund more in the ledger: Apple is to give back something, or nothing.*)
Prepares(l, is, r, t, appleId, amount) ==
  /\ Touches(l, is, r) /\ r \notin DOMAIN l.refunds
  /\ is.wallets = l.wallets /\ is.allocations = l.allocations /\ is.movements = l.movements
  /\ amount \in Int /\ amount >= 0
  /\ is.refunds[r].order = t /\ is.refunds[r].appleId = appleId /\ is.refunds[r].amount = amount
  /\ is.refunds[r].status = (IF amount > 0 THEN "pending" ELSE "none")
  /\ amount > 0 => AllocationOf(l, t).appleId = appleId
                   /\ PendingTotal(l, t, 0) + amount <= Net(AllocationOf(l, t))

IsWith(g, f, x, v) == DOMAIN g = DOMAIN f \cup {x} /\ g[x] = v /\ \A y \in DOMAIN f : y # x => g[y] = f[y]

LEMMA WithIs ==
  ASSUME NEW f, NEW x, NEW v
  PROVE  IsWith(With(f, x, v), f, x, v)
<1>1. DOMAIN With(f, x, v) = DOMAIN f \cup {x}
  BY WithDomain
<1>2. With(f, x, v)[x] = v
  BY WithAt
<1>3. \A y \in DOMAIN f : y # x => With(f, x, v)[y] = f[y]
  BY WithElse
<1>. QED
  BY <1>1, <1>2, <1>3 DEF IsWith

(* prepareRefunds, as an entry in the ledger. *)
LEMMA PrepareIs ==
  ASSUME NEW f, FormTyped(f), f.op = "refund", NEW l, LedgerTyped(l), f.id \notin DOMAIN l.refunds,
         NEW order \in Order, order.id = f.target, order.payment = "apple",
         PrepareRefund(l, order, f.id, f.back).ok
  PROVE  Prepares(l, PrepareRefund(l, order, f.id, f.back).ledger, f.id, f.target, order.appleId, f.back)
<1>. DEFINE entry == [order |-> order.id, appleId |-> order.appleId, amount |-> f.back, version |-> 1,
                      status |-> IF f.back > 0 THEN "pending" ELSE "none"]
            refunds == With(l.refunds, f.id, entry)
            is == [l EXCEPT !.refunds = refunds]
<1>1. f.back \in Int /\ f.back >= 0
  BY FormFields DEF FormTyped, AmountsFit
<1>2. /\ PrepareRefund(l, order, f.id, f.back) = Done(is)
      /\ f.back > 0 => AllocationOf(l, order.id).appleId = order.appleId
      /\ ~(f.back > 0 /\ PendingTotal(l, order.id, 0) + f.back > Net(AllocationOf(l, order.id)))
  BY DEF PrepareRefund, Refused
<1>3. /\ entry.order = f.target /\ entry.appleId = order.appleId /\ entry.amount = f.back
      /\ entry.status = (IF f.back > 0 THEN "pending" ELSE "none")
  OBVIOUS
<1>. HIDE DEF entry
<1>0. IsWith(refunds, l.refunds, f.id, entry)
  BY WithIs
<1>. HIDE DEF refunds
<1>4. /\ DOMAIN refunds = DOMAIN l.refunds \cup {f.id} /\ refunds[f.id] = entry
      /\ \A q \in DOMAIN l.refunds : q # f.id => refunds[q] = l.refunds[q]
  BY <1>0 DEF IsWith
<1>5. LedgerTyped(PrepareRefund(l, order, f.id, f.back).ledger)
  BY PrepareGood
<1>6. LedgerTyped(is)
  BY <1>2, <1>5 DEF Done
<1>7. is = Ledger(l.version, l.wallets, l.allocations, l.movements, refunds)
  BY LedgerWith, LedgerParts
<1>. HIDE DEF is
<1>8. is.wallets = l.wallets /\ is.allocations = l.allocations /\ is.movements = l.movements /\ is.refunds = refunds
  BY <1>7, LedgerFields
<1>9. Touches(l, is, f.id)
  BY <1>4, <1>6, <1>8 DEF Touches
<1>10. f.back > 0 => PendingTotal(l, f.target, 0) + f.back <= Net(AllocationOf(l, f.target))
  <2>1. Net(AllocationOf(l, f.target)) \in Int
    BY AllocationFields DEF Net
  <2>2. PendingTotal(l, f.target, 0) \in Int
    BY RefundsFinite, SumInt DEF RefundsOf, PendingTotal, SumOf
  <2>. QED
    BY <1>1, <1>2, <2>1, <2>2
<1>11. Prepares(l, is, f.id, f.target, order.appleId, f.back)
  BY <1>1, <1>2, <1>3, <1>4, <1>8, <1>9, <1>10 DEF Prepares
<1>. QED
  BY <1>2, <1>11 DEF Done

LEMMA PreparedBooks ==
  ASSUME NEW l, NEW is, NEW r, NEW t, NEW appleId, NEW amount, Prepares(l, is, r, t, appleId, amount),
         NEW orders, Books(l, l, orders)
  PROVE  Books(l, is, orders)
<1>1. /\ is.wallets = l.wallets /\ is.movements = l.movements
      /\ DOMAIN is.refunds = DOMAIN l.refunds \cup {r} /\ r \notin DOMAIN l.refunds
      /\ \A q \in DOMAIN l.refunds : is.refunds[q] = l.refunds[q]
      /\ is.refunds[r].status # "received"
  BY DEF Prepares, Touches
<1>2. MovementsAddUp(is)
  BY <1>1 DEF Books, MovementsAddUp, MovesOn
<1>3. Signed(is, orders)
  BY <1>1 DEF Books, Signed
<1>4. UndosMatch(is)
  BY <1>1 DEF Books, UndosMatch, MovesOf
<1>5. MovesKept(l, is) /\ SelfKept(is)
  BY <1>1 DEF Explained, Books, MovesKept, MovementKept, SelfKept
<1>6. ReceiptsMatch(is)
  <2>1. Receipts(is) = Receipts(l)
    BY <1>1 DEF Receipts, MovesOf
  <2>2. ASSUME NEW n \in Receipts(is)
        PROVE  LET m == is.movements[n] IN
                 /\ m.of \in DOMAIN is.refunds
                 /\ LET refund == is.refunds[m.of] IN
                      /\ refund.status = "received"
                      /\ <<refund.order, refund.appleId, refund.amount>> = <<m.order, m.appleId, m.amount>>
    BY <1>1, <2>1 DEF Books, ReceiptsMatch
  <2>3. ASSUME NEW q \in DOMAIN is.refunds
        PROVE  Cardinality({n \in Receipts(is) : is.movements[n].of = q}) =
                 IF is.refunds[q].status = "received" THEN 1 ELSE 0
    <3>1. {n \in Receipts(is) : is.movements[n].of = q} = {n \in Receipts(l) : l.movements[n].of = q}
      BY <1>1, <2>1
    <3>2. CASE q \in DOMAIN l.refunds
      BY <3>2, <1>1, <3>1 DEF Books, ReceiptsMatch
    <3>3. CASE q = r
      <4>1. {n \in Receipts(l) : l.movements[n].of = q} = {}
        BY <1>1, <3>3 DEF Books, ReceiptsMatch
      <4>. QED
        BY <1>1, <3>1, <3>3, <4>1, FS_EmptySet
    <3>. QED
      BY <1>1, <3>2, <3>3
  <2>. QED
    BY <2>2, <2>3 DEF ReceiptsMatch
<1>7. LedgerTyped(is)
  BY DEF Prepares, Touches
<1>. QED
  BY <1>2, <1>3, <1>4, <1>5, <1>6, <1>7 DEF Books

(* What is pending of the orders, then. *)
LEMMA PreparedSums ==
  ASSUME NEW l, NEW is, NEW r, NEW t, NEW appleId, NEW amount, Prepares(l, is, r, t, appleId, amount), NEW o
  PROVE  /\ SumOf(is.refunds, RefundsOf(is, o, "received")) = SumOf(l.refunds, RefundsOf(l, o, "received"))
         /\ SumOf(l.refunds, RefundsOf(l, o, "pending")) \in Int
         /\ SumOf(is.refunds, RefundsOf(is, o, "pending")) =
              SumOf(l.refunds, RefundsOf(l, o, "pending")) + IF o = t /\ amount > 0 THEN amount ELSE 0
<1>1. /\ Touches(l, is, r) /\ is.refunds[r].amount = amount
      /\ \A status : ~Counts(l, r, o, status)
      /\ ~Counts(is, r, o, "received") /\ (Counts(is, r, o, "pending") <=> o = t /\ amount > 0)
  BY DEF Prepares, Counts, Touches
<1>2. ASSUME NEW status
      PROVE  LET rest == SumOf(l.refunds, RefundsOf(l, o, status) \ {r}) IN
               /\ rest \in Int
               /\ SumOf(l.refunds, RefundsOf(l, o, status)) = rest + 0
               /\ SumOf(is.refunds, RefundsOf(is, o, status)) =
                    rest + IF Counts(is, r, o, status) THEN amount ELSE 0
  BY <1>1, TouchedSums
<1>3. amount \in Int
  BY DEF Prepares
<1>. DEFINE a == SumOf(l.refunds, RefundsOf(l, o, "received") \ {r})
            b == SumOf(l.refunds, RefundsOf(l, o, "pending") \ {r})
<1>4. /\ a \in Int /\ SumOf(l.refunds, RefundsOf(l, o, "received")) = a + 0
      /\ SumOf(is.refunds, RefundsOf(is, o, "received")) = a + 0
  BY <1>1, <1>2
<1>5. /\ b \in Int /\ SumOf(l.refunds, RefundsOf(l, o, "pending")) = b + 0
      /\ SumOf(is.refunds, RefundsOf(is, o, "pending")) = b + IF Counts(is, r, o, "pending") THEN amount ELSE 0
  BY <1>2
<1>. HIDE DEF a, b
<1>. QED
  BY <1>1, <1>3, <1>4, <1>5

(* The ledger belongs to the orders with the refund just made. *)
LEMMA PreparedBelongs ==
  ASSUME NEW l, LedgerTyped(l), 0 \notin DOMAIN l.refunds,
         NEW is, NEW r, NEW t, NEW appleId, NEW amount, Prepares(l, is, r, t, appleId, amount),
         NEW orders, Belongs(l, orders), NEW next, Follows(orders, next), t \in DOMAIN orders,
         \E n \in DOMAIN next[t].refunds : next[t].refunds[n].id = r, Asked(orders, next, t, r)
  PROVE  Belongs(is, next)
<1>1. /\ is.allocations = l.allocations /\ is.movements = l.movements
      /\ DOMAIN is.refunds = DOMAIN l.refunds \cup {r} /\ r \notin DOMAIN l.refunds
      /\ \A q \in DOMAIN l.refunds : is.refunds[q] = l.refunds[q]
      /\ is.refunds[r].order = t /\ is.refunds[r].appleId = appleId /\ is.refunds[r].amount = amount
      /\ is.refunds[r].status = (IF amount > 0 THEN "pending" ELSE "none")
      /\ amount \in Int /\ amount >= 0
      /\ amount > 0 => AllocationOf(l, t).appleId = appleId
                       /\ PendingTotal(l, t, 0) + amount <= Net(AllocationOf(l, t))
  BY DEF Prepares, Touches
<1>2. Debited(is, next)
  BY <1>1, FollowedDebits DEF Belongs
<1>3. RefundsMatch(is, next)
  <2>1. ASSUME NEW q \in DOMAIN is.refunds
        PROVE  LET refund == is.refunds[q] IN
                 /\ refund.order \in DOMAIN next
                 /\ \E n \in DOMAIN next[refund.order].refunds : next[refund.order].refunds[n].id = q
                 /\ IF refund.status = "none" THEN refund.amount = 0
                    ELSE refund.amount > 0 /\ AllocationOf(is, refund.order).appleId = refund.appleId
    <3>1. CASE q \in DOMAIN l.refunds
      BY <1>1, <3>1, FollowedRefunds DEF Belongs
    <3>2. CASE q = r
      BY <1>1, <3>2 DEF Follows, AllocationOf
    <3>. QED
      BY <1>1, <3>1, <3>2
  <2>. QED
    BY <2>1 DEF RefundsMatch
<1>4. /\ \A o \in DOMAIN is.allocations :
           /\ o \in DOMAIN next /\ Charged(next[o])
           /\ <<next[o].appleId, next[o].paid>> = <<is.allocations[o].appleId, is.allocations[o].amount>>
      /\ \A o \in DOMAIN next : Charged(next[o]) => o \in DOMAIN is.allocations
  BY <1>1, FollowedCharges DEF Belongs
<1>5. ASSUME NEW o \in DOMAIN is.allocations
      PROVE  /\ is.allocations[o].returned = SumOf(is.refunds, RefundsOf(is, o, "received"))
             /\ is.allocations[o].returned + SumOf(is.refunds, RefundsOf(is, o, "pending")) <= is.allocations[o].amount
  <2>. DEFINE one == l.allocations[o]
              back == SumOf(l.refunds, RefundsOf(l, o, "received"))
              open == SumOf(l.refunds, RefundsOf(l, o, "pending"))
              opened == SumOf(is.refunds, RefundsOf(is, o, "pending"))
  <2>1. /\ SumOf(is.refunds, RefundsOf(is, o, "received")) = back
        /\ open \in Int /\ opened = open + IF o = t /\ amount > 0 THEN amount ELSE 0
    BY PreparedSums
  <2>2. one.returned = back /\ one.returned + open <= one.amount
    BY <1>1 DEF Belongs, AllocationsMatch
  <2>3. one.returned \in Int /\ one.amount \in Int
    BY <1>1 DEF LedgerTyped, Allocation
  <2>4. o = t /\ amount > 0 => open + amount <= one.amount - one.returned
    BY <1>1, PendingAll DEF AllocationOf, Net
  <2>5. one.returned + opened <= one.amount
    BY <1>1, <2>1, <2>2, <2>3, <2>4
  <2>. QED
    BY <1>1, <2>1, <2>2, <2>5
<1>6. ASSUME NEW o \in DOMAIN next, NEW n \in DOMAIN next[o].refunds, next[o].refunds[n].payment = "apple"
      PROVE  next[o].refunds[n].id \in DOMAIN is.refunds /\ is.refunds[next[o].refunds[n].id].order = o
  BY <1>6, <1>1 DEF Follows, Belongs, AllocationsMatch, Asked
<1>7. AllocationsMatch(is, next)
  BY <1>4, <1>5, <1>6 DEF AllocationsMatch
<1>. QED
  BY <1>2, <1>3, <1>7 DEF Belongs

(* The server stores the ledger a refund was prepared in. *)
LEMMA PrepareKeeps ==
  ASSUME NEW f, FormTyped(f), f.op = "refund",
         NEW l, LedgerTyped(l), 0 \notin DOMAIN l.refunds, f.id \notin DOMAIN l.refunds,
         NEW orders, LedgerSound(l, orders), SelfKept(l),
         NEW order \in Order, order.id = f.target, order.payment = "apple",
         PrepareRefund(l, order, f.id, f.back).ok,
         NEW next, Follows(orders, next), f.target \in DOMAIN orders,
         \E n \in DOMAIN next[f.target].refunds : next[f.target].refunds[n].id = f.id,
         Asked(orders, next, f.target, f.id)
  PROVE  Keepable(l, PrepareRefund(l, order, f.id, f.back).ledger, next)
<1>. DEFINE is == PrepareRefund(l, order, f.id, f.back).ledger
<1>1. Prepares(l, is, f.id, f.target, order.appleId, f.back)
  BY PrepareIs
<1>. HIDE DEF is
<1>2. Books(l, l, orders) /\ Belongs(l, orders) /\ RefundsKept(l, l)
  BY SoundParted
<1>3. DOMAIN next = DOMAIN orders
  BY DEF Follows
<1>4. Books(l, is, next)
  BY <1>1, <1>2, <1>3, BooksOn, PreparedBooks
<1>5. Belongs(is, next)
  BY <1>1, <1>2, PreparedBelongs
<1>6. RefundsKept(l, is)
  BY <1>1, <1>2 DEF RefundsKept, Prepares, Touches
<1>7. Keepable(l, is, next)
  BY <1>4, <1>5, <1>6, KeepableParted
<1>. QED
  BY <1>7 DEF is

-----------------------------------------------------------------------------
(* What a form makes of its order. *)

SameValues(a, b) == SamePayment(a, b) /\ a.received = b.received

SameLists(was, is) == is.refunds = was.refunds /\ is.returns = was.returns /\ is.corrections = was.corrections

(* A correction, and one taken back. *)
Notes(was, e) == SameValues(e.previous, was) /\ e.versionAfter = was.version + 1

Corrected(f, was, is) ==
  /\ is.refunds = was.refunds /\ is.returns = was.returns /\ is.cancelled = was.cancelled
  /\ SameValues(is, f.values) /\ ValidCorrection(was, f.values)
  /\ \E e \in Correction : is.corrections = Append(was.corrections, e) /\ Notes(was, e)

UndoneTo(was, is) ==
  /\ SameLists(was, is) /\ is.cancelled = was.cancelled
  /\ was.corrections # << >> /\ was.version = Last(was.corrections).versionAfter
  /\ SameValues(is, Last(was.corrections).previous)

(* A refund, and a return. *)
RefundOf(f, was) == [id |-> f.id, amount |-> f.amount, payment |-> was.payment]

RefundedBy(f, was, is) ==
  /\ is.refunds = Append(was.refunds, RefundOf(f, was))
  /\ is.returns = was.returns /\ is.corrections = was.corrections /\ is.cancelled = was.cancelled
  /\ SameValues(is, was) /\ ~was.cancelled /\ f.amount <= Refundable(was)

ReturnedBy(f, was, is) ==
  /\ is.returns = Append(was.returns, f.amount)
  /\ is.refunds = was.refunds /\ is.corrections = was.corrections /\ is.cancelled = was.cancelled
  /\ SameValues(is, was) /\ f.amount <= BankReturnLimit(was)

(* An order cancelled or back in force. *)
Reversed(was, is, cancelled) ==
  /\ SameLists(was, is) /\ SameValues(is, was) /\ is.cancelled = cancelled
  /\ cancelled => ~CancellationBlocked(was)

Becomes(f, was, is) ==
  /\ is.version = was.version + 1
  /\ f.op = "correct" => Corrected(f, was, is)
  /\ f.op = "undo" => UndoneTo(was, is)
  /\ f.op = "refund" => RefundedBy(f, was, is)
  /\ f.op = "return" => ReturnedBy(f, was, is)
  /\ f.op = "cancel" => Reversed(was, is, TRUE)
  /\ f.op = "restore" => Reversed(was, is, FALSE)

(* No evidence goes, and a receipt stays one. *)
EvidenceStays(was, is) ==
  /\ was.evidence \subseteq is.evidence
  /\ was.received > 0 => is.received > 0 \/ "receipt" \in is.evidence

LEMMA ValuesAre ==
  ASSUME NEW order
  PROVE  SameValues(Values(order), order)
BY DEF SameValues, SamePayment, Values

LEMMA WithValuesSame ==
  ASSUME NEW order \in Order, NEW v \in Value
  PROVE  LET is == WithValues(order, v) IN
           SameValues(is, v) /\ is.cancelled = order.cancelled /\ is.evidence = order.evidence
BY DEF Order, WithValues, SameValues, SamePayment

LEMMA EvidenceWhole ==
  ASSUME NEW order \in Order
  PROVE  /\ order.evidence \subseteq FinancialEvidence(order)
         /\ order.received > 0 => "receipt" \in FinancialEvidence(order)
BY DEF FinancialEvidence, CurrentFinancialEvidence

LEMMA CancelIs ==
  ASSUME NEW order \in Order, NEW c \in BOOLEAN, c => ~CancellationBlocked(order)
  PROVE  LET is == Cancel(order, c) IN
           is.version = order.version + 1 /\ Reversed(order, is, c) /\ EvidenceStays(order, is)
<1>. DEFINE n == order.version + 1
            is == [order EXCEPT !.version = n, !.cancelled = c]
<1>1. n \in Int
  BY OrderNumbers
<1>. HIDE DEF n
<1>2. /\ is.version = n /\ is.cancelled = c /\ is.evidence = order.evidence
      /\ is.refunds = order.refunds /\ is.returns = order.returns /\ is.corrections = order.corrections
      /\ is.payment = order.payment /\ is.appleId = order.appleId /\ is.paid = order.paid
      /\ is.received = order.received
  BY <1>1 DEF Order
<1>3. is = Cancel(order, c)
  BY DEF Cancel, n
<1>. HIDE DEF is
<1>. QED
  BY <1>2, <1>3 DEF Reversed, SameLists, SameValues, SamePayment, EvidenceStays, n

LEMMA ReturnIs ==
  ASSUME NEW order \in Order, NEW f, f.amount \in Int, f.amount <= BankReturnLimit(order)
  PROVE  LET is == RegisterBankReturn(order, f.amount) IN
           is.version = order.version + 1 /\ ReturnedBy(f, order, is) /\ EvidenceStays(order, is)
<1>. DEFINE n == order.version + 1
            returns == Append(order.returns, f.amount)
            is == [order EXCEPT !.version = n, !.returns = returns]
<1>1. n \in Int /\ returns \in Seq(Int)
  BY OrderNumbers, OrderLists
<1>. HIDE DEF n, returns
<1>2. /\ is.version = n /\ is.cancelled = order.cancelled /\ is.evidence = order.evidence
      /\ is.refunds = order.refunds /\ is.returns = returns /\ is.corrections = order.corrections
      /\ is.payment = order.payment /\ is.appleId = order.appleId /\ is.paid = order.paid
      /\ is.received = order.received
  BY <1>1 DEF Order
<1>3. is = RegisterBankReturn(order, f.amount)
  BY DEF RegisterBankReturn, n, returns
<1>. HIDE DEF is
<1>. QED
  BY <1>2, <1>3 DEF ReturnedBy, SameValues, SamePayment, EvidenceStays, n, returns

LEMMA RefundIs ==
  ASSUME NEW order \in Order, NEW f, f.id \in Int, f.amount \in Int,
         ~order.cancelled, f.amount <= Refundable(order)
  PROVE  LET is == RegisterRefund(order, f.id, f.amount) IN
           is.version = order.version + 1 /\ RefundedBy(f, order, is) /\ EvidenceStays(order, is)
<1>. DEFINE n == order.version + 1
            refunds == Append(order.refunds, RefundOf(f, order))
            is == [order EXCEPT !.version = n, !.refunds = refunds]
<1>1. n \in Int /\ RefundOf(f, order) \in [id : Int, amount : Int, payment : {"bank", "apple"}]
  BY OrderNumbers, OrderEvidence DEF RefundOf
<1>2. refunds \in OrderRefunds
  BY <1>1, OrderLists DEF OrderRefunds
<1>. HIDE DEF n, refunds
<1>3. /\ is.version = n /\ is.cancelled = order.cancelled /\ is.evidence = order.evidence
      /\ is.refunds = refunds /\ is.returns = order.returns /\ is.corrections = order.corrections
      /\ is.payment = order.payment /\ is.appleId = order.appleId /\ is.paid = order.paid
      /\ is.received = order.received
  BY <1>1, <1>2 DEF Order
<1>4. is = RegisterRefund(order, f.id, f.amount)
  BY DEF RegisterRefund, RefundOf, n, refunds
<1>. HIDE DEF is
<1>. QED
  BY <1>3, <1>4 DEF RefundedBy, SameValues, SamePayment, EvidenceStays, n, refunds

LEMMA UndoIs ==
  ASSUME NEW order \in Order, NEW l, MayUndo(order, l)
  PROVE  LET is == UndoCorrection(order) IN
           is.version = order.version + 1 /\ UndoneTo(order, is) /\ EvidenceStays(order, is)
<1>. DEFINE n == order.version + 1
            evidence == FinancialEvidence(order)
            v == Last(order.corrections).previous
            row == WithValues(order, v)
            is == [row EXCEPT !.version = n, !.evidence = evidence]
<1>1. n \in Int
  BY OrderNumbers
<1>2. evidence \in SUBSET {"bank", "apple", "receipt"}
  BY FinancialEvidenceTyped
<1>3. order.corrections # << >> /\ order.version = Last(order.corrections).versionAfter
  BY DEF MayUndo
<1>4. v \in Value
  <2>1. Last(order.corrections) \in Correction
    BY <1>3, OrderLists DEF Last
  <2>. QED
    BY <2>1 DEF Correction
<1>5. order.evidence \subseteq evidence /\ (order.received > 0 => "receipt" \in evidence)
  BY EvidenceWhole
<1>6. UndoCorrection(order) = is
  BY DEF UndoCorrection, Undone
<1>. HIDE DEF n, evidence, v
<1>7. row \in Order /\ SameLists(order, row) /\ SameValues(row, v) /\ row.cancelled = order.cancelled
  BY <1>4, WithValuesTyped, WithValuesSame DEF SameLists
<1>. HIDE DEF row
<1>8. /\ is.version = n /\ is.cancelled = row.cancelled /\ is.evidence = evidence
      /\ is.refunds = row.refunds /\ is.returns = row.returns /\ is.corrections = row.corrections
      /\ is.payment = row.payment /\ is.appleId = row.appleId /\ is.paid = row.paid
      /\ is.received = row.received
  BY <1>1, <1>2, <1>7 DEF Order
<1>. HIDE DEF is
<1>9. is.version = order.version + 1 /\ EvidenceStays(order, is)
  BY <1>5, <1>8 DEF EvidenceStays, n
<1>10. UndoneTo(order, is)
  BY <1>3, <1>7, <1>8 DEF UndoneTo, SameLists, SameValues, SamePayment, v
<1>. QED
  BY <1>6, <1>9, <1>10

LEMMA CorrectIs ==
  ASSUME NEW order \in Order, NEW f, f.values \in Value, ValidCorrection(order, f.values),
         NEW allocation \in Allocation \cup {NoAllocation}
  PROVE  LET is == CorrectOrder(order, f.values, allocation) IN
           is.version = order.version + 1 /\ Corrected(f, order, is) /\ EvidenceStays(order, is)
<1>. DEFINE v == f.values
            n == order.version + 1
            note == [previous |-> Values(order), versionAfter |-> n, ledgerAfter |-> allocation]
            evidence == FinancialEvidence(order) \cup CurrentFinancialEvidence(v)
            corrections == Append(order.corrections, note)
            row == WithValues(order, v)
            is == [row EXCEPT !.version = n, !.evidence = evidence, !.corrections = corrections]
<1>1. n \in Int
  BY OrderNumbers
<1>2. note \in Correction /\ Notes(order, note)
  BY <1>1, ValuesTyped, ValuesAre DEF Correction, Notes
<1>3. evidence \in SUBSET {"bank", "apple", "receipt"}
  BY FinancialEvidenceTyped, ValueFields, EvidenceTyped
<1>4. order.evidence \subseteq evidence /\ (order.received > 0 => "receipt" \in evidence)
  BY EvidenceWhole
<1>5. CorrectOrder(order, v, allocation) = is
  BY DEF CorrectOrder
<1>. HIDE DEF note, evidence
<1>6. corrections \in Seq(Correction)
  BY <1>2, OrderLists
<1>7. /\ row \in Order /\ row.refunds = order.refunds /\ row.returns = order.returns
      /\ SameValues(row, v) /\ row.cancelled = order.cancelled
  BY WithValuesTyped, WithValuesSame
<1>. HIDE DEF n, corrections, row
<1>8. /\ is.version = n /\ is.cancelled = row.cancelled /\ is.evidence = evidence
      /\ is.refunds = row.refunds /\ is.returns = row.returns /\ is.corrections = corrections
      /\ is.payment = row.payment /\ is.appleId = row.appleId /\ is.paid = row.paid
      /\ is.received = row.received
  BY <1>1, <1>3, <1>6, <1>7 DEF Order
<1>. HIDE DEF is
<1>9. is.version = order.version + 1 /\ EvidenceStays(order, is)
  BY <1>4, <1>8 DEF EvidenceStays, n
<1>10. Corrected(f, order, is)
  BY <1>8, <1>2, <1>7 DEF corrections, Corrected, SameValues, SamePayment
<1>. QED
  BY <1>5, <1>9, <1>10

-----------------------------------------------------------------------------
(* What a form's plan makes of the order and of the ledger. *)

ChargedAs(l, row, reversal, form, is) ==
  CommitOrder(l, row, reversal, form).ok /\ is = CommitOrder(l, row, reversal, form).ledger

AskedOf(l, order, f, is) ==
  PrepareRefund(l, order, f.id, f.back).ok /\ is = PrepareRefund(l, order, f.id, f.back).ledger

(* ... to the ledger, for one of an order. *)
LedgerFor(f, was, ledger, is) ==
  /\ f.op = "correct" => ChargedAs(ledger, WithValues(was, f.values), f.reversal, f.id, is)
  /\ f.op = "undo" => ChargedAs(ledger, Undone(was), f.reversal, f.id, is)
  /\ f.op = "refund" => IF was.payment = "apple" THEN AskedOf(ledger, was, f, is) ELSE is = ledger
  /\ f.op \in {"return", "cancel", "restore"} => is = ledger

Rewrites(f, orders, ledger, plan) ==
  /\ Becomes(f, orders[f.target], plan.orders[f.target])
  /\ EvidenceStays(orders[f.target], plan.orders[f.target])
  /\ LedgerFor(f, orders[f.target], ledger, plan.ledger)

LEMMA WithOrderParts ==
  ASSUME NEW row, NEW orders, NEW charge
  PROVE  /\ WithOrder(row, orders, charge).ok = charge.ok
         /\ WithOrder(row, orders, charge).ledger = charge.ledger
         /\ WithOrder(row, orders, charge).orders[row.id] = row
BY PlanParts, WithAt DEF WithOrder

LEMMA NotPlanned ==
  ASSUME NEW orders, NEW ledger
  PROVE  ~Plan(FALSE, orders, ledger).ok
BY DEF Plan

(* A correction rewrites one order; so do the forms that follow. *)
LEMMA CorrectMakes ==
  ASSUME NEW f, FormTyped(f), f.op = "correct", NEW orders, OrdersTyped(orders), About(f, orders),
         NEW ledger, LedgerTyped(ledger), PlanCorrection(f, orders, ledger).ok
  PROVE  Rewrites(f, orders, ledger, PlanCorrection(f, orders, ledger))
<1>a. PICK was : was = orders[f.target]
  OBVIOUS
<1>b. PICK charge : charge = CommitOrder(ledger, WithValues(was, f.values), f.reversal, f.id)
  OBVIOUS
<1>c. PICK allocation : allocation = AllocationOf(charge.ledger, f.target)
  OBVIOUS
<1>d. PICK row : row = CorrectOrder(was, f.values, allocation)
  OBVIOUS
<1>e. PICK plan : plan = PlanCorrection(f, orders, ledger)
  OBVIOUS
<1>1. was \in Order /\ was.id = f.target /\ f.values \in Value /\ f.id \in Int
  BY <1>a, TargetTyped, FormFields, FormRest
<1>2. ValidCorrection(was, f.values) /\ plan = WithOrder(row, orders, charge)
  BY <1>a, <1>b, <1>c, <1>d, <1>e, NotPlanned DEF PlanCorrection
<1>3. allocation \in Allocation \cup {NoAllocation}
  BY <1>1, WithValuesTyped, <1>b, CommitTyped, <1>c, AllocationTyped
<1>4. row.id = f.target
  BY <1>1, <1>3, <1>d, CorrectTyped
<1>5. row.version = was.version + 1 /\ Corrected(f, was, row) /\ EvidenceStays(was, row)
  BY <1>1, <1>2, <1>3, <1>d, CorrectIs
<1>6. plan.ok = charge.ok /\ plan.ledger = charge.ledger /\ plan.orders[f.target] = row
  BY <1>2, <1>4, WithOrderParts
<1>7. charge.ok
  BY <1>e, <1>6
<1>8. LedgerFor(f, was, ledger, plan.ledger)
  BY <1>b, <1>6, <1>7 DEF LedgerFor, ChargedAs
<1>9. Becomes(f, was, row)
  BY <1>5 DEF Becomes
<1>10. Rewrites(f, orders, ledger, plan)
  BY <1>a, <1>5, <1>6, <1>8, <1>9 DEF Rewrites
<1>. QED
  BY <1>e, <1>10

LEMMA RefundMakes ==
  ASSUME NEW f, FormTyped(f), f.op = "refund", NEW orders, OrdersTyped(orders), About(f, orders),
         NEW ledger, LedgerTyped(ledger), PlanRefund(f, orders, ledger).ok
  PROVE  Rewrites(f, orders, ledger, PlanRefund(f, orders, ledger))
<1>a. PICK was : was = orders[f.target]
  OBVIOUS
<1>b. PICK back : back = IF was.payment = "apple" THEN PrepareRefund(ledger, was, f.id, f.back) ELSE Done(ledger)
  OBVIOUS
<1>d. PICK row : row = RegisterRefund(was, f.id, f.amount)
  OBVIOUS
<1>e. PICK plan : plan = PlanRefund(f, orders, ledger)
  OBVIOUS
<1>1. was \in Order /\ was.id = f.target /\ f.id \in Int /\ f.amount \in Int
  BY <1>a, TargetTyped, FormFields
<1>2. ~was.cancelled /\ f.amount <= Refundable(was) /\ plan = WithOrder(row, orders, back)
  BY <1>a, <1>b, <1>d, <1>e, NotPlanned DEF PlanRefund
<1>4. row.id = f.target
  BY <1>1, <1>d, RefundTyped
<1>5. row.version = was.version + 1 /\ RefundedBy(f, was, row) /\ EvidenceStays(was, row)
  BY <1>1, <1>2, <1>d, RefundIs
<1>6. plan.ok = back.ok /\ plan.ledger = back.ledger /\ plan.orders[f.target] = row
  BY <1>2, <1>4, WithOrderParts
<1>7. back.ok
  BY <1>e, <1>6
<1>8. LedgerFor(f, was, ledger, plan.ledger)
  BY <1>b, <1>6, <1>7 DEF LedgerFor, AskedOf, Done
<1>9. Becomes(f, was, row)
  BY <1>5 DEF Becomes
<1>10. Rewrites(f, orders, ledger, plan)
  BY <1>a, <1>5, <1>6, <1>8, <1>9 DEF Rewrites
<1>. QED
  BY <1>e, <1>10

LEMMA ReturnMakes ==
  ASSUME NEW f, FormTyped(f), f.op = "return", NEW orders, OrdersTyped(orders), About(f, orders),
         NEW ledger, LedgerTyped(ledger), PlanBankReturn(f, orders, ledger).ok
  PROVE  Rewrites(f, orders, ledger, PlanBankReturn(f, orders, ledger))
<1>a. PICK was : was = orders[f.target]
  OBVIOUS
<1>d. PICK row : row = RegisterBankReturn(was, f.amount)
  OBVIOUS
<1>e. PICK plan : plan = PlanBankReturn(f, orders, ledger)
  OBVIOUS
<1>1. was \in Order /\ was.id = f.target /\ f.amount \in Int
  BY <1>a, TargetTyped, FormFields
<1>2. f.amount <= BankReturnLimit(was) /\ plan = WithOrder(row, orders, Done(ledger))
  BY <1>a, <1>d, <1>e, NotPlanned DEF PlanBankReturn
<1>4. row.id = f.target
  BY <1>1, <1>d, BankReturnTyped
<1>5. row.version = was.version + 1 /\ ReturnedBy(f, was, row) /\ EvidenceStays(was, row)
  BY <1>1, <1>2, <1>d, ReturnIs
<1>6. plan.ledger = ledger /\ plan.orders[f.target] = row
  BY <1>2, <1>4, WithOrderParts DEF Done
<1>8. LedgerFor(f, was, ledger, plan.ledger)
  BY <1>6 DEF LedgerFor
<1>9. Becomes(f, was, row)
  BY <1>5 DEF Becomes
<1>10. Rewrites(f, orders, ledger, plan)
  BY <1>a, <1>5, <1>6, <1>8, <1>9 DEF Rewrites
<1>. QED
  BY <1>e, <1>10

LEMMA ReversalCases ==
  ASSUME NEW f, NEW orders, NEW ledger, PlanReversal(f, orders, ledger).ok, NEW was, was = orders[f.target]
  PROVE  \/ /\ f.op = "cancel" /\ ~CancellationBlocked(was)
            /\ PlanReversal(f, orders, ledger) = WithOrder(Cancel(was, TRUE), orders, Done(ledger))
         \/ /\ f.op = "restore"
            /\ PlanReversal(f, orders, ledger) = WithOrder(Cancel(was, FALSE), orders, Done(ledger))
         \/ /\ f.op = "undo" /\ MayUndo(was, ledger)
            /\ PlanReversal(f, orders, ledger) =
                 WithOrder(UndoCorrection(was), orders, CommitOrder(ledger, Undone(was), f.reversal, f.id))
BY NotPlanned DEF PlanReversal

LEMMA CancelMakes ==
  ASSUME NEW f, NEW c \in BOOLEAN, f.op = IF c THEN "cancel" ELSE "restore",
         NEW orders, OrdersTyped(orders), About(f, orders), c => ~CancellationBlocked(orders[f.target]),
         NEW ledger, NEW plan, plan = WithOrder(Cancel(orders[f.target], c), orders, Done(ledger))
  PROVE  Rewrites(f, orders, ledger, plan)
<1>a. PICK was : was = orders[f.target]
  OBVIOUS
<1>d. PICK row : row = Cancel(was, c)
  OBVIOUS
<1>1. was \in Order /\ was.id = f.target
  BY <1>a, TargetTyped
<1>2. c => ~CancellationBlocked(was)
  BY <1>a
<1>4. row.id = f.target
  BY <1>1, <1>d, CancelTyped
<1>5. row.version = was.version + 1 /\ Reversed(was, row, c) /\ EvidenceStays(was, row)
  BY <1>1, <1>2, <1>d, CancelIs
<1>6. plan.ledger = ledger /\ plan.orders[f.target] = row
  BY <1>4, <1>a, <1>d, WithOrderParts DEF Done
<1>8. LedgerFor(f, was, ledger, plan.ledger)
  BY <1>6 DEF LedgerFor
<1>9. Becomes(f, was, row)
  BY <1>5 DEF Becomes
<1>10. Rewrites(f, orders, ledger, plan)
  BY <1>a, <1>5, <1>6, <1>8, <1>9 DEF Rewrites
<1>. QED
  BY <1>10

LEMMA UndoMakes ==
  ASSUME NEW f, f.op = "undo", NEW orders, OrdersTyped(orders), About(f, orders),
         NEW ledger, MayUndo(orders[f.target], ledger), NEW plan, plan.ok,
         plan = WithOrder(UndoCorrection(orders[f.target]), orders,
                          CommitOrder(ledger, Undone(orders[f.target]), f.reversal, f.id))
  PROVE  Rewrites(f, orders, ledger, plan)
<1>a. PICK was : was = orders[f.target]
  OBVIOUS
<1>b. PICK charge : charge = CommitOrder(ledger, Undone(was), f.reversal, f.id)
  OBVIOUS
<1>d. PICK row : row = UndoCorrection(was)
  OBVIOUS
<1>1. was \in Order /\ was.id = f.target
  BY <1>a, TargetTyped
<1>2. MayUndo(was, ledger) /\ was.corrections # << >>
  BY <1>a DEF MayUndo
<1>4. row.id = f.target
  BY <1>1, <1>2, <1>d, UndoTyped
<1>5. row.version = was.version + 1 /\ UndoneTo(was, row) /\ EvidenceStays(was, row)
  BY <1>1, <1>2, <1>d, UndoIs
<1>7. plan = WithOrder(row, orders, charge)
  BY <1>a, <1>b, <1>d
<1>6. charge.ok /\ plan.ledger = charge.ledger /\ plan.orders[f.target] = row
  BY WithOrderParts, <1>7, <1>4
<1>8. LedgerFor(f, was, ledger, plan.ledger)
  BY <1>b, <1>6 DEF LedgerFor, ChargedAs
<1>9. Becomes(f, was, row)
  BY <1>5 DEF Becomes
<1>10. Rewrites(f, orders, ledger, plan)
  BY <1>a, <1>5, <1>6, <1>8, <1>9 DEF Rewrites
<1>. QED
  BY <1>10

(* So whatever a form of an order is about. *)
LEMMA PlanMakes ==
  ASSUME NEW f, FormTyped(f), f.op \in OrderForms \ {"new"}, NEW orders, OrdersTyped(orders),
         NEW ledger, LedgerTyped(ledger), PlanFor(f, orders, ledger).ok
  PROVE  About(f, orders) /\ Rewrites(f, orders, ledger, PlanFor(f, orders, ledger))
<1>. DEFINE plan == PlanFor(f, orders, ledger)
<1>1. f.op \in {"correct", "refund", "return", "undo", "cancel", "restore"}
  BY DEF OrderForms
<1>2. SeenLast(f, orders)
  BY NotPlanned DEF PlanFor
<1>3. About(f, orders)
  BY <1>1, <1>2 DEF SeenLast, OrderForms, About
<1>4. CASE f.op = "correct"
  BY <1>2, <1>4, <1>3, CorrectMakes DEF PlanFor, OrderForms
<1>5. CASE f.op = "refund"
  BY <1>2, <1>5, <1>3, RefundMakes DEF PlanFor, OrderForms
<1>6. CASE f.op = "return"
  BY <1>2, <1>6, <1>3, ReturnMakes DEF PlanFor, OrderForms
<1>7. CASE f.op \in {"undo", "cancel", "restore"}
  <2>1. plan = PlanReversal(f, orders, ledger) /\ plan.ok
    BY <1>2, <1>7 DEF PlanFor, OrderForms
  <2>2. PICK was : was = orders[f.target]
    OBVIOUS
  <2>. HIDE DEF plan
  <2>3. CASE f.op = "cancel"
    BY <2>1, <2>2, <2>3, ReversalCases, <1>3, CancelMakes DEF plan
  <2>4. CASE f.op = "restore"
    BY <2>1, <2>2, <2>4, ReversalCases, <1>3, CancelMakes DEF plan
  <2>5. CASE f.op = "undo"
    BY <2>1, <2>2, <2>5, ReversalCases, <1>3, UndoMakes DEF plan
  <2>. QED
    BY <1>7, <2>3, <2>4, <2>5
<1>. QED
  BY <1>1, <1>3, <1>4, <1>5, <1>6, <1>7

-----------------------------------------------------------------------------
(* What a list of amounts comes to, one entry more in it. *)

LEMMA SumAppend ==
  ASSUME NEW f, NEW g, NEW n \in Nat, DOMAIN f = 1..n, DOMAIN g = 1..(n + 1),
         IntOn(g, 1..(n + 1)), \A i \in 1..n : g[i] = f[i]
  PROVE  /\ SumFunctionOnSet(g, DOMAIN g) = SumFunctionOnSet(f, DOMAIN f) + g[n + 1]
         /\ SumFunctionOnSet(f, DOMAIN f) \in Int
<1>. DEFINE m == n + 1
            S == 1..m
            T == 1..n
<1>1. m \in S /\ S \ {m} = T /\ IsFiniteSet(S) /\ IsFiniteSet(T)
  <2>1. IsFiniteSet(1..m) /\ IsFiniteSet(1..n)
    BY FS_Interval
  <2>2. m \in S /\ S \ {m} = T
    OBVIOUS
  <2>. QED
    BY <2>1, <2>2
<1>2. IntOn(g, S)
  OBVIOUS
<1>3. \A i \in T : f[i] = g[i]
  OBVIOUS
<1>4. IntOn(g, T)
  BY <1>1, <1>2 DEF IntOn
<1>5. DOMAIN f = T /\ DOMAIN g = S /\ g[m] \in Int
  BY <1>1, <1>2 DEF IntOn
<1>. HIDE DEF S, T, m
<1>6. SumFunctionOnSet(f, T) = SumFunctionOnSet(g, T) /\ SumFunctionOnSet(g, T) \in Int
  BY <1>1, <1>3, <1>4, SumEqual, SumInt
<1>7. SumFunctionOnSet(g, S) = g[m] + SumFunctionOnSet(g, S \ {m})
  BY <1>1, <1>2, SumRemove
<1>8. SumFunctionOnSet(g, S) = SumFunctionOnSet(f, T) + g[m]
  <2>1. S \ {m} = T
    BY <1>1
  <2>2. SumFunctionOnSet(g, S) = g[m] + SumFunctionOnSet(f, T)
    BY <1>6, <1>7, <2>1
  <2>. QED
    BY <1>5, <1>6, <2>2
<1>. QED
  BY <1>5, <1>6, <1>8 DEF m

LEMMA TotalNone == Total(<< >>) = 0
BY SumOfNone DEF Total, SumFunction

LEMMA TotalAppend ==
  ASSUME NEW s \in Seq(Int), NEW x \in Int
  PROVE  Total(s) \in Int /\ Total(Append(s, x)) = Total(s) + x
<1>. DEFINE t == Append(s, x)
            n == Len(s)
<1>1. /\ n \in Nat /\ DOMAIN s = 1..n /\ DOMAIN t = 1..(n + 1)
      /\ t[n + 1] = x /\ \A i \in 1..n : t[i] = s[i]
  OBVIOUS
<1>2. IntOn(t, 1..(n + 1))
  BY <1>1 DEF IntOn
<1>. HIDE DEF t, n
<1>3. SumFunctionOnSet(t, DOMAIN t) = SumFunctionOnSet(s, DOMAIN s) + t[n + 1] /\ SumFunctionOnSet(s, DOMAIN s) \in Int
  BY <1>1, <1>2, SumAppend
<1>. QED
  BY <1>1, <1>3 DEF Total, SumFunction, t

LEMMA RefundedTyped ==
  ASSUME NEW order \in Order
  PROVE  Refunded(order) \in Int
<1>. DEFINE f == Amounts(order.refunds)
            S == DOMAIN order.refunds
            R == [id : Int, amount : Int, payment : {"bank", "apple"}]
<1>1. order.refunds \in Seq(R)
  BY OrderLists
<1>2. IsFiniteSet(S)
  BY <1>1, FS_Interval
<1>3. \A n \in S : f[n] = order.refunds[n].amount
  BY DEF Amounts
<1>4. \A n \in S : order.refunds[n] \in R
  <2>. HIDE DEF R
  <2>. QED
    BY <1>1
<1>. HIDE DEF f, S
<1>5. \A n \in S : f[n] \in Int
  BY <1>3, <1>4
<1>6. SumFunctionOnSet(f, S) \in Int
  BY <1>2, <1>5, SumInt DEF IntOn
<1>. QED
  BY <1>6 DEF Refunded, SumOf, f, S

LEMMA RefundedAppend ==
  ASSUME NEW order \in Order, NEW is \in Order,
         NEW e, e.amount \in Int, is.refunds = Append(order.refunds, e)
  PROVE  Refunded(is) = Refunded(order) + e.amount
<1>. DEFINE n == Len(order.refunds)
            f == Amounts(order.refunds)
            g == Amounts(is.refunds)
            R == [id : Int, amount : Int, payment : {"bank", "apple"}]
<1>1. order.refunds \in Seq(R) /\ is.refunds \in Seq(R)
  BY OrderLists
<1>2. /\ n \in Nat /\ DOMAIN order.refunds = 1..n /\ DOMAIN is.refunds = 1..(n + 1)
      /\ is.refunds[n + 1] = e /\ \A i \in 1..n : is.refunds[i] = order.refunds[i]
  BY <1>1
<1>3. \A i \in 1..(n + 1) : is.refunds[i] \in R
  <2>. HIDE DEF R
  <2>. QED
    BY <1>1, <1>2
<1>4. DOMAIN f = 1..n /\ DOMAIN g = 1..(n + 1)
  BY <1>2 DEF Amounts
<1>5. \A i \in 1..n : f[i] = order.refunds[i].amount
  BY <1>2 DEF Amounts
<1>6. \A i \in 1..(n + 1) : g[i] = is.refunds[i].amount
  BY <1>2 DEF Amounts
<1>7. n + 1 \in 1..(n + 1) /\ \A i \in 1..n : i \in 1..(n + 1)
  BY <1>2
<1>. HIDE DEF f, g, n
<1>8. \A i \in 1..n : g[i] = f[i]
  BY <1>2, <1>5, <1>6, <1>7
<1>9. IntOn(g, 1..(n + 1)) /\ g[n + 1] = e.amount
  BY <1>2, <1>3, <1>6, <1>7 DEF IntOn
<1>10. SumFunctionOnSet(g, DOMAIN g) = SumFunctionOnSet(f, DOMAIN f) + g[n + 1]
  BY <1>2, <1>4, <1>8, <1>9, SumAppend
<1>11. DOMAIN g = DOMAIN is.refunds /\ DOMAIN f = DOMAIN order.refunds
  BY <1>2, <1>4
<1>. QED
  BY <1>9, <1>10, <1>11 DEF Refunded, SumOf, f, g

-----------------------------------------------------------------------------
(* What the server asks of the order then. *)

RefundsCovered(order) ==
  order.refunds # << >> => ~order.cancelled /\ Refunded(order) <= order.received

ReturnsHold(order) ==
  order.returns # << >> => order.payment = "bank" /\ order.paid > 0 /\ Total(order.returns) <= order.paid

Passes(was, is) ==
  /\ HasBankPayment(was) => is.payment = "bank"
  /\ ReturnsHold(is)
  /\ HasConfirmedMoney(was) /\ is.cancelled => was.cancelled
  /\ CheckRefund(was, is)

LEMMA ConfirmedIsEvidence ==
  ASSUME NEW order
  PROVE  HasConfirmedMoney(order) <=> FinancialEvidence(order) # {}
BY DEF HasConfirmedMoney, FinancialEvidence

LEMMA BankHistory ==
  ASSUME NEW order \in Order, HasBankPayment(order)
  PROVE  HasPaymentHistory(order) /\ order.payment = "bank"
BY DEF HasBankPayment, CurrentFinancialEvidence, HasPaymentHistory, FinancialEvidence

LEMMA MoneyNow ==
  ASSUME NEW order
  PROVE  MoneyHolds(order, Values(order)) <=> RefundsCovered(order) /\ ReturnsHold(order)
BY DEF Values, MoneyHolds, RefundsCovered, ReturnsHold

LEMMA RefundsAlike ==
  ASSUME NEW was, NEW is, is.refunds = was.refunds
  PROVE  Refunded(is) = Refunded(was)
BY DEF Refunded

LEMMA NothingAdded ==
  ASSUME NEW S, NEW s \in Seq(S)
  PROVE  SubSeq(s, Len(s) + 1, Len(s)) = << >>
OBVIOUS

LEMMA OneAdded ==
  ASSUME NEW S, NEW s \in Seq(S), NEW e \in S
  PROVE  LET added == SubSeq(Append(s, e), Len(s) + 1, Len(Append(s, e))) IN
           added # << >> /\ \A n \in DOMAIN added : added[n] = e
<1>1. /\ Append(s, e) \in Seq(S) /\ Len(Append(s, e)) = Len(s) + 1 /\ Len(s) \in Nat
      /\ Append(s, e)[Len(s) + 1] = e
  OBVIOUS
<1>. DEFINE added == SubSeq(Append(s, e), Len(s) + 1, Len(s) + 1)
<1>2. Len(added) = 1 /\ DOMAIN added = 1..1 /\ added[1] = e
  BY <1>1
<1>. QED
  BY <1>1, <1>2

(* The customer's refunds as they were, or with one more. *)
LEMMA SameRefunds ==
  ASSUME NEW was \in Order, NEW is \in Order, is.refunds = was.refunds,
         \/ is.refunds = << >>
         \/ is.received = was.received /\ is.payment = was.payment /\ is.cancelled = was.cancelled
         \/ is.payment = was.payment /\ ~is.cancelled /\ Refunded(is) <= is.received
  PROVE  CheckRefund(was, is)
BY OrderLists, NothingAdded DEF CheckRefund

LEMMA RefundCovers ==
  ASSUME NEW f, NEW was \in Order, NEW is \in Order, f.id \in Int, f.amount \in Int, RefundedBy(f, was, is)
  PROVE  ~is.cancelled /\ Refunded(is) <= is.received
<1>. DEFINE e == RefundOf(f, was)
<1>1. e.amount = f.amount
  BY DEF RefundOf
<1>2. /\ is.refunds = Append(was.refunds, e) /\ is.received = was.received /\ is.cancelled = was.cancelled
      /\ ~was.cancelled /\ f.amount <= Refundable(was)
  BY DEF RefundedBy, SameValues
<1>. HIDE DEF e
<1>3. Refunded(is) = Refunded(was) + f.amount
  BY <1>1, <1>2, RefundedAppend
<1>4. Refunded(was) \in Int /\ was.received \in Int
  BY RefundedTyped, OrderNumbers
<1>5. f.amount <= was.received - Refunded(was)
  BY <1>2 DEF Refundable
<1>. QED
  BY <1>2, <1>3, <1>4, <1>5

LEMMA OneMoreRefund ==
  ASSUME NEW f, NEW was \in Order, NEW is \in Order, f.id \in Int, f.amount \in Int,
         RefundedBy(f, was, is), \A n \in DOMAIN was.refunds : was.refunds[n].id # f.id
  PROVE  CheckRefund(was, is)
<1>. DEFINE e == RefundOf(f, was)
            R == [id : Int, amount : Int, payment : {"bank", "apple"}]
            added == SubSeq(is.refunds, Len(was.refunds) + 1, Len(is.refunds))
<1>1. e \in R /\ e.id = f.id /\ e.payment = was.payment
  BY OrderEvidence DEF RefundOf
<1>2. was.refunds \in Seq(R)
  BY OrderLists
<1>3. is.refunds = Append(was.refunds, e) /\ is.payment = was.payment /\ is.received = was.received
  BY DEF RefundedBy, SameValues, SamePayment
<1>. HIDE DEF e, R
<1>4. added # << >> /\ \A n \in DOMAIN added : added[n] = e
  BY <1>1, <1>2, <1>3, OneAdded
<1>. HIDE DEF added
<1>5. \A n \in DOMAIN added :
        /\ added[n].payment = is.payment
        /\ \A i \in DOMAIN was.refunds : was.refunds[i].id # added[n].id
  BY <1>1, <1>3, <1>4
<1>. QED
  BY <1>3, <1>5, RefundCovers DEF CheckRefund, added

(* An order that is sound has its money. *)
LEMMA SoundNow ==
  ASSUME NEW order, OrderSound(order)
  PROVE  /\ RefundsCovered(order) /\ ReturnsHold(order)
         /\ order.returns # << >> => Total(order.returns) > 0
BY MoneyNow DEF OrderSound

LEMMA CorrectPasses ==
  ASSUME NEW f, NEW was \in Order, NEW is \in Order, OrderSound(was), Corrected(f, was, is),
         was.refunds # << >> => f.values.payment = was.payment /\ f.values.received # 0
  PROVE  Passes(was, is)
<1>1. /\ is.payment = f.values.payment /\ is.paid = f.values.paid /\ is.received = f.values.received
      /\ is.refunds = was.refunds /\ is.returns = was.returns /\ is.cancelled = was.cancelled
      /\ ValidCorrection(was, f.values)
  BY DEF Corrected, SameValues, SamePayment
<1>2. RefundsCovered(was) /\ ReturnsHold(was) /\ (was.returns # << >> => Total(was.returns) > 0)
  BY SoundNow
<1>3. HasBankPayment(was) => is.payment = "bank"
  BY <1>1, BankHistory DEF ValidCorrection
<1>4. ReturnsHold(is)
  <2>. SUFFICES ASSUME was.returns # << >>
                PROVE  is.payment = "bank" /\ is.paid > 0 /\ Total(was.returns) <= is.paid
    BY <1>1 DEF ReturnsHold
  <2>1. HasBankPayment(was)
    BY <1>2 DEF ReturnsHold, HasBankPayment
  <2>2. is.paid >= Total(was.returns) /\ Total(was.returns) > 0
    BY <1>1, <1>2 DEF ValidCorrection
  <2>3. is.paid \in Int /\ Total(was.returns) \in Int
    BY OrderNumbers, OrderLists, TotalAppend
  <2>. QED
    BY <1>3, <2>1, <2>2, <2>3
<1>5. CheckRefund(was, is)
  BY <1>1, SameRefunds, <1>2, RefundsAlike, RefundedTyped, OrderNumbers DEF RefundsCovered,
     ValidCorrection
<1>. QED
  BY <1>1, <1>3, <1>4, <1>5 DEF Passes

LEMMA UndoPasses ==
  ASSUME NEW was \in Order, NEW is \in Order, OrderSound(was), UndoneTo(was, is),
         HasBankPayment(was) => is.payment = "bank"
  PROVE  Passes(was, is)
<1>. DEFINE v == Last(was.corrections).previous
<1>1. /\ is.payment = v.payment /\ is.paid = v.paid /\ is.received = v.received
      /\ is.refunds = was.refunds /\ is.returns = was.returns /\ is.cancelled = was.cancelled
  BY DEF UndoneTo, SameLists, SameValues, SamePayment
<1>2. MoneyHolds(was, v)
  BY DEF OrderSound, UndoneTo
<1>. HIDE DEF v
<1>3. ReturnsHold(is)
  BY <1>1, <1>2 DEF MoneyHolds, ReturnsHold
<1>4. CheckRefund(was, is)
  BY <1>1, SameRefunds, <1>2, RefundsAlike DEF MoneyHolds
<1>. QED
  BY <1>1, <1>3, <1>4 DEF Passes

LEMMA RefundPasses ==
  ASSUME NEW f, NEW was \in Order, NEW is \in Order, f.id \in Int, f.amount \in Int, OrderSound(was),
         RefundedBy(f, was, is), \A n \in DOMAIN was.refunds : was.refunds[n].id # f.id
  PROVE  Passes(was, is)
BY SoundNow, OneMoreRefund DEF RefundedBy, SameValues, SamePayment, ReturnsHold, HasBankPayment,
   Passes

LEMMA ReturnPasses ==
  ASSUME NEW f, NEW was \in Order, NEW is \in Order, f.amount \in Int, f.amount > 0, OrderSound(was),
         ReturnedBy(f, was, is)
  PROVE  Passes(was, is) /\ Total(is.returns) > 0
<1>1. /\ is.payment = was.payment /\ is.paid = was.paid /\ is.received = was.received
      /\ is.refunds = was.refunds /\ is.cancelled = was.cancelled
      /\ is.returns = Append(was.returns, f.amount) /\ f.amount <= BankReturnLimit(was)
  BY DEF ReturnedBy, SameValues, SamePayment
<1>2. Total(was.returns) \in Int /\ Total(is.returns) = Total(was.returns) + f.amount /\ was.paid \in Int
  BY <1>1, OrderLists, OrderNumbers, TotalAppend
<1>3. was.payment = "bank" /\ was.paid > 0 /\ f.amount <= was.paid - Total(was.returns)
  BY <1>1, <1>2 DEF BankReturnLimit
<1>4. ReturnsHold(is)
  BY <1>1, <1>2, <1>3 DEF ReturnsHold
<1>5. HasBankPayment(was) => is.payment = "bank"
  BY <1>1 DEF HasBankPayment
<1>6. Total(is.returns) > 0
  BY TotalNone, <1>2, SoundNow
<1>7. CheckRefund(was, is)
  BY <1>1, SameRefunds
<1>. QED
  BY <1>1, <1>4, <1>5, <1>6, <1>7 DEF Passes

LEMMA ReversalPasses ==
  ASSUME NEW was \in Order, NEW is \in Order, OrderSound(was), NEW c \in BOOLEAN, Reversed(was, is, c)
  PROVE  Passes(was, is)
<1>1. /\ is.payment = was.payment /\ is.paid = was.paid /\ is.received = was.received
      /\ is.refunds = was.refunds /\ is.returns = was.returns /\ is.cancelled = c
      /\ c => ~CancellationBlocked(was)
  BY DEF Reversed, SameLists, SameValues, SamePayment
<1>2. ReturnsHold(is)
  BY <1>1, SoundNow DEF ReturnsHold
<1>3. HasBankPayment(was) => is.payment = "bank"
  BY <1>1 DEF HasBankPayment
<1>4. c => was.refunds = << >> /\ ~HasConfirmedMoney(was)
  BY <1>1, ConfirmedIsEvidence DEF CancellationBlocked
<1>5. CheckRefund(was, is)
  <2>1. CASE was.refunds = << >>
    BY <1>1, <2>1, SameRefunds
  <2>2. CASE was.refunds # << >>
    <3>1. ~c /\ ~was.cancelled
      BY <1>4, <2>2, SoundNow DEF RefundsCovered
    <3>2. was.cancelled \in BOOLEAN
      BY DEF Order
    <3>3. is.cancelled = was.cancelled
      BY <1>1, <3>1, <3>2
    <3>. QED
      BY <1>1, <3>3, SameRefunds
  <2>. QED
    BY <2>1, <2>2
<1>. QED
  BY <1>1, <1>2, <1>3, <1>4, <1>5 DEF Passes

LEMMA FormAmounts ==
  ASSUME NEW f, FormTyped(f)
  PROVE  /\ f.op = "return" => f.amount > 0
         /\ f.op = "amend" => f.amount >= 0
         /\ f.op = "refund" => f.back >= 0
<1>1. AmountsFit(f)
  BY DEF FormTyped
<1>. QED
  BY <1>1 DEF AmountsFit

LEMMA FormPasses ==
  ASSUME NEW f, FormTyped(f), f.op \in OrderForms \ {"new"}, NEW was \in Order, NEW is \in Order,
         OrderSound(was), Becomes(f, was, is),
         f.op = "correct" /\ was.refunds # << >> => f.values.payment = was.payment /\ f.values.received # 0,
         f.op = "undo" /\ HasBankPayment(was) => is.payment = "bank",
         f.op = "refund" => \A n \in DOMAIN was.refunds : was.refunds[n].id # f.id
  PROVE  Passes(was, is)
<1>1. f.op \in {"correct", "refund", "return", "undo", "cancel", "restore"}
  BY DEF OrderForms
<1>2. f.id \in Int /\ f.amount \in Int /\ (f.op = "return" => f.amount > 0)
  BY FormFields, FormAmounts
<1>3. CASE f.op = "correct"
  BY <1>3, CorrectPasses DEF Becomes
<1>4. CASE f.op = "refund"
  BY <1>2, <1>4, RefundPasses DEF Becomes
<1>5. CASE f.op = "return"
  BY <1>2, <1>5, ReturnPasses DEF Becomes
<1>6. CASE f.op = "undo"
  BY <1>6, UndoPasses DEF Becomes
<1>7. CASE f.op = "cancel"
  BY <1>7, ReversalPasses DEF Becomes
<1>8. CASE f.op = "restore"
  BY <1>8, ReversalPasses DEF Becomes
<1>. QED
  BY <1>1, <1>3, <1>4, <1>5, <1>6, <1>7, <1>8

-----------------------------------------------------------------------------
(* An order the server has accepted is sound again. *)

(* What a correction takes the place of could come back. *)
LEMMA CorrectionSound ==
  ASSUME NEW f, NEW was \in Order, NEW is \in Order, OrderSound(was), Corrected(f, was, is),
         is.version = was.version + 1, CheckRefund(was, is)
  PROVE  is.corrections # << >> /\ Last(is.corrections).versionAfter = is.version
         /\ MoneyHolds(is, Last(is.corrections).previous)
<1>1. PICK e \in Correction : is.corrections = Append(was.corrections, e) /\ Notes(was, e)
  BY DEF Corrected
<1>2. /\ is.refunds = was.refunds /\ is.returns = was.returns /\ is.cancelled = was.cancelled
  BY DEF Corrected
<1>3. is.corrections # << >> /\ Last(is.corrections) = e
  <2>1. was.corrections \in Seq(Correction)
    BY OrderLists
  <2>2. /\ Append(was.corrections, e) # << >>
        /\ Append(was.corrections, e)[Len(Append(was.corrections, e))] = e
    BY <2>1
  <2>. QED
    BY <1>1, <2>2 DEF Last
<1>4. e.versionAfter = is.version /\ SameValues(e.previous, was)
  BY <1>1 DEF Notes
<1>5. RefundsCovered(was) /\ ReturnsHold(was)
  BY SoundNow
<1>6. Refunded(is) = Refunded(was)
  BY <1>2, RefundsAlike
<1>7. was.refunds # << >> => is.payment = was.payment
  BY <1>2 DEF CheckRefund
<1>8. MoneyHolds(is, e.previous)
  BY <1>2, <1>4, <1>5, <1>6, <1>7 DEF MoneyHolds, RefundsCovered, ReturnsHold, SameValues, SamePayment
<1>. QED
  BY <1>3, <1>4, <1>8

LEMMA CorrectionsOld ==
  ASSUME NEW was \in Order, NEW is \in Order, OrderSound(was), is.corrections = was.corrections,
         is.version = was.version + 1, is.corrections # << >>
  PROVE  Last(is.corrections).versionAfter < is.version /\ Last(is.corrections).versionAfter \in Int
<1>1. Last(was.corrections) \in Correction
  BY OrderLists DEF Last
<1>2. Last(was.corrections).versionAfter \in Int /\ was.version \in Int
  BY <1>1, OrderNumbers DEF Correction
<1>3. Last(was.corrections).versionAfter <= was.version
  BY DEF OrderSound
<1>. QED
  BY <1>2, <1>3

LEMMA CoveredStays ==
  ASSUME NEW was \in Order, NEW is \in Order, is.refunds = was.refunds, CheckRefund(was, is), RefundsCovered(was)
  PROVE  RefundsCovered(is)
BY RefundsAlike DEF CheckRefund, RefundsCovered

(* What a form makes of a sound order is sound, if the checks let it through. *)
LEMMA BecomesSound ==
  ASSUME NEW f, FormTyped(f), f.op \in OrderForms \ {"new"}, NEW was \in Order, NEW is \in Order,
         OrderSound(was), Becomes(f, was, is), CheckRefund(was, is), ReturnsHold(is)
  PROVE  OrderSound(is)
<1>1. f.op \in {"correct", "refund", "return", "undo", "cancel", "restore"}
  BY DEF OrderForms
<1>2. f.id \in Int /\ f.amount \in Int /\ (f.op = "return" => f.amount > 0) /\ is.version = was.version + 1
  BY FormFields, FormAmounts DEF Becomes
<1>3. /\ f.op # "refund" => is.refunds = was.refunds
      /\ f.op # "return" => is.returns = was.returns
      /\ f.op # "correct" => is.corrections = was.corrections
  BY <1>1 DEF Becomes, Corrected, UndoneTo, RefundedBy, ReturnedBy, Reversed, SameLists
<1>4. RefundsCovered(was) /\ (was.returns # << >> => Total(was.returns) > 0)
  BY SoundNow
<1>5. RefundsCovered(is)
  BY <1>2, RefundCovers, <1>3, <1>4, CoveredStays DEF Becomes, RefundsCovered
<1>6. is.returns # << >> => Total(is.returns) > 0
  BY <1>2, ReturnPasses, <1>3, <1>4 DEF Becomes
<1>7. MoneyHolds(is, Values(is))
  BY <1>5, MoneyNow
<1>8. is.corrections # << >> =>
        /\ Last(is.corrections).versionAfter <= is.version
        /\ Last(is.corrections).versionAfter = is.version => MoneyHolds(is, Last(is.corrections).previous)
  BY OrderNumbers, <1>2, CorrectionSound, <1>3, CorrectionsOld DEF Becomes
<1>. QED
  BY <1>6, <1>7, <1>8 DEF OrderSound

-----------------------------------------------------------------------------
(* What the server makes of the row, and of the orders. *)

SameOrder(row, is) == KeptOf(row, is) /\ SameValues(is, row) /\ is.cancelled = row.cancelled

EvidenceWritten(was, row, is) ==
  /\ (was.evidence \cup CurrentFinancialEvidence(was)) \ {"receipt"} \subseteq is.evidence
  /\ "receipt" \in row.evidence => "receipt" \in is.evidence

LEMMA JustEvidenceOf ==
  ASSUME NEW order \in Order, NEW evidence \in SUBSET {"bank", "apple", "receipt"}
  PROVE  LET is == [order EXCEPT !.evidence = evidence] IN
           /\ is.evidence = evidence
           /\ is.payment = order.payment /\ is.appleId = order.appleId /\ is.paid = order.paid
           /\ is.received = order.received /\ is.cancelled = order.cancelled
BY DEF Order

LEMMA RowWritten ==
  ASSUME NEW orders, OrdersTyped(orders), NEW next, OrdersTyped(next), NEW o \in DOMAIN next,
         o \notin DOMAIN orders \/ next[o] # orders[o]
  PROVE  LET is == NormalizePaymentEvidence(orders, next)[o] IN
           SameOrder(next[o], is) /\ (o \in DOMAIN orders => EvidenceWritten(orders[o], next[o], is))
<1>a. PICK row : row = next[o]
  OBVIOUS
<1>. DEFINE known == o \in DOMAIN orders
            kept == IF known THEN orders[o].evidence \cup CurrentFinancialEvidence(orders[o]) ELSE {}
            payments == (kept \cup CurrentFinancialEvidence(row)) \ {"receipt"}
            evidence == payments \cup (row.evidence \cap {"receipt"})
            written == [row EXCEPT !.evidence = evidence]
<1>1. NormalizePaymentEvidence(orders, next)[o] = written
  BY <1>a DEF NormalizePaymentEvidence
<1>2. row \in Order
  BY <1>a DEF OrdersTyped
<1>3. kept \subseteq {"bank", "apple", "receipt"}
  BY EvidenceOf DEF OrdersTyped
<1>4. row.evidence \cup CurrentFinancialEvidence(row) \subseteq {"bank", "apple", "receipt"}
  BY <1>2, EvidenceOf
<1>5. known => kept = orders[o].evidence \cup CurrentFinancialEvidence(orders[o])
  OBVIOUS
<1>. HIDE DEF kept
<1>6. evidence \in SUBSET {"bank", "apple", "receipt"}
  BY <1>3, <1>4
<1>7. kept \ {"receipt"} \subseteq evidence /\ ("receipt" \in row.evidence => "receipt" \in evidence)
  OBVIOUS
<1>. HIDE DEF evidence
<1>8. SameOrder(row, written) /\ written.evidence = evidence
  BY <1>2, <1>6, JustEvidence, JustEvidenceOf DEF SameOrder, KeptOf, SameValues, SamePayment
<1>. HIDE DEF written
<1>9. o \in DOMAIN orders => EvidenceWritten(orders[o], row, written)
  BY <1>5, <1>7, <1>8 DEF EvidenceWritten
<1>. QED
  BY <1>a, <1>1, <1>8, <1>9

LEMMA BecomesWritten ==
  ASSUME NEW f, NEW was, NEW row, Becomes(f, was, row), NEW is, SameOrder(row, is)
  PROVE  Becomes(f, was, is)
BY DEF SameOrder, KeptOf, SameValues, SamePayment, Corrected, UndoneTo, SameLists, RefundedBy,
   ReturnedBy, Reversed, Becomes

(* No confirmed money is forgotten. *)
LEMMA MoneyStays ==
  ASSUME NEW was \in Order, NEW row \in Order, NEW is \in Order, EvidenceStays(was, row),
         SameOrder(row, is), EvidenceWritten(was, row, is), IsPrefix(was.corrections, row.corrections),
         HasConfirmedMoney(was)
  PROVE  HasConfirmedMoney(is)
<1>1. PICK x : x \in FinancialEvidence(was)
  BY ConfirmedIsEvidence
<1>2. CASE x \in was.evidence \cup CurrentFinancialEvidence(was) /\ x # "receipt"
  BY <1>2 DEF EvidenceWritten, HasConfirmedMoney
<1>3. CASE x \in was.evidence /\ x = "receipt"
  BY <1>3 DEF EvidenceStays, EvidenceWritten, HasConfirmedMoney
<1>4. CASE x \in CurrentFinancialEvidence(was) /\ x = "receipt"
  BY <1>4, OrderEvidence DEF CurrentFinancialEvidence, EvidenceStays, SameOrder, SameValues,
     EvidenceWritten, HasConfirmedMoney
<1>5. ASSUME NEW n \in DOMAIN was.corrections, x \in CurrentFinancialEvidence(was.corrections[n].previous)
      PROVE  HasConfirmedMoney(is)
  <2>1. was.corrections \in Seq(Correction) /\ row.corrections \in Seq(Correction)
    BY OrderLists
  <2>2. n \in DOMAIN row.corrections /\ row.corrections[n] = was.corrections[n]
    BY <2>1 DEF IsPrefix
  <2>3. is.corrections = row.corrections
    BY DEF SameOrder, KeptOf
  <2>. QED
    BY <1>5, <2>2, <2>3 DEF HasConfirmedMoney
<1>. QED
  BY <1>1, <1>2, <1>3, <1>4, <1>5 DEF FinancialEvidence

-----------------------------------------------------------------------------
(* All the orders, as the server would store what a form makes of one. *)

MoneyKept(was, is) == HasConfirmedMoney(was) => HasConfirmedMoney(is)

Rewritten(f, orders, next) ==
  /\ OrdersTyped(next) /\ OrdersPlanned(f, orders, next)
  /\ Becomes(f, orders[f.target], next[f.target])
  /\ MoneyKept(orders[f.target], next[f.target])

(* A form of an order stores that order rewritten, and no other. *)
LEMMA FormStores ==
  ASSUME NEW f, FormTyped(f), f.op \in OrderForms \ {"new"}, NEW orders, OrdersTyped(orders),
         NEW ledger, LedgerTyped(ledger), PlanFor(f, orders, ledger).ok
  PROVE  Rewritten(f, orders, NormalizePaymentEvidence(orders, PlanFor(f, orders, ledger).orders))
<1>a. PICK next : next = PlanFor(f, orders, ledger).orders
  OBVIOUS
<1>b. PICK is : is = NormalizePaymentEvidence(orders, next)
  OBVIOUS
<1>1. PlanGood(f, orders, ledger, PlanFor(f, orders, ledger))
  BY PlansAreGood
<1>2. OrdersTyped(next) /\ OrdersPlanned(f, orders, next)
  BY <1>a, <1>1 DEF PlanGood
<1>3. OrdersTyped(is) /\ OrdersPlanned(f, orders, is)
  BY <1>b, <1>2, NormalizedTyped, PlannedStays
<1>4. About(f, orders) /\ Rewrites(f, orders, ledger, PlanFor(f, orders, ledger))
  BY PlanMakes
<1>5. PICK t : t = f.target
  OBVIOUS
<1>6. t \in DOMAIN orders /\ t \in DOMAIN next /\ t \in DOMAIN is
  BY <1>2, <1>3, <1>4, <1>5 DEF OrdersPlanned, About
<1>7. PICK was : was = orders[t]
  OBVIOUS
<1>8. PICK row : row = next[t]
  OBVIOUS
<1>9. was \in Order /\ row \in Order /\ is[t] \in Order
  BY <1>2, <1>3, <1>6, <1>7, <1>8 DEF OrdersTyped
<1>10. Becomes(f, was, row) /\ EvidenceStays(was, row)
  BY <1>a, <1>4, <1>5, <1>7, <1>8 DEF Rewrites
<1>11. row # was
  BY <1>10, <1>9, OrderNumbers DEF Becomes
<1>12. SameOrder(row, is[t]) /\ EvidenceWritten(was, row, is[t])
  BY <1>b, <1>2, <1>6, <1>7, <1>8, <1>11, RowWritten
<1>13. Becomes(f, was, is[t])
  BY <1>10, <1>12, BecomesWritten
<1>14. IsPrefix(was.corrections, row.corrections)
  BY <1>2, <1>5, <1>7, <1>8 DEF OrdersPlanned, OrderGrows
<1>15. HasConfirmedMoney(was) => HasConfirmedMoney(is[t])
  BY <1>9, <1>10, <1>12, <1>14, MoneyStays
<1>16. Rewritten(f, orders, is)
  BY <1>3, <1>5, <1>7, <1>13, <1>15 DEF Rewritten, MoneyKept
<1>. QED
  BY <1>a, <1>b, <1>16

(* A new order has nothing refunded, returned or corrected yet. *)
Blank(order) == order.refunds = << >> /\ order.returns = << >> /\ order.corrections = << >>

Starts(f, ledger, row, charged) ==
  row \in Order /\ row.id = f.id /\ Blank(row) /\ ChargedAs(ledger, row, FALSE, f.id, charged)

LEMMA NewMakes ==
  ASSUME NEW f, FormTyped(f), f.op = "new", NEW orders, NEW ledger, PlanFor(f, orders, ledger).ok
  PROVE  \E row : /\ Starts(f, ledger, row, PlanFor(f, orders, ledger).ledger)
                  /\ PlanFor(f, orders, ledger).orders[f.id] = row
<1>1. f.id \in Nat \ {0} /\ f.target \in Nat /\ f.kind \in {"stock", "renewal"} /\ f.values \in Value
  BY FormFields, FormRest
<1>a. PICK row : row = NewOrder(f.id, f.kind, f.target, f.values)
  OBVIOUS
<1>b. PICK charge : charge = CommitOrder(ledger, row, FALSE, f.id)
  OBVIOUS
<1>c. PICK plan : plan = PlanFor(f, orders, ledger)
  OBVIOUS
<1>2. row \in Order /\ row.id = f.id
  BY <1>a, <1>1, NewTyped
<1>3. Blank(row)
  BY <1>a DEF NewOrder, Blank
<1>4. plan = PlanOrder(f, orders, ledger)
  BY <1>c, NotPlanned DEF PlanFor, SeenLast, OrderForms
<1>5. plan = WithOrder(row, orders, charge)
  BY <1>a, <1>b, <1>4 DEF PlanOrder
<1>6. plan.ok = charge.ok /\ plan.ledger = charge.ledger /\ plan.orders[row.id] = row
  BY <1>5, WithOrderParts
<1>7. plan.ok
  BY <1>c
<1>8. ChargedAs(ledger, row, FALSE, f.id, plan.ledger)
  BY <1>b, <1>6, <1>7 DEF ChargedAs
<1>9. Starts(f, ledger, row, plan.ledger) /\ plan.orders[f.id] = row
  BY <1>2, <1>3, <1>6, <1>8 DEF Starts
<1>. QED
  BY <1>c, <1>9

Started(f, orders, next, ledger, charged) ==
  /\ OrdersTyped(next)
  /\ DOMAIN next = DOMAIN orders \cup {f.id} /\ \A o \in DOMAIN orders : next[o] = orders[o]
  /\ \E row : Starts(f, ledger, row, charged) /\ SameOrder(row, next[f.id])

(* A form for a new order stores one order more. *)
LEMMA NewStores ==
  ASSUME NEW f, FormTyped(f), f.op = "new", NEW orders, OrdersTyped(orders), f.id \notin DOMAIN orders,
         NEW ledger, LedgerTyped(ledger), PlanFor(f, orders, ledger).ok
  PROVE  Started(f, orders, NormalizePaymentEvidence(orders, PlanFor(f, orders, ledger).orders),
                 ledger, PlanFor(f, orders, ledger).ledger)
<1>a. PICK next : next = PlanFor(f, orders, ledger).orders
  OBVIOUS
<1>b. PICK is : is = NormalizePaymentEvidence(orders, next)
  OBVIOUS
<1>c. PICK charged : charged = PlanFor(f, orders, ledger).ledger
  OBVIOUS
<1>1. PlanGood(f, orders, ledger, PlanFor(f, orders, ledger)) /\ f.op \in OrderForms
  BY PlansAreGood DEF OrderForms
<1>2. OrdersTyped(next) /\ OrdersPlanned(f, orders, next)
  BY <1>a, <1>1 DEF PlanGood
<1>3. OrdersTyped(is) /\ OrdersPlanned(f, orders, is)
  BY <1>b, <1>2, NormalizedTyped, PlannedStays
<1>4. DOMAIN is = DOMAIN orders \cup {f.id} /\ f.id \in DOMAIN next
  BY <1>2, <1>3 DEF OrdersPlanned, Own
<1>5. \A o \in DOMAIN orders : is[o] = orders[o]
  BY <1>3 DEF OrdersPlanned, Own
<1>6. PICK row : Starts(f, ledger, row, charged) /\ next[f.id] = row
  BY <1>a, <1>c, NewMakes
<1>7. SameOrder(row, is[f.id])
  BY <1>b, <1>2, <1>4, <1>6, RowWritten
<1>8. Started(f, orders, is, ledger, charged)
  BY <1>3, <1>4, <1>5, <1>6, <1>7 DEF Started
<1>. QED
  BY <1>a, <1>b, <1>c, <1>8

-----------------------------------------------------------------------------
(* The server's own checks of the orders, row by row. *)

AllSound(orders) == \A o \in DOMAIN orders : OrderSound(orders[o])

Carries(was, is) ==
  /\ Passes(was, is) /\ MoneyKept(was, is)
  /\ IsPrefix(was.refunds, is.refunds) /\ IsPrefix(was.returns, is.returns)

Passed(orders, next) ==
  CheckBankPayments(orders, next) /\ CheckBankReturns(orders, next) /\ CheckOrderFinancialHistory(orders, next)

(* Orders that pass one by one pass together. *)
LEMMA RowsPass ==
  ASSUME NEW orders, NEW next,
         \A o \in DOMAIN orders : o \in DOMAIN next /\ Carries(orders[o], next[o]),
         \A o \in DOMAIN next : o \in DOMAIN orders \/ ReturnsHold(next[o])
  PROVE  Passed(orders, next)
BY DEF CheckBankPayments, Carries, Passes, CheckBankReturns, ReturnsHold, MoneyKept,
   CheckOrderFinancialHistory, Passed

LEMMA SoundCarries ==
  ASSUME NEW order \in Order, OrderSound(order)
  PROVE  Carries(order, order)
BY SameRefunds, SoundNow, OrderItself DEF Carries, Passes, MoneyKept, HasBankPayment

(* What the page lets through and the server does not. *)
LetThrough(f, order) ==
  \/ /\ f.op = "undo" /\ HasBankPayment(order) /\ Undone(order).payment # "bank"
  \/ /\ f.op = "correct" /\ order.refunds # << >>
     /\ f.values.payment # order.payment \/ f.values.received = 0

(* The refund a form makes gets a number the order has no refund by. *)
Unheard(f, order) == \A n \in DOMAIN order.refunds : order.refunds[n].id # f.id

(* The order as a correction taken back would have it. *)
LEMMA UndoneParts ==
  ASSUME NEW was \in Order, was.corrections # << >>
  PROVE  /\ Undone(was) \in Order /\ Undone(was).id = was.id
         /\ SameValues(Undone(was), Last(was.corrections).previous)
<1>1. was.corrections \in Seq(Correction)
  BY OrderLists
<1>2. PICK e : e = Last(was.corrections)
  OBVIOUS
<1>3. e \in Correction
  BY <1>1, <1>2 DEF Last
<1>4. PICK v : v = e.previous
  OBVIOUS
<1>5. v \in Value
  BY <1>3, <1>4 DEF Correction
<1>6. Undone(was) = WithValues(was, v)
  BY <1>2, <1>4 DEF Undone
<1>7. SameValues(WithValues(was, v), v) /\ WithValues(was, v) \in Order /\ WithValues(was, v).id = was.id
  BY <1>5, WithValuesSame, WithValuesTyped
<1>. QED
  BY <1>2, <1>4, <1>6, <1>7

(* A form of an order is let through by the checks of orders ... *)
LEMMA OldPasses ==
  ASSUME NEW f, FormTyped(f), f.op \in OrderForms \ {"new"}, NEW orders, OrdersTyped(orders), AllSound(orders),
         NEW next, Rewritten(f, orders, next), ~LetThrough(f, orders[f.target]), Unheard(f, orders[f.target])
  PROVE  Passed(orders, next)
<1>1. PICK t : t = f.target
  OBVIOUS
<1>2. OrdersTyped(next) /\ OrdersPlanned(f, orders, next)
  BY DEF Rewritten
<1>3. /\ DOMAIN next = DOMAIN orders \cup {t} /\ \A o \in DOMAIN orders : o # t => next[o] = orders[o]
      /\ t \in DOMAIN orders /\ OrderGrows(orders[t], next[t])
  BY <1>1, <1>2 DEF OrdersPlanned, Own
<1>4. PICK was : was = orders[t]
  OBVIOUS
<1>5. PICK is : is = next[t]
  OBVIOUS
<1>6. was \in Order /\ is \in Order /\ OrderSound(was)
  BY <1>2, <1>3, <1>4, <1>5 DEF OrdersTyped, AllSound
<1>7. Becomes(f, was, is) /\ MoneyKept(was, is)
  BY <1>1, <1>4, <1>5 DEF Rewritten
<1>8. f.op = "correct" /\ was.refunds # << >> => f.values.payment = was.payment /\ f.values.received # 0
  BY <1>1, <1>4 DEF LetThrough
<1>9. ASSUME f.op = "undo", HasBankPayment(was)
      PROVE  is.payment = "bank"
  BY <1>1, <1>4, <1>9, <1>7, <1>6, UndoneParts DEF LetThrough, Becomes, UndoneTo, SameValues,
     SamePayment
<1>10. \A n \in DOMAIN was.refunds : was.refunds[n].id # f.id
  BY <1>1, <1>4 DEF Unheard
<1>11. Passes(was, is)
  BY <1>6, <1>7, <1>8, <1>9, <1>10, FormPasses
<1>12. Carries(was, is)
  BY <1>3, <1>4, <1>5, <1>7, <1>11 DEF Carries, OrderGrows
<1>13. ASSUME NEW o \in DOMAIN orders
       PROVE  o \in DOMAIN next /\ Carries(orders[o], next[o])
  BY <1>3, <1>4, <1>5, <1>12, SoundCarries DEF OrdersTyped, AllSound
<1>. QED
  BY <1>3, <1>13, RowsPass

(* ... and so is a form for a new one. *)
LEMMA NewPasses ==
  ASSUME NEW f, NEW orders, OrdersTyped(orders), AllSound(orders),
         NEW next, NEW ledger, NEW charged, Started(f, orders, next, ledger, charged)
  PROVE  Passed(orders, next) /\ AllSound(next)
<1>1. PICK is : is = next[f.id]
  OBVIOUS
<1>2. PICK row : Starts(f, ledger, row, charged) /\ SameOrder(row, is)
  BY <1>1 DEF Started
<1>3. Blank(is)
  BY <1>2 DEF Starts, SameOrder, KeptOf, Blank
<1>4. OrderSound(is) /\ ReturnsHold(is)
  BY <1>3 DEF Blank, OrderSound, MoneyHolds, ReturnsHold
<1>5. DOMAIN next = DOMAIN orders \cup {f.id} /\ \A o \in DOMAIN orders : next[o] = orders[o]
  BY DEF Started
<1>6. \A o \in DOMAIN orders : o \in DOMAIN next /\ Carries(orders[o], next[o])
  BY <1>5, SoundCarries DEF OrdersTyped, AllSound
<1>7. \A o \in DOMAIN next : o \in DOMAIN orders \/ ReturnsHold(next[o])
  BY <1>1, <1>4, <1>5
<1>8. Passed(orders, next)
  BY <1>6, <1>7, RowsPass
<1>9. AllSound(next)
  BY <1>1, <1>4, <1>5 DEF AllSound
<1>. QED
  BY <1>8, <1>9

(* The orders stored are sound again. *)
LEMMA OldSound ==
  ASSUME NEW f, FormTyped(f), f.op \in OrderForms \ {"new"}, NEW orders, OrdersTyped(orders), AllSound(orders),
         NEW next, Rewritten(f, orders, next), Passed(orders, next)
  PROVE  AllSound(next)
BY BecomesSound DEF Rewritten, OrdersPlanned, Own, OrdersTyped, AllSound, Passed,
   CheckOrderFinancialHistory, CheckBankReturns, ReturnsHold

-----------------------------------------------------------------------------
(* The ledger a form about orders leaves is one the server keeps. *)

BalanceSound(l, orders) ==
  LedgerTyped(l) /\ 0 \notin DOMAIN l.refunds /\ LedgerSound(l, orders) /\ SelfKept(l)

LEMMA ChargedKeeps ==
  ASSUME NEW l, NEW orders, BalanceSound(l, orders), NEW row \in Order, NEW next, Repays(orders, next, row),
         NEW reversal, NEW form \in Int, NEW is, ChargedAs(l, row, reversal, form, is)
  PROVE  Keepable(l, is, next)
BY CommitKeeps DEF BalanceSound, ChargedAs

(* The server stores the ledger of a new order. *)
LEMMA NewKeeps ==
  ASSUME NEW f, FormTyped(f), NEW l, NEW orders, BalanceSound(l, orders), f.id \notin DOMAIN orders,
         NEW next, NEW charged, Started(f, orders, next, l, charged)
  PROVE  Keepable(l, charged, next)
<1>1. PICK row : Starts(f, l, row, charged) /\ SameOrder(row, next[f.id])
  BY DEF Started
<1>2. row \in Order /\ row.id = f.id /\ ChargedAs(l, row, FALSE, f.id, charged)
  BY <1>1 DEF Starts
<1>3. next[f.id].refunds = << >> /\ SamePayment(next[f.id], row)
  BY <1>1 DEF Starts, Blank, SameOrder, KeptOf, SameValues
<1>4. DOMAIN next = DOMAIN orders \cup {f.id} /\ \A o \in DOMAIN orders : next[o] = orders[o]
  BY DEF Started
<1>5. Repays(orders, next, row)
  BY <1>2, <1>3, <1>4 DEF Repays, SamePayment
<1>6. f.id \in Int
  BY FormFields
<1>7. PICK unsaid : unsaid = FALSE
  OBVIOUS
<1>8. ChargedAs(l, row, unsaid, f.id, charged)
  BY <1>2, <1>7
<1>. QED
  BY <1>2, <1>5, <1>6, <1>8, ChargedKeeps

LEMMA OldParts ==
  ASSUME NEW f, f.op \in OrderForms \ {"new"}, NEW orders, OrdersTyped(orders),
         NEW next, Rewritten(f, orders, next)
  PROVE  /\ DOMAIN next = DOMAIN orders /\ \A o \in DOMAIN orders : o # f.target => next[o] = orders[o]
         /\ f.target \in DOMAIN orders /\ orders[f.target] \in Order /\ orders[f.target].id = f.target
         /\ next[f.target] \in Order
BY DEF Rewritten, OrdersPlanned, Own, OrdersTyped

LEMMA OldRepays ==
  ASSUME NEW f, f.op \in {"correct", "undo"}, NEW orders, OrdersTyped(orders), NEW next, Rewritten(f, orders, next),
         NEW row \in Order, row.id = f.target, SamePayment(next[f.target], row)
  PROVE  Repays(orders, next, row)
<1>1. f.op \in OrderForms \ {"new"}
  BY DEF OrderForms
<1>2. /\ DOMAIN next = DOMAIN orders /\ \A o \in DOMAIN orders : o # f.target => next[o] = orders[o]
      /\ f.target \in DOMAIN orders
  BY <1>1, OldParts
<1>3. Becomes(f, orders[f.target], next[f.target])
  BY DEF Rewritten
<1>4. next[f.target].refunds = orders[f.target].refunds
  BY <1>3 DEF Becomes, Corrected, UndoneTo, SameLists
<1>. QED
  BY <1>2, <1>4 DEF Repays, SamePayment

(* The server stores the ledger of a corrected order ... *)
LEMMA CorrectKeeps ==
  ASSUME NEW f, FormTyped(f), f.op = "correct", NEW l, NEW orders, OrdersTyped(orders), BalanceSound(l, orders),
         NEW next, Rewritten(f, orders, next), NEW is, LedgerFor(f, orders[f.target], l, is)
  PROVE  Keepable(l, is, next)
<1>1. PICK was : was = orders[f.target]
  OBVIOUS
<1>2. was \in Order /\ was.id = f.target
  BY <1>1, OldParts DEF OrderForms
<1>3. f.values \in Value /\ f.id \in Int
  BY FormFields, FormRest
<1>4. PICK row : row = WithValues(was, f.values)
  OBVIOUS
<1>5. row \in Order /\ row.id = f.target /\ SameValues(row, f.values)
  BY <1>2, <1>3, <1>4, WithValuesTyped, WithValuesSame
<1>6. SameValues(next[f.target], f.values)
  BY <1>1 DEF Rewritten, Becomes, Corrected
<1>7. SamePayment(next[f.target], row)
  BY <1>5, <1>6 DEF SameValues, SamePayment
<1>8. Repays(orders, next, row)
  BY <1>5, <1>7, OldRepays
<1>9. ChargedAs(l, row, f.reversal, f.id, is)
  BY <1>1, <1>4 DEF LedgerFor
<1>. QED
  BY <1>3, <1>5, <1>8, <1>9, ChargedKeeps

(* ... of one with a correction taken back ... *)
LEMMA UndoneKeeps ==
  ASSUME NEW f, FormTyped(f), f.op = "undo", NEW l, NEW orders, OrdersTyped(orders), BalanceSound(l, orders),
         NEW next, Rewritten(f, orders, next), NEW is, LedgerFor(f, orders[f.target], l, is)
  PROVE  Keepable(l, is, next)
<1>1. PICK was : was = orders[f.target]
  OBVIOUS
<1>2. was \in Order /\ was.id = f.target
  BY <1>1, OldParts DEF OrderForms
<1>3. f.id \in Int
  BY FormFields
<1>4. PICK row : row = Undone(was)
  OBVIOUS
<1>5. was.corrections # << >> /\ SameValues(next[f.target], Last(was.corrections).previous)
  BY <1>1 DEF Rewritten, Becomes, UndoneTo
<1>6. row \in Order /\ row.id = f.target /\ SameValues(row, Last(was.corrections).previous)
  BY <1>2, <1>4, <1>5, UndoneParts
<1>7. SamePayment(next[f.target], row)
  BY <1>5, <1>6 DEF SameValues, SamePayment
<1>8. Repays(orders, next, row)
  BY <1>6, <1>7, OldRepays
<1>9. ChargedAs(l, row, f.reversal, f.id, is)
  BY <1>1, <1>4 DEF LedgerFor
<1>. QED
  BY <1>3, <1>6, <1>8, <1>9, ChargedKeeps

LEMMA OldFollows ==
  ASSUME NEW f, f.op \in {"refund", "return", "cancel", "restore"}, NEW orders, OrdersTyped(orders),
         NEW next, Rewritten(f, orders, next)
  PROVE  Follows(orders, next)
<1>1. f.op \in OrderForms \ {"new"}
  BY DEF OrderForms
<1>2. /\ DOMAIN next = DOMAIN orders /\ \A o \in DOMAIN orders : o # f.target => next[o] = orders[o]
      /\ f.target \in DOMAIN orders /\ orders[f.target] \in Order /\ next[f.target] \in Order
  BY <1>1, OldParts
<1>3. PICK was : was = orders[f.target]
  OBVIOUS
<1>4. PICK is : is = next[f.target]
  OBVIOUS
<1>5. Becomes(f, was, is) /\ OrderGrows(was, is)
  BY <1>1, <1>3, <1>4 DEF Rewritten, OrdersPlanned
<1>6. SamePayment(is, was)
  BY <1>5 DEF Becomes, RefundedBy, ReturnedBy, Reversed, SameValues
<1>7. \A n \in DOMAIN was.refunds : n \in DOMAIN is.refunds /\ is.refunds[n] = was.refunds[n]
  <2>1. IsPrefix(was.refunds, is.refunds)
    BY <1>5 DEF OrderGrows
  <2>2. PICK T : T = [id : Int, amount : Int, payment : {"bank", "apple"}]
    OBVIOUS
  <2>3. was.refunds \in Seq(T) /\ is.refunds \in Seq(T)
    BY <1>2, <1>3, <1>4, <2>2, OrderLists
  <2>. QED
    BY <2>1, <2>3 DEF IsPrefix
<1>8. ASSUME NEW o \in DOMAIN orders
      PROVE  /\ SamePayment(next[o], orders[o])
             /\ \A n \in DOMAIN orders[o].refunds :
                  n \in DOMAIN next[o].refunds /\ next[o].refunds[n] = orders[o].refunds[n]
  BY <1>3, <1>4, <1>6, <1>7, <1>2 DEF SamePayment
<1>. QED
  BY <1>2, <1>8 DEF Follows

(* No refund more is asked of Apple. *)
NoneAsked(orders, next) ==
  \A o \in DOMAIN next : \A n \in DOMAIN next[o].refunds :
    next[o].refunds[n].payment = "apple" => n \in DOMAIN orders[o].refunds

LEMMA OldKeeps ==
  ASSUME NEW f, f.op \in {"refund", "return", "cancel", "restore"}, NEW orders, OrdersTyped(orders),
         NEW l, BalanceSound(l, orders), NEW next, Rewritten(f, orders, next), NoneAsked(orders, next)
  PROVE  Keepable(l, l, next)
BY OldFollows, FollowedKeeps DEF BalanceSound, NoneAsked

(* ... of one cancelled, restored or with money returned ... *)
LEMMA ReversedKeeps ==
  ASSUME NEW f, f.op \in {"return", "cancel", "restore"}, NEW orders, OrdersTyped(orders),
         NEW l, BalanceSound(l, orders), NEW next, Rewritten(f, orders, next),
         NEW is, LedgerFor(f, orders[f.target], l, is)
  PROVE  Keepable(l, is, next)
<1>1. f.op \in OrderForms \ {"new"}
  BY DEF OrderForms
<1>2. DOMAIN next = DOMAIN orders /\ \A o \in DOMAIN orders : o # f.target => next[o] = orders[o]
  BY <1>1, OldParts
<1>3. Becomes(f, orders[f.target], next[f.target])
  BY DEF Rewritten
<1>4. next[f.target].refunds = orders[f.target].refunds
  BY <1>3 DEF Becomes, ReturnedBy, Reversed, SameLists
<1>5. NoneAsked(orders, next)
  BY <1>2, <1>4 DEF NoneAsked
<1>6. is = l
  BY DEF LedgerFor
<1>. QED
  BY <1>5, <1>6, OldKeeps

(* ... and of one with a refund. *)
LEMMA RefundedKeeps ==
  ASSUME NEW f, FormTyped(f), f.op = "refund", NEW orders, OrdersTyped(orders),
         NEW l, BalanceSound(l, orders), f.id \notin DOMAIN l.refunds,
         NEW next, Rewritten(f, orders, next), NEW is, LedgerFor(f, orders[f.target], l, is)
  PROVE  Keepable(l, is, next)
<1>1. f.op \in OrderForms \ {"new"}
  BY DEF OrderForms
<1>2. /\ DOMAIN next = DOMAIN orders /\ \A o \in DOMAIN orders : o # f.target => next[o] = orders[o]
      /\ f.target \in DOMAIN orders /\ orders[f.target] \in Order /\ orders[f.target].id = f.target
  BY <1>1, OldParts
<1>3. PICK was : was = orders[f.target]
  OBVIOUS
<1>4. RefundedBy(f, was, next[f.target])
  BY <1>3 DEF Rewritten, Becomes
<1>5. PICK T : T = [id : Int, amount : Int, payment : {"bank", "apple"}]
  OBVIOUS
<1>6. was.refunds \in Seq(T) /\ was.payment \in {"bank", "apple"}
  BY <1>2, <1>3, <1>5, OrderLists, OrderEvidence
<1>7. PICK e : e = RefundOf(f, was)
  OBVIOUS
<1>8. e \in T /\ e.id = f.id /\ e.payment = was.payment
  BY <1>5, <1>6, <1>7, FormFields DEF RefundOf
<1>9. next[f.target].refunds = Append(was.refunds, e)
  BY <1>4, <1>7 DEF RefundedBy
<1>10. /\ Len(was.refunds) + 1 \in DOMAIN next[f.target].refunds
       /\ next[f.target].refunds[Len(was.refunds) + 1] = e
       /\ \A n \in DOMAIN next[f.target].refunds :
            n \in DOMAIN was.refunds \/ next[f.target].refunds[n] = e
  BY <1>6, <1>8, <1>9
<1>11. CASE was.payment = "apple"
  BY <1>3, <1>11, OldFollows, <1>8, <1>10, <1>2, PrepareKeeps DEF LedgerFor, AskedOf, Asked,
     BalanceSound
<1>12. CASE was.payment = "bank"
  BY <1>3, <1>12, <1>2, <1>8, <1>10, OldKeeps DEF LedgerFor, NoneAsked
<1>. QED
  BY <1>6, <1>11, <1>12

(* A form about orders, made on what is stored. *)
LEMMA OrderKeeps ==
  ASSUME NEW f, FormTyped(f), f.op \in OrderForms, NEW orders, OrdersTyped(orders),
         NEW l, BalanceSound(l, orders), PlanFor(f, orders, l).ok,
         f.op = "new" => f.id \notin DOMAIN orders, f.op = "refund" => f.id \notin DOMAIN l.refunds
  PROVE  Keepable(l, PlanFor(f, orders, l).ledger,
                  NormalizePaymentEvidence(orders, PlanFor(f, orders, l).orders))
<1>a. PICK next : next = NormalizePaymentEvidence(orders, PlanFor(f, orders, l).orders)
  OBVIOUS
<1>b. PICK is : is = PlanFor(f, orders, l).ledger
  OBVIOUS
<1>1. LedgerTyped(l)
  BY DEF BalanceSound
<1>2. CASE f.op = "new"
  BY <1>1, <1>2, NewStores, NewKeeps
<1>3. CASE f.op # "new"
  BY <1>3, <1>a, <1>1, FormStores, <1>b, PlanMakes, CorrectKeeps, UndoneKeeps, ReversedKeeps,
     RefundedKeeps DEF Rewrites, OrderForms
<1>. QED
  BY <1>2, <1>3

(* A form of the ledger, made on the ledger that is stored. *)
LEMMA LedgerKeeps ==
  ASSUME NEW f, FormTyped(f), f.op \in LedgerForms, NEW seen, NEW l, PlanFor(f, seen, l).ok,
         NEW orders, BalanceSound(l, orders)
  PROVE  Keepable(l, PlanFor(f, seen, l).ledger, orders)
<1>a. PICK plan : plan = PlanFor(f, seen, l)
  OBVIOUS
<1>1. f.op \in {"adjust", "undo-adjust", "amend", "receive"}
  BY DEF LedgerForms
<1>2. plan = PlanLedger(f, seen, l) /\ plan.ok
  BY <1>a, <1>1, NotPlanned DEF PlanFor, OrderForms, SeenLast
<1>3. /\ f.target \in Nat /\ f.id \in Nat \ {0} /\ f.id \in Int /\ f.amount \in Int
      /\ f.op = "amend" => f.amount \in Nat
      /\ f.op = "adjust" => f.appleId \in AppleIds
  <2>1. f.op = "adjust" => f.appleId \in AppleIds
    BY DEF FormTyped
  <2>2. f.op = "amend" => f.amount \in Int /\ f.amount >= 0
    BY FormFields, FormAmounts
  <2>. QED
    BY <2>1, <2>2, FormFields
<1>4. LedgerTyped(l) /\ LedgerSound(l, orders) /\ SelfKept(l)
  BY DEF BalanceSound
<1>5. ASSUME NEW result, plan = WithLedger(seen, result)
      PROVE  result.ok /\ plan.ledger = result.ledger
  BY <1>2, <1>5, PlanParts DEF WithLedger
<1>6. CASE f.op = "adjust"
  BY <1>2, <1>6, <1>5, <1>3, <1>4, AdjustKeeps, <1>a DEF PlanLedger
<1>7. CASE f.op = "undo-adjust"
  BY <1>2, <1>7, <1>5, <1>3, <1>4, UndoKeeps, <1>a DEF PlanLedger
<1>8. CASE f.op = "amend"
  BY <1>2, <1>8, <1>5, <1>3, <1>4, AmendKeeps, <1>a DEF PlanLedger
<1>9. CASE f.op = "receive"
  BY <1>2, <1>9, <1>5, <1>3, <1>4, ReceiveKeeps, <1>a DEF PlanLedger
<1>. QED
  BY <1>1, <1>6, <1>7, <1>8, <1>9

-----------------------------------------------------------------------------
(* What holds of the documents stored, beyond what their checks ask.  The   *)
(* numbers of their refunds were drawn by forms that took effect and made   *)
(* no order, or before the desk opened.                                     *)

Spends(n) == effects[n] >= 1 /\ EnteredBy(n) = {}

Drawn(x) == \E n \in 1..MaxForms : DrawnFor(n, x) /\ (n = 1 \/ Spends(n))

DrawnIn(order) == \A n \in DOMAIN order.refunds : Drawn(order.refunds[n].id)

NumbersDrawn == \A o \in DOMAIN commerce.orders : DrawnIn(commerce.orders[o])

PageSound == AllSound(commerce.orders) /\ SelfKept(balance) /\ NumbersDrawn

LEMMA RefundNumbers ==
  ASSUME Typed, NumbersDrawn, NEW q \in DOMAIN balance.refunds
  PROVE  Drawn(q)
BY DEF Typed, StoreTyped, LedgerSound, RefundsMatch, NumbersDrawn, DrawnIn

LEMMA NeverZero ==
  ASSUME NEW n \in 1..MaxForms
  PROVE  ~DrawnFor(n, 0)
BY MaxFormsBound DEF DrawnFor

LEMMA BalanceIsSound ==
  ASSUME Typed, PageSound
  PROVE  BalanceSound(balance, commerce.orders)
BY RefundNumbers, NeverZero DEF PageSound, Drawn, BalanceSound, Typed, StoreTyped

(* A form whose next effect is its first, or that of a form for a new order. *)
Untaken(f) ==
  /\ f.n \in 2..MaxForms /\ f.n \in 1..MaxForms
  /\ ~IsNew(f) => effects[f.n] = 0
  /\ IsNew(f) => f.id \notin DOMAIN commerce.orders /\ ~Spends(f.n)

LEMMA FreshNumber ==
  ASSUME NEW f, FormTyped(f), Untaken(f), Typed
  PROVE  ~Drawn(f.id)
<1>1. SUFFICES ASSUME NEW n \in 1..MaxForms, DrawnFor(n, f.id), n = 1 \/ Spends(n)
               PROVE  FALSE
  BY DEF Drawn
<1>2. DrawnFor(f.n, f.id)
  BY DEF FormTyped
<1>3. f.n \in 1..MaxForms /\ f.n # 1 /\ ~Spends(f.n)
  BY MaxFormsBound DEF Untaken, Spends
<1>4. n = f.n
  BY <1>1, <1>2, <1>3, DrawnByOne
<1>. QED
  BY <1>1, <1>3, <1>4

(* Nothing in the documents has the number of such a form. *)
LEMMA FreshForm ==
  ASSUME NEW f, FormTyped(f), Untaken(f), Typed, Placed, PageSound
  PROVE  /\ f.op = "new" => f.id \notin DOMAIN commerce.orders
         /\ f.id \notin DOMAIN balance.refunds
         /\ \A o \in DOMAIN commerce.orders : Unheard(f, commerce.orders[o])
BY FreshNumber, RefundNumbers, FormFields, MaxFormsBound DEF PageSound, NumbersDrawn, DrawnIn,
   Unheard, Untaken, IsNew

-----------------------------------------------------------------------------
(* Where a request comes from: copies of the two documents, each as it was  *)
(* stored at some time, and what the page made of the form on them.         *)

MadeOn(r, c, b) ==
  /\ CopyTyped(c) /\ LedgerTyped(b) /\ InStepOf(c, b)
  /\ r.base = [commerce |-> c.version, balance |-> b.version]
  /\ PlannedBy(r, c.orders, b)

Origin(r) == \E c, b : MadeOn(r, c, b)

Origins == \A r \in wire : Origin(r)

LEMMA OriginBase ==
  ASSUME NEW r, NEW c, NEW b, MadeOn(r, c, b)
  PROVE  /\ r.base.commerce = commerce.version => c = commerce
         /\ r.base.balance = balance.version => b = balance
BY DEF MadeOn, InStepOf

LEMMA OrdersSent ==
  ASSUME NEW r, RequestTyped(r), r.form.op \in OrderForms, NEW b, PlannedBy(r, commerce.orders, b)
  PROVE  /\ NextOrders(r) = NormalizePaymentEvidence(commerce.orders, PlanFor(r.form, commerce.orders, b).orders)
         /\ PlanFor(r.form, commerce.orders, b).ok
BY DEF RequestTyped, PlannedBy, NextOrders

(* The orders stored are sound again. *)
LEMMA StoredSound ==
  ASSUME Typed, Placed, PageSound, NEW r, RequestTyped(r), Untaken(r.form), r.form.op \in OrderForms,
         Accepted(r), NEW b, LedgerTyped(b), PlannedBy(r, commerce.orders, b)
  PROVE  AllSound(NextOrders(r))
<1>1. OrdersTyped(commerce.orders) /\ AllSound(commerce.orders)
  BY DEF Typed, StoreTyped, CopyTyped, PageSound
<1>2. PICK f : f = r.form
  OBVIOUS
<1>3. PICK next : next = NextOrders(r)
  OBVIOUS
<1>4. PICK plan : plan = PlanFor(f, commerce.orders, b)
  OBVIOUS
<1>5. FormTyped(f)
  BY <1>2 DEF RequestTyped
<1>6. next = NormalizePaymentEvidence(commerce.orders, plan.orders) /\ plan.ok
  BY <1>2, <1>3, <1>4, OrdersSent
<1>7. CASE f.op = "new"
  <2>1. f.id \notin DOMAIN commerce.orders
    BY <1>2, <1>5, <1>7, FreshForm
  <2>2. Started(f, commerce.orders, next, b, plan.ledger)
    BY <1>1, <1>4, <1>5, <1>6, <1>7, <2>1, NewStores
  <2>. QED
    BY <1>1, <1>3, <2>2, NewPasses
<1>8. CASE f.op # "new"
  BY <1>2, <1>8, <1>1, <1>4, <1>5, <1>6, FormStores, <1>3, OldSound DEF RequestTyped, Accepted,
     OrdersAccepted, Passed
<1>. QED
  BY <1>7, <1>8

(* A ledger made on what is stored is one the server keeps with the orders  *)
(* the request makes.                                                       *)
LEMMA LedgerIsKept ==
  ASSUME Typed, Placed, PageSound, NEW r, RequestTyped(r), r.form.op \in OrderForms => Untaken(r.form),
         NEW orders, r.form.op \in OrderForms => orders = commerce.orders, PlannedBy(r, orders, balance)
  PROVE  Keepable(balance, r.ledger, NextOrders(r))
<1>1. OrdersTyped(commerce.orders)
  BY DEF Typed, StoreTyped, CopyTyped
<1>2. PICK f : f = r.form
  OBVIOUS
<1>3. FormTyped(f) /\ f.op \in OrderForms \cup LedgerForms
  BY <1>2, FormFields DEF RequestTyped
<1>4. BalanceSound(balance, commerce.orders)
  BY BalanceIsSound
<1>5. r.ledger = PlanFor(f, orders, balance).ledger /\ PlanFor(f, orders, balance).ok
  BY <1>2 DEF PlannedBy
<1>6. CASE f.op \in OrderForms
  BY <1>2, <1>3, <1>6, FreshForm, <1>1, <1>4, <1>5, OrderKeeps, OrdersSent
<1>7. CASE f.op \in LedgerForms
  BY <1>2, <1>7, <1>3, <1>4, <1>5, LedgerKeeps DEF RequestTyped, LedgerForms, OrderForms,
     NextOrders
<1>. QED
  BY <1>3, <1>6, <1>7

(* What a request made on what is stored stores passes the server's checks  *)
(* of orders, but for what the page is known to let through.                *)
LEMMA OrdersPass ==
  ASSUME Typed, Placed, PageSound, NEW r, RequestTyped(r), r.form.op \in OrderForms => Untaken(r.form),
         ~UndoesBankPayment(r), ~CorrectsRefunded(r), NEW b, LedgerTyped(b), PlannedBy(r, commerce.orders, b)
  PROVE  OrdersAccepted(r)
<1>1. SUFFICES ASSUME "commerce" \in r.sends
               PROVE  Passed(commerce.orders, NextOrders(r))
  BY DEF OrdersAccepted, Passed
<1>2. PICK f : f = r.form
  OBVIOUS
<1>3. FormTyped(f) /\ f.op \in OrderForms /\ Untaken(f)
  BY <1>1, <1>2 DEF RequestTyped
<1>4. OrdersTyped(commerce.orders) /\ AllSound(commerce.orders)
  BY DEF Typed, StoreTyped, CopyTyped, PageSound
<1>5. PICK next : next = NextOrders(r)
  OBVIOUS
<1>6. PICK plan : plan = PlanFor(f, commerce.orders, b)
  OBVIOUS
<1>7. next = NormalizePaymentEvidence(commerce.orders, plan.orders) /\ plan.ok
  BY <1>2, <1>3, <1>5, <1>6, OrdersSent
<1>8. CASE f.op = "new"
  BY <1>3, <1>8, FreshForm, <1>4, <1>6, <1>7, NewStores, <1>5, NewPasses
<1>9. CASE f.op # "new"
  BY <1>3, <1>9, <1>4, <1>6, <1>7, FormStores, OldParts, FreshForm, <1>2, <1>5, OldPasses DEF
     LetThrough, UndoesBankPayment, CorrectsRefunded
<1>. QED
  BY <1>8, <1>9

(* A form under way that can still be stored has not taken effect. *)
LEMMA LiveFresh ==
  ASSUME DeskInv, NEW r \in wire, r.form.op \in OrderForms, NEW b, LedgerTyped(b),
         PlanFor(r.form, commerce.orders, b).ok
  PROVE  Untaken(r.form)
<1>1. PICK f : f = r.form
  OBVIOUS
<1>2. Typed /\ Placed /\ OwnNumbers /\ NewCounted /\ SpentForms /\ RequestTyped(r)
  BY DEF DeskInv, Typed
<1>3. FormTyped(f) /\ f \in LiveForms
  BY <1>1, <1>2 DEF RequestTyped, LiveForms
<1>4. f.n \in 2..MaxForms /\ f.n \in 1..MaxForms
  BY <1>2, <1>3, MaxFormsBound DEF Placed, Typed
<1>5. effects[f.n] \in Nat
  BY <1>2, <1>4 DEF Typed
<1>6. CASE f.op = "new"
  <2>1. f.id \notin DOMAIN commerce.orders
    BY <1>1, <1>2, <1>6 DEF OwnNumbers, UnderWay, IsNew
  <2>2. effects[f.n] = Cardinality(EnteredBy(f.n))
    BY <1>2, <1>3, <1>6 DEF NewCounted, IsNew
  <2>3. ~Spends(f.n)
    BY <2>2, FS_EmptySet DEF Spends
  <2>. QED
    BY <1>1, <1>4, <1>6, <2>1, <2>3 DEF Untaken, IsNew
<1>7. CASE f.op # "new"
  <2>1. f.op \in OrderForms \ {"new"} /\ OrdersTyped(commerce.orders)
    BY <1>1, <1>2, <1>7 DEF Typed, StoreTyped, CopyTyped
  <2>2. About(f, commerce.orders)
    BY <1>1, <1>3, <2>1, PlanMakes
  <2>3. f.op \notin {"new", "undo-adjust"}
    BY <2>1 DEF OrderForms
  <2>4. f.seen[1] \in Int
    BY <1>3, <2>3, FormSeen
  <2>5. ~Spent(f)
    BY <2>1, <2>2, <2>4 DEF About, Spent
  <2>6. ~(effects[f.n] >= 1)
    BY <1>2, <1>3, <1>7, <2>5 DEF SpentForms
  <2>7. effects[f.n] = 0
    BY <1>5, <2>6
  <2>. QED
    BY <1>1, <1>4, <1>7, <2>7 DEF Untaken, IsNew
<1>. QED
  BY <1>6, <1>7

(* No request on the current versions is refused. *)
LEMMA NeverRefused ==
  ASSUME DeskInv, PageSound, Origins, NEW r \in wire
  PROVE  Verdict(r) # "refused"
<1>1. SUFFICES ASSUME Verdict(r) = "refused"
               PROVE  FALSE
  OBVIOUS
<1>2. /\ ~Stale(r) /\ Eligible(r) /\ ~Accepted(r) /\ r.base = StoreVersions
      /\ ~UndoesBankPayment(r) /\ ~CorrectsRefunded(r)
  BY <1>1 DEF Verdict
<1>3. PICK c, b : MadeOn(r, c, b)
  BY DEF Origins, Origin
<1>4. c = commerce /\ b = balance
  BY <1>2, <1>3, OriginBase DEF StoreVersions
<1>5. PlannedBy(r, commerce.orders, balance) /\ LedgerTyped(balance)
  BY <1>3, <1>4 DEF MadeOn
<1>6. r.form.op \in OrderForms => Untaken(r.form)
  BY <1>5, LiveFresh DEF PlannedBy
<1>7. Typed /\ Placed /\ RequestTyped(r)
  BY DEF DeskInv, Typed
<1>8. OrdersAccepted(r)
  BY <1>2, <1>5, <1>6, <1>7, OrdersPass
<1>9. Keepable(balance, r.ledger, NextOrders(r))
  BY <1>5, <1>6, <1>7, LedgerIsKept
<1>10. NextLedger(r) = r.ledger
  BY <1>5 DEF NextLedger, PlannedBy
<1>11. CheckAppleLedger(balance, NextLedger(r), NextOrders(r))
  BY <1>9, <1>10 DEF Keepable
<1>. QED
  BY <1>2, <1>8, <1>11 DEF Accepted

-----------------------------------------------------------------------------
(* Every save keeps the stored documents so. *)

LEMMA DrawnStays ==
  ASSUME Typed, Placed, NEW r, WroteOnce(r), r.form.op \in OrderForms => Untaken(r.form)
  PROVE  /\ \A x : Drawn(x) => Drawn(x)'
         /\ r.form.op \in OrderForms \ {"new"} => Drawn(r.form.id)'
<1>1. PICK m : m = r.form.n
  OBVIOUS
<1>2. m \in 1..MaxForms /\ m # 1 /\ effects'[m] = effects[m] + 1 /\ effects[m] \in Nat /\ DrawnFor(m, r.form.id)
  <2>1. m \in 2..MaxForms /\ m \in 1..MaxForms /\ FormTyped(r.form)
    BY <1>1, WroteTyped
  <2>. QED
    BY <1>1, <2>1, EffectOf, FormDrawn, MaxFormsBound
<1>3. ~IsNew(r.form) => EnteredBy(m)' = EnteredBy(m)
  BY <1>1, <1>2, EnteredGrows
<1>4. IsNew(r.form) => ~Spends(m)
  BY <1>1 DEF IsNew, Untaken, OrderForms
<1>5. Spends(m) => Spends(m)'
  BY <1>2, <1>3, <1>4 DEF Spends
<1>6. \A n \in 1..MaxForms : Spends(n) => Spends(n)'
  BY <1>1, <1>5, CountedStay DEF Spends
<1>7. ASSUME r.form.op \in OrderForms \ {"new"} PROVE Spends(m)'
  <2>1. effects[m] = 0
    BY <1>1, <1>7 DEF Untaken, IsNew
  <2>. QED
    BY <1>2, <1>3, <1>7, <2>1, NoneEntered DEF Spends, IsNew
<1>8. r.form.op \in OrderForms \ {"new"} => Drawn(r.form.id)'
  BY <1>2, <1>7 DEF Drawn
<1>9. \A x : Drawn(x) => Drawn(x)'
  BY <1>6 DEF Drawn
<1>. QED
  BY <1>8, <1>9

(* The refunds a request adds carry its form's number. *)
LEMMA RefundsSent ==
  ASSUME Typed, Placed, PageSound, NEW r, RequestTyped(r), Untaken(r.form), r.form.op \in OrderForms,
         NEW b, LedgerTyped(b), PlannedBy(r, commerce.orders, b),
         NEW o \in DOMAIN NextOrders(r), NEW n \in DOMAIN NextOrders(r)[o].refunds
  PROVE  \/ r.form.op # "new" /\ NextOrders(r)[o].refunds[n].id = r.form.id
         \/ /\ o \in DOMAIN commerce.orders /\ n \in DOMAIN commerce.orders[o].refunds
            /\ NextOrders(r)[o].refunds[n] = commerce.orders[o].refunds[n]
<1>1. OrdersTyped(commerce.orders)
  BY DEF Typed, StoreTyped, CopyTyped
<1>2. PICK f : f = r.form
  OBVIOUS
<1>3. PICK next : next = NextOrders(r)
  OBVIOUS
<1>4. PICK plan : plan = PlanFor(f, commerce.orders, b)
  OBVIOUS
<1>5. FormTyped(f)
  BY <1>2 DEF RequestTyped
<1>6. next = NormalizePaymentEvidence(commerce.orders, plan.orders) /\ plan.ok
  BY <1>2, <1>3, <1>4, OrdersSent
<1>7. o \in DOMAIN next /\ n \in DOMAIN next[o].refunds
  BY <1>3
<1>8. CASE f.op = "new"
  <2>1. f.id \notin DOMAIN commerce.orders
    BY <1>2, <1>5, <1>8, FreshForm
  <2>2. Started(f, commerce.orders, next, b, plan.ledger)
    BY <1>1, <1>4, <1>5, <1>6, <1>8, <2>1, NewStores
  <2>3. /\ DOMAIN next = DOMAIN commerce.orders \cup {f.id}
        /\ \A q \in DOMAIN commerce.orders : next[q] = commerce.orders[q]
        /\ next[f.id].refunds = << >>
    BY <2>2 DEF Started, Starts, Blank, SameOrder, KeptOf
  <2>4. o # f.id
    BY <1>7, <2>3
  <2>. QED
    BY <1>3, <1>7, <2>3, <2>4
<1>9. CASE f.op # "new"
  <2>1. f.op \in OrderForms \ {"new"}
    BY <1>2, <1>9
  <2>2. Rewritten(f, commerce.orders, next)
    BY <1>1, <1>4, <1>5, <1>6, <2>1, FormStores
  <2>3. /\ DOMAIN next = DOMAIN commerce.orders
        /\ \A q \in DOMAIN commerce.orders : q # f.target => next[q] = commerce.orders[q]
        /\ commerce.orders[f.target] \in Order
    BY <1>1, <2>1, <2>2, OldParts
  <2>4. CASE o # f.target
    BY <1>3, <1>7, <2>3, <2>4
  <2>5. CASE o = f.target
    <3>1. PICK was : was = commerce.orders[o]
      OBVIOUS
    <3>2. Becomes(f, was, next[o])
      BY <2>2, <2>5, <3>1 DEF Rewritten
    <3>3. PICK T : T = [id : Int, amount : Int, payment : {"bank", "apple"}]
      OBVIOUS
    <3>4. was.refunds \in Seq(T) /\ was.payment \in {"bank", "apple"}
      BY <2>3, <2>5, <3>1, <3>3, OrderLists, OrderEvidence
    <3>5. CASE f.op = "refund"
      <4>1. PICK e : e = RefundOf(f, was)
        OBVIOUS
      <4>2. e \in T /\ e.id = f.id
        BY <1>5, <3>3, <3>4, <4>1, FormFields DEF RefundOf
      <4>3. next[o].refunds = Append(was.refunds, e)
        BY <3>2, <3>5, <4>1 DEF Becomes, RefundedBy
      <4>4. next[o].refunds[n] = e \/ (n \in DOMAIN was.refunds /\ next[o].refunds[n] = was.refunds[n])
        BY <1>7, <3>4, <4>2, <4>3
      <4>. QED
        BY <1>2, <1>3, <1>7, <1>9, <2>3, <3>1, <4>2, <4>4
    <3>6. CASE f.op # "refund"
      BY <2>1, <3>2, <3>6, <1>3, <1>7, <2>3, <3>1 DEF Becomes, Corrected, UndoneTo, ReturnedBy,
         Reversed, SameLists, OrderForms
    <3>. QED
      BY <3>5, <3>6
  <2>. QED
    BY <2>4, <2>5
<1>. QED
  BY <1>8, <1>9

LEMMA SameKept ==
  ASSUME NEW l, NEW k, SameBooks(l, k), SelfKept(l)
  PROVE  SelfKept(k)
BY DEF SameBooks, SelfKept, Explained

(* What is stored is sound again, with another form's numbers drawn. *)
LEMMA KeepsSound ==
  ASSUME Typed, Placed, PageSound, NEW r, WroteOnce(r), RequestTyped(r), Origin(r),
         r.form.op \in OrderForms => Untaken(r.form)
  PROVE  PageSound'
<1>1. Keeps(r) /\ StoreTyped
  BY DEF WroteOnce, Wrote, Typed
<1>2. ~Stale(r) /\ Accepted(r) /\ Stored(r)
  BY <1>1 DEF Keeps
<1>3. commerce'.orders = NextOrders(r) /\ SameBooks(NextLedger(r), balance')
  BY <1>1, <1>2, StoredParts
<1>4. PICK c, b : MadeOn(r, c, b)
  BY DEF Origin
<1>5. LedgerTyped(b) /\ PlannedBy(r, c.orders, b)
  BY <1>4 DEF MadeOn
<1>6. r.form.op \in OrderForms => c = commerce
  BY <1>2, <1>4, OriginBase DEF Stale, StoreVersions, RequestTyped
<1>7. "balance" \in r.sends => b = balance
  BY <1>2, <1>4, OriginBase DEF Stale, StoreVersions
<1>8. SelfKept(balance')
  BY <1>3, SameKept, <1>5, <1>6, <1>7, LedgerIsKept DEF NextLedger, PageSound, Keepable
<1>9. CASE r.form.op \in OrderForms
  BY <1>5, <1>6, <1>9, <1>2, <1>3, StoredSound, RefundsSent, DrawnStays, <1>8 DEF PageSound,
     NumbersDrawn, DrawnIn, Drawn
<1>10. CASE r.form.op \notin OrderForms
  BY <1>10, <1>3, DrawnStays, <1>8 DEF RequestTyped, NextOrders, PageSound, NumbersDrawn, DrawnIn
<1>. QED
  BY <1>9, <1>10

(* What others save was made on what is stored, of a form of their own. *)
LEMMA SavedMade ==
  ASSUME Typed, Placed, SavedByOthers
  PROVE  \E r : WroteOnce(r) /\ RequestTyped(r) /\ Origin(r) /\ Untaken(r.form)
<1>1. PICK r : /\ Keeps(r) /\ r.form.n = forms + 1
               /\ MadeFrom(r, r.form, commerce.orders, balance, StoreVersions)
  BY DEF SavedByOthers
<1>2. InStepOf(commerce, balance)
  BY DEF Typed, StoreTyped, CopyTyped, LedgerTyped, InStepOf
<1>3. Ready(r)
  BY <1>1, <1>2, MadeReady DEF StoreVersions
<1>4. Wrote(r)
  BY <1>1, <1>3, KeptIsWritten DEF Wrote
<1>5. MaxForms \in Nat /\ forms \in Nat /\ forms >= 1 /\ forms < MaxForms
  BY MaxFormsBound DEF Typed, Placed, SavedByOthers
<1>6. forms + 1 \in 1..MaxForms /\ forms + 1 > forms /\ forms + 1 \in 2..MaxForms
  BY <1>5
<1>7. effects[forms + 1] = 0
  BY <1>6 DEF Placed
<1>8. WroteOnce(r) /\ Untaken(r.form)
  <2>1. Unclaimed(r.form)
    BY <1>1, <1>3, <1>5, FilledUnclaimed DEF Ready, RequestTyped
  <2>. QED
    BY <1>1, <1>4, <1>6, <1>7, <2>1 DEF WroteOnce, Untaken, Unclaimed, Spends
<1>9. RequestTyped(r) /\ PlannedBy(r, commerce.orders, balance) /\ r.base = StoreVersions
  BY <1>1 DEF MadeFrom
<1>10. MadeOn(r, commerce, balance)
  BY <1>2, <1>9 DEF MadeOn, StoreVersions, Typed, StoreTyped
<1>11. Origin(r)
  BY <1>10 DEF Origin
<1>. QED
  BY <1>8, <1>9, <1>11

(* A request that is stored is of a form that has not taken effect before. *)
LEMMA FreshWritten ==
  ASSUME DeskInv, NEW r \in wire, WroteOnce(r)
  PROVE  Untaken(r.form)
<1>1. r.form.n \in 2..MaxForms /\ r.form.n \in 1..MaxForms /\ effects[r.form.n] \in Nat /\ r.form \in LiveForms
  BY EffectOf, WroteTyped, WireIsLive DEF DeskInv
<1>2. IsNew(r.form) => r.form.id \notin DOMAIN commerce.orders /\ ~Spends(r.form.n)
  BY <1>1, FS_EmptySet DEF DeskInv, WroteOnce, NewCounted, Spends
<1>3. ~IsNew(r.form) => effects[r.form.n] = 0
  BY <1>1, SpentNow DEF DeskInv, SpentForms, IsNew
<1>. QED
  BY <1>1, <1>2, <1>3 DEF Untaken

(* PageSound is preserved by every step. *)
LEMMA PageSoundStep ==
  ASSUME DeskInv, PageSound, Origins, Next
  PROVE  PageSound'
BY SavedMade, KeepsSound, FreshWritten, StepWrites DEF DeskInv, PageSound, NumbersDrawn, DrawnIn,
   Drawn, Spends, EnteredBy, Typed, Origins

-----------------------------------------------------------------------------
(* Requests keep their origin, however late they are served. *)

(* A copy that was stored once stays one. *)
LEMMA OriginStays ==
  ASSUME Typed, Onward, NEW r, Origin(r)
  PROVE  Origin(r)'
<1>1. PICK c, b : MadeOn(r, c, b)
  BY DEF Origin
<1>2. c.version \in Int /\ b.version \in Int /\ InStepOf(c, b)
  BY <1>1 DEF MadeOn, CopyTyped, LedgerTyped
<1>3. commerce.version \in Int /\ balance.version \in Int
  BY DEF Typed, StoreTyped, CopyTyped, LedgerTyped
<1>4. c.version <= commerce'.version /\ (c.version = commerce'.version => c = commerce')
  BY <1>2, <1>3 DEF InStepOf, Onward
<1>5. b.version <= balance'.version /\ (b.version = balance'.version => b = balance')
  BY <1>2, <1>3 DEF InStepOf, Onward
<1>6. InStepOf(c, b)'
  BY <1>4, <1>5 DEF InStepOf
<1>7. MadeOn(r, c, b)'
  BY <1>1, <1>6 DEF MadeOn
<1>. QED
  BY <1>7 DEF Origin

(* Origins is preserved by every step. *)
LEMMA OriginsStep ==
  ASSUME Typed, InStep, Origins, Next
  PROVE  Origins'
<1>1. Onward
  BY StepOnward
<1>2. \A r \in wire : Origin(r)'
  BY <1>1, OriginStays DEF Origins
<1>3. ASSUME Confirmed
      PROVE  \A r \in wire' : Origin(r)'
  <2>1. ASSUME NEW r, MadeFrom(r, tab.form, tab.commerce.orders, tab.balance, Versions)
        PROVE  Origin(r)'
    BY InStepParts, <2>1, <1>1, OriginStays DEF Typed, TabTyped, MadeOn, MadeFrom, Versions,
       Origin
  <2>. QED
    BY <1>2, <1>3, <2>1 DEF Confirmed
<1>4. ASSUME NEW r \in wire, SilentlyLost(r)
      PROVE  \A q \in wire' : Origin(q)'
  <2>1. PICK q : /\ wire' = (wire \ {r}) \cup {q}
                 /\ q.form = r.form /\ q.orders = r.orders /\ q.ledger = r.ledger
                 /\ q.base = r.base /\ q.sends = r.sends
    BY <1>4 DEF SilentlyLost
  <2>2. Origin(q)
    BY <2>1 DEF Origins, Origin, MadeOn, PlannedBy
  <2>3. Origin(q)'
    BY <1>1, <2>2, OriginStays
  <2>. QED
    BY <1>2, <2>1, <2>3
<1>. QED
  BY <1>2, <1>3, <1>4, StepsAre DEF Filled, Submitted, Recovered, Served, Refreshed, SavedByOthers, Origins

-----------------------------------------------------------------------------
(* The inductive invariant of the page's agreement with the server. *)
PageInv == DeskInv /\ PageSound /\ Origins /\ PageAgreesWithServer

LEMMA PageSoundInit ==
  ASSUME Init
  PROVE  PageSound
<1>1. PICK opening \in Openings :
        /\ commerce = [version |-> 1, orders |-> opening.orders]
        /\ balance = opening.ledger
  BY DEF Init
<1>2. commerce.orders = opening.orders
  BY <1>1
<1>3. HistoryKept(balance, balance)
  BY <1>1, OpeningsAssumption DEF CheckAppleLedger
<1>4. SelfKept(balance)
  BY <1>3, HistoryParted DEF MovesKept, MovementKept, SelfKept
<1>5. AllSound(commerce.orders)
  BY <1>1, <1>2, OpeningsAssumption DEF AllSound
<1>6. 1 \in 1..MaxForms
  BY MaxFormsBound
<1>7. NumbersDrawn
  BY <1>1, <1>2, <1>6, OpeningsAssumption DEF NumbersDrawn, DrawnIn, Drawn
<1>. QED
  BY <1>4, <1>5, <1>7 DEF PageSound

(* The desk opens so. *)
LEMMA PageInit ==
  ASSUME Init
  PROVE  PageInv
BY DeskInit, PageSoundInit DEF Init, Origins, PageAgreesWithServer, PageInv

LEMMA PageStutters ==
  ASSUME PageInv, UNCHANGED vars
  PROVE  PageInv'
BY DeskStutters DEF PageInv, PageSound, NumbersDrawn, DrawnIn, Drawn, Spends, EnteredBy, vars, Origins, Origin,
   MadeOn, InStepOf, PageAgreesWithServer

(* Only a request that is served gets an answer. *)
LEMMA VerdictIs ==
  ASSUME Next
  PROVE  verdict' = verdict \/ \E r \in wire : verdict' = Verdict(r)
<1>1. ASSUME NEW r \in wire, Serve(r)
      PROVE  verdict' = Verdict(r)
  BY <1>1 DEF Serve
<1>2. ASSUME NEW r \in wire, GoSilent(r)
      PROVE  verdict' = verdict
  BY <1>2 DEF GoSilent
<1>3. ASSUME NEW F, Fills(F)
      PROVE  verdict' = verdict
  BY <1>3 DEF Fills
<1>4. ASSUME \/ FillOrder \/ FillCorrection \/ FillRefund \/ FillBankReturn \/ FillReversal
             \/ FillAdjustment \/ FillUndo \/ FillPendingRefund
      PROVE  verdict' = verdict
  BY <1>3, <1>4 DEF FillOrder, FillCorrection, FillRefund, FillBankReturn, FillReversal,
                    FillAdjustment, FillUndo, FillPendingRefund
<1>5. Submit \/ Confirm \/ Recover \/ RefreshOrders \/ RefreshBalance \/ Colleague => verdict' = verdict
  BY DEF Submit, Confirm, Recover, RefreshOrders, RefreshBalance, Colleague
<1>. QED
  BY <1>1, <1>2, <1>4, <1>5 DEF Next

(* Every step keeps it. *)
LEMMA PageStep ==
  ASSUME PageInv, Next
  PROVE  PageInv'
BY DeskStep, PageSoundStep, OriginsStep, VerdictIs, NeverRefused DEF PageInv, DeskInv,
   PageAgreesWithServer

(* Of what a page has checked and sent on the documents' current versions,  *)
(* the server refuses only what it is known to judge alone: saveOrder,      *)
(* saveRefund, saveReversal and the balance page let nothing else through   *)
(* that checkAppleLedger, checkBankReturns or checkOrderFinancialHistory    *)
(* would not store.                                                         *)
THEOREM ThePageAgreesWithTheServer == Spec => []PageAgreesWithServer
<1>1. Init => PageInv
  BY PageInit
<1>2. PageInv /\ [Next]_vars => PageInv'
  BY PageStep, PageStutters
<1>3. PageInv => PageAgreesWithServer
  BY DEF PageInv
<1>. QED
  BY <1>1, <1>2, <1>3, PTL DEF Spec
=============================================================================
