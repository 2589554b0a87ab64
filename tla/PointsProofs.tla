---------------------------- MODULE PointsProofs ----------------------------
(***************************************************************************)
(* What orders earn (LoyaltyPoints), for any orders, customers, tiers and  *)
(* number of events: the ledger and the copies on the customers agree with *)
(* the orders, and a rise is mailed once.                                  *)
(*                                                                         *)
(* What the tables and the requests look like holds whatever happens       *)
(* (TypeInv).  On it rests, for requests that come one at a time and do    *)
(* not fail, which customers are still to be refreshed (Refreshed), which  *)
(* news of an order are still on their way (Followed) and who is still to  *)
(* be told (RisesSound).  Sums and tiers come first.                       *)
(***************************************************************************)
EXTENDS LoyaltyPoints, FiniteSetTheorems, SequenceTheorems, WellFoundedInduction, TLAPS

--------------------
(* What everything looks like *)

LoadRec == [refund : 0..Paid, buyer : Customer]
OrderRec == [placed : BOOLEAN, buyer : Customer \cup {None}, asker : Customer \cup {None},
             refund : 0..Paid, store : 0..Paid, notes : {0, 1}]
RowRec == [customer : Customer \cup {None}, points : 0..Paid]
Tier == 0..Len(Floors)
TodoRec == [customer : Customer, mail : BOOLEAN]

Earns == {"settle", "figure", "prior", "upsert"}
Refreshes == {"sum", "look", "publish", "untag", "tag", "mail"}

Orders ==
    /\ case \in Case
    /\ order \in [Order -> OrderRec]
    /\ \A o \in Placed : order[o].buyer \in Customer

\* What is on its way was true of the order once.
Known(o, load) == load \in LoadRec /\ load.refund <= order[o].refund /\ o \in Placed

News ==
    /\ post \in [Order -> Seq(LoadRec)]
    /\ \A o \in Order : \A i \in DOMAIN post[o] : Known(o, post[o][i])
    /\ timer \in [Order -> LoadRec \cup {None}]
    /\ \A o \in Order : timer[o] # None => Known(o, timer[o])
    /\ recall \subseteq Placed

Tables ==
    /\ entry \in [Order -> RowRec]
    /\ \A o \in Order : entry[o] = NoEntry \/ (o \in Placed /\ entry[o].customer \in Customer)
    /\ adjust \in [Customer -> Int]
    /\ copy = [c \in Customer |-> copy[c]]
    /\ \A c \in Customer : copy[c].tier \in Tier
    /\ tags \in [Customer -> SUBSET (1..Len(Floors))]
    /\ told \in [Customer -> Tier]

\* A request in memory has the fields of Start.
Form(r) ==
    r = [pc |-> r.pc, order |-> r.order, load |-> r.load, who |-> r.who, points |-> r.points,
         todo |-> r.todo, sum |-> r.sum, was |-> r.was, had |-> r.had, names |-> r.names]

\* The rows a backfill is about to write.
Batch(r) ==
    /\ r.load = [o \in DOMAIN r.load |-> r.load[o]]
    /\ r.names \subseteq DOMAIN r.load /\ DOMAIN r.load \subseteq Placed
    /\ \A o \in DOMAIN r.load : r.load[o] \in [customer : Customer, points : 0..Paid]

EarnRun(s, r) ==
    /\ r.order \in Placed /\ r.load \in LoadRec
    /\ s = Sweep \/ s = r.order
    /\ r.pc # "settle" => r.who \in Customer
    /\ r.pc \in {"prior", "upsert"} => r.points \in 0..Paid
    /\ r.pc = "upsert" => r.was \in Customer \cup {None}

\* What request s holds in memory.
RunOK(s, r) ==
    \/ r = Idle
    \/ /\ Form(r)
       /\ r.todo \in Seq(TodoRec)
       /\ s = Sweep => r.names = None \/ r.names \subseteq Placed
       /\ \/ r.pc \in Earns /\ EarnRun(s, r)
          \/ r.pc \in Refreshes /\ r.todo # <<>>
          \/ r.pc = "adjust" /\ s = Admin /\ r.who \in Customer /\ r.points \in Int
          \/ r.pc = "write" /\ s = Job /\ Batch(r)
          \/ r.pc = "names" /\ s = Sweep
          \/ r.pc = "recheck" /\ s = Sweep /\ r.names \subseteq Placed

Requests ==
    /\ run = [s \in Slot |-> run[s]]
    /\ \A s \in Slot : RunOK(s, run[s])

TypeInv == Orders /\ News /\ Tables /\ Requests

--------------------
(* Sequences, tiers and figures *)

\* What is left of a queue was in it.
LEMMA RemoveAtIn ==
  ASSUME NEW S, NEW q \in Seq(S), NEW i \in DOMAIN q
  PROVE  /\ RemoveAt(q, i) \in Seq(S)
         /\ \A j \in DOMAIN RemoveAt(q, i) : \E k \in DOMAIN q : RemoveAt(q, i)[j] = q[k]
<1>1. DOMAIN q = 1..Len(q) /\ Len(q) \in Nat /\ i \in Nat /\ 1 <= i /\ i <= Len(q)
  BY LenProperties
<1>2. \A k \in 1..Len(q) : q[k] \in S BY ElementOfSeq
<1> DEFINE a == SubSeq(q, 1, i - 1)
           b == SubSeq(q, i + 1, Len(q))
<1>3. /\ a \in Seq(S) /\ Len(a) = i - 1
      /\ \A j \in 1..i - 1 : a[j] = q[j]
  <2>1. 1 \in Int /\ i - 1 \in Int /\ \A k \in 1..i - 1 : q[k] \in S BY <1>1, <1>2
  <2>2. /\ a \in Seq(S)
        /\ Len(a) = IF 1 <= i - 1 THEN i - 1 - 1 + 1 ELSE 0
        /\ \A j \in 1..i - 1 - 1 + 1 : a[j] = q[1 + j - 1]
    BY <2>1, SubSeqProperties
  <2> HIDE DEF a
  <2>3. i - 1 - 1 + 1 = i - 1 /\ \A j \in 1..i - 1 : 1 + j - 1 = j BY <1>1
  <2> QED BY <1>1, <2>2, <2>3
<1>4. /\ b \in Seq(S) /\ Len(b) = Len(q) - i
      /\ \A j \in 1..Len(q) - i : b[j] = q[i + j]
  <2>1. i + 1 \in Int /\ Len(q) \in Int /\ \A k \in i + 1..Len(q) : q[k] \in S BY <1>1, <1>2
  <2>2. /\ b \in Seq(S)
        /\ Len(b) = IF i + 1 <= Len(q) THEN Len(q) - (i + 1) + 1 ELSE 0
        /\ \A j \in 1..Len(q) - (i + 1) + 1 : b[j] = q[i + 1 + j - 1]
    BY <2>1, SubSeqProperties
  <2> HIDE DEF b
  <2>3. Len(q) - (i + 1) + 1 = Len(q) - i /\ \A j \in 1..Len(q) - i : i + 1 + j - 1 = i + j BY <1>1
  <2> QED BY <1>1, <2>2, <2>3
<1>5. RemoveAt(q, i) = a \o b BY DEF RemoveAt
<1> HIDE DEF a, b
<1>6. /\ a \o b \in Seq(S) /\ Len(a \o b) = Len(a) + Len(b)
      /\ \A j \in 1..Len(a) + Len(b) : (a \o b)[j] = IF j <= Len(a) THEN a[j] ELSE b[j - Len(a)]
  BY <1>3, <1>4, ConcatProperties
<1>7. DOMAIN (a \o b) = 1..Len(q) - 1
  <2>1. DOMAIN (a \o b) = 1..Len(a \o b) BY <1>6, LenProperties
  <2>2. Len(a \o b) = Len(q) - 1 BY <1>1, <1>3, <1>4, <1>6
  <2> QED BY <2>1, <2>2
<1>8. ASSUME NEW j \in 1..Len(q) - 1 PROVE \E k \in 1..Len(q) : (a \o b)[j] = q[k]
  <2>1. j \in Nat /\ 1 <= j /\ j <= Len(q) - 1 BY <1>1
  <2>2. (a \o b)[j] = IF j <= i - 1 THEN a[j] ELSE b[j - (i - 1)] BY <1>1, <1>3, <1>4, <1>6
  <2>3. CASE j <= i - 1
    <3>1. (a \o b)[j] = q[j] BY <1>1, <1>3, <2>1, <2>2, <2>3
    <3> QED BY <3>1, <2>1, <1>1
  <2>4. CASE ~(j <= i - 1)
    <3>1. j - (i - 1) \in 1..Len(q) - i BY <1>1, <2>1, <2>4
    <3>2. i + (j - (i - 1)) = j + 1 BY <1>1, <2>1
    <3>3. b[j - (i - 1)] = q[j + 1] BY <1>4, <3>1, <3>2
    <3>4. j + 1 \in 1..Len(q) BY <1>1, <2>1
    <3> QED BY <3>3, <3>4, <2>2, <2>4
  <2> QED BY <2>3, <2>4
<1> QED BY <1>1, <1>5, <1>6, <1>7, <1>8

\* Of a queue served in order the last remains last.
LEMMA RemoveHead ==
  ASSUME NEW S, NEW q \in Seq(S), q # <<>>
  PROVE  /\ RemoveAt(q, 1) = <<>> => q[1] = Last(q)
         /\ RemoveAt(q, 1) # <<>> => Last(RemoveAt(q, 1)) = Last(q)
<1> DEFINE b == SubSeq(q, 2, Len(q))
<1>1. Len(q) \in Nat /\ Len(q) # 0 BY EmptySeq
<1>2. SubSeq(q, 1, 1 - 1) = <<>>
  <2>1. 1 - 1 = 0 /\ 1 \in Int /\ 0 \in Int /\ 0 < 1 OBVIOUS
  <2> QED BY <2>1, SubSeqEmpty
<1>3. \A k \in 1..Len(q) : q[k] \in S BY ElementOfSeq
<1>4. /\ b \in Seq(S) /\ Len(b) = Len(q) - 1
      /\ \A j \in 1..Len(q) - 1 : b[j] = q[j + 1]
  <2>1. 2 \in Int /\ Len(q) \in Int /\ \A k \in 2..Len(q) : q[k] \in S BY <1>1, <1>3
  <2>2. /\ b \in Seq(S)
        /\ Len(b) = IF 2 <= Len(q) THEN Len(q) - 2 + 1 ELSE 0
        /\ \A j \in 1..Len(q) - 2 + 1 : b[j] = q[2 + j - 1]
    BY <2>1, SubSeqProperties
  <2> HIDE DEF b
  <2>3. Len(q) - 2 + 1 = Len(q) - 1 /\ \A j \in 1..Len(q) - 1 : 2 + j - 1 = j + 1 BY <1>1
  <2>4. Len(b) = Len(q) - 1
    <3>1. Len(b) = IF 2 <= Len(q) THEN Len(q) - 2 + 1 ELSE 0 BY <2>2
    <3>2. CASE 2 <= Len(q) BY <1>1, <3>1, <3>2
    <3>3. CASE ~(2 <= Len(q))
      <4>1. PICK n \in Nat : n = Len(q) BY <1>1
      <4>2. n = 1 BY <1>1, <3>3, <4>1
      <4> QED BY <3>1, <4>1, <4>2
    <3> QED BY <3>2, <3>3
  <2>5. ASSUME NEW j \in 1..Len(q) - 1 PROVE b[j] = q[j + 1]
    <3>1. j \in 1..Len(q) - 2 + 1 /\ 2 + j - 1 = j + 1 BY <2>3
    <3> QED BY <2>2, <3>1
  <2> QED BY <2>2, <2>4, <2>5
<1>5. RemoveAt(q, 1) = <<>> \o b
  <2>1. 1 + 1 = 2 OBVIOUS
  <2> QED BY <1>2, <2>1 DEF RemoveAt
<1> HIDE DEF b
<1>6. RemoveAt(q, 1) = b BY <1>4, <1>5, ConcatEmptySeq
<1>7. CASE Len(q) = 1
  <2>1. b = <<>> BY <1>4, <1>7, EmptySeq
  <2> QED BY <2>1, <1>6, <1>7 DEF Last
<1>8. CASE Len(q) # 1
  <2>1. Len(b) # 0 /\ Len(b) \in 1..Len(q) - 1 /\ Len(b) + 1 = Len(q) BY <1>1, <1>4, <1>8
  <2>2. b # <<>> BY <2>1, EmptySeq
  <2>3. b[Len(b)] = q[Len(q)] BY <1>4, <2>1
  <2> QED BY <2>2, <2>3, <1>6 DEF Last
<1> QED BY <1>7, <1>8

LEMMA AppendLast ==
  ASSUME NEW S, NEW q \in Seq(S), NEW e \in S
  PROVE  /\ Append(q, e) \in Seq(S) /\ Append(q, e) # <<>>
         /\ Last(Append(q, e)) = e
         /\ \A i \in DOMAIN Append(q, e) : Append(q, e)[i] = e \/ \E k \in DOMAIN q : Append(q, e)[i] = q[k]
<1>1. /\ Append(q, e) \in Seq(S) /\ Len(Append(q, e)) = Len(q) + 1
      /\ Append(q, e)[Len(q) + 1] = e
      /\ \A i \in 1..Len(q) : Append(q, e)[i] = q[i]
  OBVIOUS
<1> QED BY <1>1 DEF Last

\* A set of customers is refreshed one after another, each of them.
LEMMA SilentlyAll ==
  ASSUME NEW C \in SUBSET Customer
  PROVE  /\ Silently(C) \in Seq(TodoRec)
         /\ \A i \in DOMAIN Silently(C) : Silently(C)[i].customer \in C
         /\ \A c \in C : \E i \in DOMAIN Silently(C) : Silently(C)[i].customer = c
         /\ Silently(C) = <<>> => C = {}
<1> DEFINE T == {Todo(c, FALSE) : c \in C}
           n == Cardinality(T)
           q == SetToSeq(T)
<1>1. IsFiniteSet(T)
  <2>1. IsFiniteSet(C) BY FS_Subset, LoyaltyPointsAssumption
  <2> DEFINE f == [c \in C |-> Todo(c, FALSE)]
  <2>2. f \in Surjection(C, T) BY DEF Surjection
  <2> HIDE DEF f
  <2> QED BY <2>1, <2>2, FS_Surjection
<1> HIDE DEF T
<1>2. n \in Nat /\ ExistsBijection(1..n, T) BY <1>1, FS_CardinalityType
<1>3. \E f \in [1..n -> T] : IsInjective(f)
  BY <1>2 DEF ExistsBijection, Bijection, Injection
<1>4. q \in [1..n -> T] /\ IsInjective(q) BY <1>3 DEF SetToSeq
<1> HIDE DEF q, n
<1>5. q \in Injection(1..n, T) BY <1>4 DEF Injection
<1>6. Cardinality(1..n) = n
  <2>1. 1 \in Int /\ n \in Int BY <1>2
  <2>2. Cardinality(1..n) = IF 1 > n THEN 0 ELSE n - 1 + 1 BY <2>1, FS_Interval
  <2> QED BY <2>2, <1>2
<1>7. q \in Surjection(1..n, T) BY <1>1, <1>5, <1>6, FS_Injection DEF n
<1>8. \A t \in T : \E i \in 1..n : q[i] = t BY <1>7 DEF Surjection
<1>9. Silently(C) = q BY DEF Silently, q, T
<1>10. T \subseteq TodoRec /\ \A t \in T : t.customer \in C
  <2> SUFFICES ASSUME NEW c \in C
               PROVE  Todo(c, FALSE) \in TodoRec /\ Todo(c, FALSE).customer \in C
    BY DEF T
  <2>1. c \in Customer OBVIOUS
  <2> QED BY <2>1 DEF TodoRec, Todo
<1>11. \A c \in C : Todo(c, FALSE) \in T /\ Todo(c, FALSE).customer = c BY DEF T, Todo
<1>12. q \in Seq(TodoRec) BY <1>2, <1>4, <1>10
<1>13. DOMAIN q = 1..n BY <1>4
<1>14. \A i \in 1..n : q[i] \in T BY <1>4
<1>15. q = <<>> => 1..n = {} BY <1>13
<1> QED BY <1>8, <1>9, <1>10, <1>11, <1>12, <1>13, <1>14, <1>15

LEMMA TierIn ==
  ASSUME NEW points
  PROVE  TierOf(points) \in Tier /\ TagOf(TierOf(points)) \subseteq 1..Len(Floors)
<1>1. Floors \in Seq(Nat \ {0}) /\ Len(Floors) \in Nat /\ DOMAIN Floors = 1..Len(Floors)
  BY LoyaltyPointsAssumption
<1>2. IsFiniteSet(DOMAIN Floors) /\ Cardinality(DOMAIN Floors) = Len(Floors)
  <2>1. 1 \in Int /\ Len(Floors) \in Int BY <1>1
  <2>2. /\ IsFiniteSet(1..Len(Floors))
        /\ Cardinality(1..Len(Floors)) = IF 1 > Len(Floors) THEN 0 ELSE Len(Floors) - 1 + 1
    BY <2>1, FS_Interval
  <2> QED BY <2>2, <1>1
<1> DEFINE T == {t \in DOMAIN Floors : points >= Floors[t]}
<1>3. T \in SUBSET DOMAIN Floors OBVIOUS
<1> HIDE DEF T
<1>4. IsFiniteSet(T) /\ Cardinality(T) <= Len(Floors) BY <1>2, <1>3, FS_Subset
<1>5. Cardinality(T) \in Nat BY <1>4, FS_CardinalityType
<1>6. TierOf(points) = Cardinality(T) BY DEF TierOf, T
<1> QED BY <1>1, <1>4, <1>5, <1>6 DEF Tier, TagOf

LEMMA PointsIn ==
  ASSUME NEW refund \in 0..Paid, NEW store \in 0..Paid, NEW notes \in {0, 1}
  PROVE  Points(refund, store, notes) \in 0..Paid
  BY LoyaltyPointsAssumption DEF Points, Larger

\* What a customer has changes only with its rows and adjustments.
LEMMA SamePoints ==
  ASSUME NEW c \in Customer, adjust'[c] = adjust[c],
         \A o \in Order : entry'[o] = entry[o] \/ (entry[o].customer # c /\ entry'[o].customer # c)
  PROVE  CustomerPoints(c)' = CustomerPoints(c)
<1>1. Figures(c)' = Figures(c) BY DEF Figures
<1>2. CustomerPoints(c)' = adjust'[c] + SumFunction(Figures(c)') BY DEF CustomerPoints
<1> QED BY <1>1, <1>2 DEF CustomerPoints

--------------------
(* Sums, by induction on the size of the part added up *)

\* A set of numbers has a least one.
LEMMA Least ==
  ASSUME NEW T \in SUBSET Nat, T # {}
  PROVE  \E n \in T : \A m \in T : n <= m
<1>1. IsWellFoundedOn(OpToRel(<, Nat), Nat) BY NatLessThanWellFounded
<1> DEFINE R == OpToRel(<, Nat)
<1>2. \A x, y \in Nat : <<x, y>> \in R <=> x < y BY DEF OpToRel
<1>3. IsWellFoundedOn(R, Nat) BY <1>1
<1> HIDE DEF R
<1>4. PICK x \in T : \A y \in T : ~ (<<y, x>> \in R) BY <1>3, WFMin
<1>5. ASSUME NEW y \in T PROVE x <= y
  <2>1. x \in Nat /\ y \in Nat OBVIOUS
  <2>2. ~(y < x) BY <1>2, <1>4, <2>1
  <2> QED BY <2>1, <2>2
<1> QED BY <1>5

\* What holds of nothing, and of one more whenever it holds, holds throughout.
LEMMA Induction ==
  ASSUME NEW T, 0 \in T, \A n \in Nat : n \in T => n + 1 \in T
  PROVE  Nat \subseteq T
<1> SUFFICES ASSUME Nat \ T # {} PROVE FALSE
  OBVIOUS
<1>1. PICK n \in Nat \ T : \A m \in Nat \ T : n <= m BY Least
<1>2. n # 0 /\ n - 1 \in Nat /\ (n - 1) + 1 = n /\ ~(n <= n - 1) BY <1>1
<1>3. n - 1 \in T BY <1>1, <1>2
<1> QED BY <1>1, <1>2, <1>3

One(s) == CHOOSE x \in s : TRUE

\* The sums of the parts of a function, one element after another.
Sums(f, D, g) == g = [s \in SUBSET D |-> IF s = {} THEN 0 ELSE f[One(s)] + g[s \ {One(s)}]]

\* How SumFunction adds.
LEMMA SumIs ==
  ASSUME NEW f
  PROVE  SumFunction(f) = (CHOOSE g : Sums(f, DOMAIN f, g))[DOMAIN f]
  BY Zenon DEF SumFunction, SumFunctionOnSet, FoldFunctionOnSet, MapThenFoldSet, Sums, One

LEMMA LessOne ==
  ASSUME NEW s, IsFiniteSet(s), s # {}
  PROVE  /\ One(s) \in s /\ IsFiniteSet(s \ {One(s)})
         /\ Cardinality(s) \in Nat /\ Cardinality(s \ {One(s)}) \in Nat
         /\ Cardinality(s) = Cardinality(s \ {One(s)}) + 1
<1>1. PICK x : x = One(s) OBVIOUS
<1>2. x \in s BY <1>1 DEF One
<1>3. IsFiniteSet(s \ {x}) /\ Cardinality(s \ {x}) = Cardinality(s) - 1 BY <1>2, FS_RemoveElement
<1>4. Cardinality(s) \in Nat /\ Cardinality(s \ {x}) \in Nat BY <1>3, FS_CardinalityType
<1>5. Cardinality(s) = Cardinality(s \ {x}) + 1 BY <1>3, <1>4
<1> QED BY <1>1, <1>2, <1>3, <1>4, <1>5

LEMMA SumsExist ==
  ASSUME NEW D, IsFiniteSet(D), NEW f \in [D -> Int]
  PROVE  \E g \in [SUBSET D -> Int] : Sums(f, D, g)
<1> DEFINE Small(n) == {s \in SUBSET D : Cardinality(s) <= n}
           Partly(g, n) == /\ g \in [SUBSET D -> Int]
                           /\ \A s \in Small(n) :
                                 g[s] = IF s = {} THEN 0 ELSE f[One(s)] + g[s \ {One(s)}]
           T == {n \in Nat : \E g : Partly(g, n)}
<1>0. \A s \in SUBSET D : IsFiniteSet(s) /\ Cardinality(s) \in Nat BY FS_Subset, FS_CardinalityType
<1>1. 0 \in T
  <2>1. PICK g : g = [s \in SUBSET D |-> 0] OBVIOUS
  <2>2. ASSUME NEW s \in Small(0) PROVE s = {} BY <1>0, <2>2, FS_EmptySet
  <2>3. Partly(g, 0) BY <2>1, <2>2
  <2> QED BY <2>3
<1>2. ASSUME NEW n \in Nat, n \in T PROVE n + 1 \in T
  <2>1. PICK g : Partly(g, n) BY <1>2
  <2>2. PICK h : h = [s \in SUBSET D |-> IF s \in Small(n) THEN g[s]
                                         ELSE f[One(s)] + g[s \ {One(s)}]]
    OBVIOUS
  <2>3. ASSUME NEW s \in SUBSET D, s # {}
        PROVE  One(s) \in D /\ s \ {One(s)} \in SUBSET D /\ Cardinality(s) = Cardinality(s \ {One(s)}) + 1
               /\ Cardinality(s \ {One(s)}) \in Nat
    BY <1>0, <2>3, LessOne
  <2>4. {} \in Small(n)
    <3>1. Cardinality({}) = 0 BY FS_EmptySet
    <3> QED BY <3>1
  <2>5. h \in [SUBSET D -> Int]
    <3> SUFFICES ASSUME NEW s \in SUBSET D
                 PROVE  (IF s \in Small(n) THEN g[s] ELSE f[One(s)] + g[s \ {One(s)}]) \in Int
      BY <2>2
    <3>1. g[s] \in Int BY <2>1
    <3>2. CASE s \notin Small(n)
      <4>1. s # {} BY <2>4, <3>2
      <4>2. f[One(s)] \in Int /\ g[s \ {One(s)}] \in Int BY <2>1, <2>3, <4>1
      <4> QED BY <3>1, <4>2
    <3> QED BY <3>1, <3>2
  <2>6. ASSUME NEW s \in Small(n + 1)
        PROVE  h[s] = IF s = {} THEN 0 ELSE f[One(s)] + h[s \ {One(s)}]
    <3>1. CASE s = {}
      <4>1. h[s] = g[s] BY <2>2, <2>4, <3>1
      <4>2. g[s] = 0 BY <2>1, <2>4, <3>1
      <4> QED BY <3>1, <4>1, <4>2
    <3>2. CASE s # {}
      <4>1. PICK r : r = s \ {One(s)} OBVIOUS
      <4>2. r \in SUBSET D /\ Cardinality(s) = Cardinality(r) + 1 /\ Cardinality(r) \in Nat
        BY <2>3, <3>2, <4>1
      <4>3. Cardinality(r) <= n BY <4>2
      <4>4. r \in Small(n) BY <4>2, <4>3
      <4>5. h[r] = g[r] BY <2>2, <4>2, <4>4
      <4>6. h[s] = f[One(s)] + g[r]
        <5>1. CASE s \in Small(n)
          <6>1. h[s] = g[s] BY <2>2, <5>1
          <6>2. g[s] = f[One(s)] + g[s \ {One(s)}] BY <2>1, <3>2, <5>1
          <6> QED BY <4>1, <6>1, <6>2
        <5>2. CASE s \notin Small(n) BY <2>2, <4>1, <5>2
        <5> QED BY <5>1, <5>2
      <4> QED BY <3>2, <4>1, <4>5, <4>6
    <3> QED BY <3>1, <3>2
  <2>7. Partly(h, n + 1) BY <2>5, <2>6
  <2> QED BY <2>7
<1>3. Nat \subseteq T
  <2> HIDE DEF T
  <2> QED BY <1>1, <1>2, Induction
<1>4. Cardinality(D) \in Nat BY <1>0
<1>5. PICK g : Partly(g, Cardinality(D)) BY <1>3, <1>4
<1>6. ASSUME NEW s \in SUBSET D PROVE s \in Small(Cardinality(D)) BY FS_Subset
<1>7. Sums(f, D, g)
  <2>1. \A s \in SUBSET D : g[s] = IF s = {} THEN 0 ELSE f[One(s)] + g[s \ {One(s)}] BY <1>5, <1>6
  <2>2. g = [s \in SUBSET D |-> g[s]] BY <1>5
  <2> QED BY <2>1, <2>2 DEF Sums
<1> QED BY <1>5, <1>7

\* The sums g of the parts of D, of which the last is the sum of f.
SumBy(f, D, g) ==
    /\ SumFunction(f) = g[D]
    /\ g \in [SUBSET D -> Int]
    /\ g[{}] = 0
    /\ \A s \in SUBSET D : s # {} => g[s] = f[One(s)] + g[s \ {One(s)}]

LEMMA SumOf ==
  ASSUME NEW D, IsFiniteSet(D), NEW f \in [D -> Int]
  PROVE  \E g : SumBy(f, D, g)
<1>a. \E g : Sums(f, D, g) BY SumsExist
<1>b. PICK g : g = CHOOSE h : Sums(f, D, h) OBVIOUS
<1>c. Sums(f, D, g) BY <1>a, <1>b
<1>d. SumFunction(f) = g[D]
  <2>1. DOMAIN f = D OBVIOUS
  <2> QED BY <1>b, <2>1, SumIs
<1>1. /\ g = [s \in SUBSET D |-> g[s]]
      /\ \A s \in SUBSET D : g[s] = IF s = {} THEN 0 ELSE f[One(s)] + g[s \ {One(s)}]
  BY <1>c DEF Sums
<1> DEFINE T == {n \in Nat : \A s \in SUBSET D : Cardinality(s) = n => g[s] \in Int}
<1>2. \A s \in SUBSET D : IsFiniteSet(s) /\ Cardinality(s) \in Nat BY FS_Subset, FS_CardinalityType
<1>3. 0 \in T
  <2>1. ASSUME NEW s \in SUBSET D, Cardinality(s) = 0 PROVE g[s] \in Int
    <3>1. s = {} BY <1>2, <2>1, FS_EmptySet
    <3>2. g[s] = 0 BY <1>1, <3>1
    <3> QED BY <3>2
  <2> QED BY <2>1
<1>4. ASSUME NEW n \in Nat, n \in T PROVE n + 1 \in T
  <2>1. ASSUME NEW s \in SUBSET D, Cardinality(s) = n + 1 PROVE g[s] \in Int
    <3>1. s # {} BY <2>1, FS_EmptySet
    <3>2. PICK x, r : x = One(s) /\ r = s \ {One(s)} OBVIOUS
    <3>3. x \in s /\ Cardinality(r) = n BY <1>2, <2>1, <3>1, <3>2, LessOne
    <3>4. g[r] \in Int /\ f[x] \in Int BY <1>4, <3>2, <3>3
    <3>5. g[s] = f[x] + g[r] BY <1>1, <3>1, <3>2
    <3> QED BY <3>4, <3>5
  <2> QED BY <2>1
<1>5. Nat \subseteq T
  <2> HIDE DEF T
  <2> QED BY <1>3, <1>4, Induction
<1>6. \A s \in SUBSET D : g[s] \in Int BY <1>2, <1>5
<1>7. g \in [SUBSET D -> Int] BY <1>1, <1>6
<1>8. g[{}] = 0 BY <1>1
<1>9. SumBy(f, D, g) BY <1>d, <1>1, <1>7, <1>8 DEF SumBy
<1> QED BY <1>9

LEMMA SumIn ==
  ASSUME NEW D, IsFiniteSet(D), NEW f \in [D -> Int]
  PROVE  SumFunction(f) \in Int
<1>1. PICK g : SumBy(f, D, g) BY SumOf
<1>2. SumFunction(f) = g[D] /\ g \in [SUBSET D -> Int] /\ D \in SUBSET D BY <1>1 DEF SumBy
<1> QED BY <1>2

\* A sum of smaller numbers is smaller.
LEMMA SumLess ==
  ASSUME NEW D, IsFiniteSet(D), NEW f \in [D -> Int], NEW h \in [D -> Int], \A x \in D : f[x] <= h[x]
  PROVE  SumFunction(f) <= SumFunction(h)
<1>1. PICK g : SumBy(f, D, g) BY SumOf
<1>2. PICK k : SumBy(h, D, k) BY SumOf
<1> USE DEF SumBy
<1> DEFINE T == {n \in Nat : \A s \in SUBSET D : Cardinality(s) = n => g[s] <= k[s]}
<1>3. \A s \in SUBSET D : IsFiniteSet(s) /\ Cardinality(s) \in Nat BY FS_Subset, FS_CardinalityType
<1>4. 0 \in T
  <2>1. ASSUME NEW s \in SUBSET D, Cardinality(s) = 0 PROVE g[s] <= k[s]
    <3>1. s = {} BY <1>3, <2>1, FS_EmptySet
    <3> QED BY <1>1, <1>2, <3>1
  <2> QED BY <2>1
<1>5. ASSUME NEW n \in Nat, n \in T PROVE n + 1 \in T
  <2>1. ASSUME NEW s \in SUBSET D, Cardinality(s) = n + 1 PROVE g[s] <= k[s]
    <3>1. s # {} BY <2>1, FS_EmptySet
    <3>2. PICK x, r : x = One(s) /\ r = s \ {One(s)} OBVIOUS
    <3>3. x \in s /\ Cardinality(r) = n BY <1>3, <2>1, <3>1, <3>2, LessOne
    <3>4. x \in D /\ r \in SUBSET D BY <3>2, <3>3
    <3>5. g[r] <= k[r] /\ f[x] <= h[x] BY <1>5, <3>3, <3>4
    <3>6. g[r] \in Int /\ k[r] \in Int /\ f[x] \in Int /\ h[x] \in Int BY <1>1, <1>2, <3>4
    <3>7. g[s] = f[x] + g[r] /\ k[s] = h[x] + k[r] BY <1>1, <1>2, <3>1, <3>2
    <3> QED BY <3>5, <3>6, <3>7
  <2> QED BY <2>1
<1>6. Nat \subseteq T
  <2> HIDE DEF T
  <2> QED BY <1>4, <1>5, Induction
<1>7. D \in SUBSET D /\ Cardinality(D) \in Nat BY <1>3
<1> QED BY <1>1, <1>2, <1>6, <1>7

LEMMA SumNothing ==
  ASSUME NEW D, IsFiniteSet(D), NEW f \in [D -> Int], \A x \in D : f[x] = 0
  PROVE  SumFunction(f) = 0
<1>1. PICK g : SumBy(f, D, g) BY SumOf
<1> USE DEF SumBy
<1> DEFINE T == {n \in Nat : \A s \in SUBSET D : Cardinality(s) = n => g[s] = 0}
<1>3. \A s \in SUBSET D : IsFiniteSet(s) /\ Cardinality(s) \in Nat BY FS_Subset, FS_CardinalityType
<1>4. 0 \in T
  <2>1. ASSUME NEW s \in SUBSET D, Cardinality(s) = 0 PROVE g[s] = 0
    <3>1. s = {} BY <1>3, <2>1, FS_EmptySet
    <3> QED BY <1>1, <3>1
  <2> QED BY <2>1
<1>5. ASSUME NEW n \in Nat, n \in T PROVE n + 1 \in T
  <2>1. ASSUME NEW s \in SUBSET D, Cardinality(s) = n + 1 PROVE g[s] = 0
    <3>1. s # {} BY <2>1, FS_EmptySet
    <3>2. PICK x, r : x = One(s) /\ r = s \ {One(s)} OBVIOUS
    <3>3. x \in s /\ Cardinality(r) = n BY <1>3, <2>1, <3>1, <3>2, LessOne
    <3>4. x \in D /\ r \in SUBSET D BY <3>2, <3>3
    <3>5. g[r] = 0 /\ f[x] = 0 BY <1>5, <3>3, <3>4
    <3>7. g[s] = f[x] + g[r] BY <1>1, <3>1, <3>2
    <3> QED BY <3>5, <3>7
  <2> QED BY <2>1
<1>6. Nat \subseteq T
  <2> HIDE DEF T
  <2> QED BY <1>4, <1>5, Induction
<1>7. D \in SUBSET D /\ Cardinality(D) \in Nat BY <1>3
<1> QED BY <1>1, <1>6, <1>7
\* More points, no lower tier; without points, none.
LEMMA TierRises ==
  ASSUME NEW p \in Int, NEW q \in Int, p <= q
  PROVE  TierOf(p) <= TierOf(q)
<1>1. Floors \in Seq(Nat \ {0}) /\ Len(Floors) \in Nat /\ DOMAIN Floors = 1..Len(Floors)
  BY LoyaltyPointsAssumption
<1>2. IsFiniteSet(DOMAIN Floors) BY <1>1, FS_Interval
<1> DEFINE S == {t \in DOMAIN Floors : p >= Floors[t]}
           T == {t \in DOMAIN Floors : q >= Floors[t]}
<1>3. S \in SUBSET T /\ T \in SUBSET DOMAIN Floors
  <2>1. \A t \in DOMAIN Floors : Floors[t] \in Int BY <1>1
  <2>2. \A t \in DOMAIN Floors : p >= Floors[t] => q >= Floors[t] BY <2>1
  <2> QED BY <2>2
<1>4. TierOf(p) = Cardinality(S) /\ TierOf(q) = Cardinality(T) BY DEF TierOf
<1> HIDE DEF S, T
<1>5. IsFiniteSet(T) BY <1>2, <1>3, FS_Subset
<1> QED BY <1>3, <1>4, <1>5, FS_Subset

LEMMA NoTier == TierOf(0) = 0 /\ TagOf(0) = {}
<1>1. Floors \in Seq(Nat \ {0}) /\ DOMAIN Floors = 1..Len(Floors) BY LoyaltyPointsAssumption
<1>2. \A t \in DOMAIN Floors : Floors[t] \in Nat \ {0} BY <1>1
<1>3. {t \in DOMAIN Floors : 0 >= Floors[t]} = {} BY <1>2
<1>4. Cardinality({}) = 0 BY FS_EmptySet
<1> QED BY <1>3, <1>4 DEF TierOf, TagOf

--------------------
(* Types *)

LEMMA Slots ==
  /\ Sweep \notin Order /\ Admin \notin Order /\ Job \notin Order
  /\ Sweep # Admin /\ Sweep # Job /\ Admin # Job
  /\ {Sweep, Admin, Job} \subseteq Slot /\ Order \subseteq Slot
  BY LoyaltyPointsAssumption DEF Slot, Sweep, Admin, Job

LEMMA LoadIsNone == \A load \in LoadRec : load # None
<1> SUFFICES ASSUME NEW load \in LoadRec PROVE load # None
  OBVIOUS
<1>1. load = [refund |-> load.refund, buyer |-> load.buyer] /\ load.refund \in 0..Paid /\ load.buyer \in Customer
  BY DEF LoadRec
<1> QED BY <1>1, LoyaltyPointsAssumption

\* What a request holds stays sound when more orders are placed.
LEMMA RunStays ==
  ASSUME NEW s, NEW r, RunOK(s, r), Placed \subseteq Placed'
  PROVE  RunOK(s, r)'
<1>1. CASE r = Idle BY <1>1 DEF RunOK, Idle
<1>2. CASE r # Idle
  <2>1. /\ Form(r) /\ r.todo \in Seq(TodoRec)
        /\ s = Sweep => r.names = None \/ r.names \subseteq Placed
    BY <1>2 DEF RunOK
  <2>2. s = Sweep => r.names = None \/ r.names \subseteq Placed' BY <2>1
  <2>3. EarnRun(s, r) => EarnRun(s, r)' BY DEF EarnRun
  <2>4. Batch(r) => Batch(r)' BY DEF Batch
  <2>5. r.names \subseteq Placed => r.names \subseteq Placed' OBVIOUS
  <2> QED BY <1>2, <2>1, <2>2, <2>3, <2>4, <2>5 DEF RunOK, Form
<1> QED BY <1>1, <1>2

OnlySlot(s) ==
    /\ run' = [x \in Slot |-> run'[x]]
    /\ \A x \in Slot : x # s => run'[x] = run[x]

LEMMA RunChanges ==
  ASSUME Requests, NEW s \in Slot, NEW r, run' = [run EXCEPT ![s] = r]
  PROVE  OnlySlot(s) /\ run'[s] = r
  BY DEF Requests, OnlySlot

LEMMA RunTypes ==
  ASSUME Requests, NEW s \in Slot, OnlySlot(s), RunOK(s, run'[s]), order' = order
  PROVE  Requests'
<1>1. Placed' = Placed BY DEF Placed
<1>2. ASSUME NEW x \in Slot PROVE RunOK(x, run[x])'
  <2>1. PICK r : r = run'[x] OBVIOUS
  <2>2. RunOK(x, r) BY <2>1 DEF OnlySlot, Requests
  <2>3. RunOK(x, r)' BY <1>1, <2>2, RunStays
  <2> QED BY <2>1, <2>3
<1> QED BY <1>2 DEF Requests, OnlySlot

LEMMA SameRuns ==
  ASSUME Requests, run' = run, Placed \subseteq Placed'
  PROVE  Requests'
<1>1. ASSUME NEW x \in Slot PROVE RunOK(x, run[x])'
  <2>1. PICK r : r = run[x] OBVIOUS
  <2>2. RunOK(x, r) BY <2>1 DEF Requests
  <2>3. RunOK(x, r)' BY <2>2, RunStays
  <2>4. run'[x] = r BY <2>1
  <2> QED BY <2>3, <2>4
<1> QED BY <1>1 DEF Requests

LEMMA OnwardOK ==
  ASSUME Requests, NEW s \in Slot, Busy(s)
  PROVE  RunOK(s, Onward(s))
<1>1. run[s] # Idle /\ RunOK(s, run[s]) BY DEF Requests, Busy, Idle
<1>2. s = Sweep => run[s].names = None \/ run[s].names \subseteq Placed BY <1>1 DEF RunOK
<1>3. CASE s # Sweep BY <1>3 DEF Onward, RunOK
<1>4. CASE s = Sweep
  <2>1. <<>> \in Seq(TodoRec) BY EmptySeq
  <2>2. CASE run[s].names = None
    <3>1. PICK r : r = Onward(s) /\ r = [Start("names") EXCEPT !.names = None]
      BY <1>4, <2>2 DEF Onward
    <3>2. r = [pc |-> "names", order |-> None, load |-> None, who |-> None, points |-> 0,
               todo |-> <<>>, sum |-> 0, was |-> 0, had |-> {}, names |-> None]
      BY <3>1 DEF Start
    <3>3. Form(r) /\ r.todo = <<>> /\ r.names = None /\ r.pc = "names" BY <3>2 DEF Form
    <3> QED BY <3>1, <3>3, <2>1, <1>4 DEF RunOK
  <2>3. CASE run[s].names # None
    <3>0. PICK n : n = run[s].names OBVIOUS
    <3>1. PICK r : r = Onward(s) /\ r = [Start("recheck") EXCEPT !.names = n]
      BY <1>4, <2>3, <3>0 DEF Onward
    <3>2. r = [pc |-> "recheck", order |-> None, load |-> None, who |-> None, points |-> 0,
               todo |-> <<>>, sum |-> 0, was |-> 0, had |-> {}, names |-> n]
      BY <3>1 DEF Start
    <3>3. Form(r) /\ r.todo = <<>> /\ r.names = n /\ r.pc = "recheck" BY <3>2 DEF Form
    <3> QED BY <1>2, <1>4, <2>1, <2>3, <3>0, <3>1, <3>3 DEF RunOK
  <2> QED BY <2>2, <2>3
<1> QED BY <1>3, <1>4

LEMMA RefreshingOK ==
  ASSUME Requests, NEW s \in Slot, Busy(s), NEW todo \in Seq(TodoRec)
  PROVE  RunOK(s, Refreshing(s, todo))
<1>1. CASE todo = <<>> BY <1>1, OnwardOK DEF Refreshing
<1>2. CASE todo # <<>>
  <2>1. run[s] # Idle /\ RunOK(s, run[s]) BY DEF Requests, Busy, Idle
  <2>2. s = Sweep => run[s].names = None \/ run[s].names \subseteq Placed BY <2>1 DEF RunOK
  <2>3. PICK n, o : n = run[s].names /\ o = run[s].order OBVIOUS
  <2>4. PICK r : /\ r = Refreshing(s, todo)
                 /\ r = [Start("sum") EXCEPT !.todo = todo, !.order = o, !.names = n]
    BY <1>2, <2>3 DEF Refreshing
  <2>5. r = [pc |-> "sum", order |-> o, load |-> None, who |-> None, points |-> 0,
             todo |-> todo, sum |-> 0, was |-> 0, had |-> {}, names |-> n]
    BY <2>4 DEF Start
  <2>6. Form(r) /\ r.todo = todo /\ r.names = n /\ r.pc = "sum" BY <2>5 DEF Form
  <2> QED BY <1>2, <2>2, <2>3, <2>4, <2>6 DEF RunOK, Refreshes
<1> QED BY <1>1, <1>2

LEMMA InitTypes == Init => TypeInv
<1> SUFFICES ASSUME Init PROVE TypeInv
  OBVIOUS
<1>1. Paid \in Nat /\ Len(Floors) \in Nat BY LoyaltyPointsAssumption
<1>2. NotPlaced \in OrderRec /\ NotPlaced.placed = FALSE BY <1>1 DEF NotPlaced, OrderRec
<1>3. Orders
  <2>1. case \in Case /\ order = [o \in Order |-> NotPlaced] BY DEF Init
  <2> QED BY <2>1, <1>2 DEF Orders, Placed
<1>4. News
  <2>1. /\ post = [o \in Order |-> <<>>] /\ timer = [o \in Order |-> None] /\ recall = {}
    BY DEF Init
  <2>2. <<>> \in Seq(LoadRec) /\ DOMAIN <<>> = {} BY EmptySeq
  <2> QED BY <2>1, <2>2 DEF News
<1>5. Tables
  <2>1. /\ entry = [o \in Order |-> NoEntry] /\ adjust = [c \in Customer |-> 0]
        /\ copy = [c \in Customer |-> [points |-> 0, tier |-> 0]]
        /\ tags = [c \in Customer |-> {}] /\ told = [c \in Customer |-> 0]
    BY DEF Init
  <2>2. NoEntry \in RowRec BY <1>1 DEF NoEntry, RowRec
  <2>3. 0 \in Tier BY <1>1 DEF Tier
  <2>4. \A c \in Customer : copy[c].tier = 0 BY <2>1
  <2>5. copy = [c \in Customer |-> copy[c]] BY <2>1
  <2> QED BY <2>1, <2>2, <2>3, <2>4, <2>5 DEF Tables
<1>6. Requests BY DEF Init, Requests, RunOK
<1> QED BY <1>3, <1>4, <1>5, <1>6 DEF TypeInv

\* What a change of an order and the news of it come to.
LEMMA ChangeTypes ==
  ASSUME TypeInv, NEW o \in Order, NEW new \in OrderRec, NEW load,
         new.placed, new.buyer \in Customer, o \in Placed => new.refund >= order[o].refund,
         order' = [order EXCEPT ![o] = new],
         \/ post' = post
         \/ load \in LoadRec /\ load.refund <= new.refund /\ post' = [post EXCEPT ![o] = Append(@, load)],
         recall' \subseteq recall \cup {o},
         UNCHANGED <<case, timer, entry, adjust, copy, tags, told, run>>
  PROVE  TypeInv'
<1>1. order' \in [Order -> OrderRec] /\ order'[o] = new /\ \A x \in Order : x # o => order'[x] = order[x]
  BY DEF TypeInv, Orders
<1>2. Placed' = Placed \cup {o} BY <1>1 DEF Placed
<1>3. Orders'
  <2>1. \A x \in Placed' : order'[x].buyer \in Customer BY <1>1, <1>2 DEF TypeInv, Orders
  <2> QED BY <1>1, <2>1 DEF TypeInv, Orders
<1>4. \A x \in Order : \A l : Known(x, l) => Known(x, l)'
  <2> SUFFICES ASSUME NEW x \in Order, NEW l, Known(x, l)
               PROVE  Known(x, l)'
    OBVIOUS
  <2>1. l \in LoadRec /\ l.refund <= order[x].refund /\ x \in Placed BY DEF Known
  <2>2. l.refund \in Int /\ order[x].refund \in Int /\ new.refund \in Int
    <3>1. order[x] \in OrderRec BY DEF TypeInv, Orders
    <3> QED BY <2>1, <3>1, LoyaltyPointsAssumption DEF LoadRec, OrderRec
  <2>3. l.refund <= order'[x].refund
    <3>1. CASE x = o BY <1>1, <2>1, <2>2, <3>1
    <3>2. CASE x # o BY <1>1, <2>1, <3>2
    <3> QED BY <3>1, <3>2
  <2> QED BY <2>1, <2>3, <1>2 DEF Known
<1>5. post' \in [Order -> Seq(LoadRec)] /\ \A x \in Order : \A i \in DOMAIN post'[x] : Known(x, post[x][i])'
  <2>0. post \in [Order -> Seq(LoadRec)] /\ \A x \in Order : \A i \in DOMAIN post[x] : Known(x, post[x][i])
    BY DEF TypeInv, News
  <2>1. CASE post' = post
    <3>1. ASSUME NEW x \in Order, NEW i \in DOMAIN post'[x] PROVE Known(x, post[x][i])'
      <4>1. PICK l : l = post[x][i] OBVIOUS
      <4>2. Known(x, l) BY <2>0, <2>1, <4>1
      <4>3. Known(x, l)' BY <1>4, <4>2
      <4> QED BY <4>1, <4>3, <2>1
    <3> QED BY <2>0, <2>1, <3>1
  <2>2. CASE /\ load \in LoadRec /\ load.refund <= new.refund
             /\ post' = [post EXCEPT ![o] = Append(@, load)]
    <3>1. post[o] \in Seq(LoadRec) BY <2>0
    <3>2. /\ Append(post[o], load) \in Seq(LoadRec)
          /\ \A i \in DOMAIN Append(post[o], load) :
                Append(post[o], load)[i] = load \/ \E k \in DOMAIN post[o] : Append(post[o], load)[i] = post[o][k]
      BY <2>2, <3>1, AppendLast
    <3>3. post'[o] = Append(post[o], load) /\ \A x \in Order : x # o => post'[x] = post[x] BY <2>0, <2>2
    <3>4. post' \in [Order -> Seq(LoadRec)] BY <2>0, <2>2, <3>2
    <3>5. Known(o, load)' BY <2>2, <1>1, <1>2 DEF Known
    <3>6. ASSUME NEW x \in Order, NEW i \in DOMAIN post'[x] PROVE Known(x, post[x][i])'
      <4>1. PICK l : l = post'[x][i] OBVIOUS
      <4>2. Known(x, l) \/ (x = o /\ l = load) BY <2>0, <3>2, <3>3, <4>1
      <4>3. Known(x, l)' BY <1>4, <3>5, <4>2
      <4> QED BY <4>1, <4>3
    <3> QED BY <3>4, <3>6
  <2> QED BY <2>1, <2>2
<1>6. timer' \in [Order -> LoadRec \cup {None}] /\ \A x \in Order : timer'[x] # None => Known(x, timer[x])'
  <2>1. ASSUME NEW x \in Order, timer'[x] # None PROVE Known(x, timer[x])'
    <3>1. PICK l : l = timer[x] OBVIOUS
    <3>2. Known(x, l) BY <2>1, <3>1 DEF TypeInv, News
    <3>3. Known(x, l)' BY <1>4, <3>2
    <3>4. timer'[x] = l BY <3>1
    <3> QED BY <3>3, <3>4
  <2> QED BY <2>1 DEF TypeInv, News
<1>7. News'
  <2>1. recall' \subseteq Placed' BY <1>2 DEF TypeInv, News
  <2> QED BY <1>5, <1>6, <2>1 DEF News
<1>8. Tables'
  <2>1. \A x \in Order : entry[x] = NoEntry \/ (x \in Placed' /\ entry[x].customer \in Customer)
    BY <1>2 DEF TypeInv, Tables
  <2> QED BY <2>1 DEF TypeInv, Tables
<1>9. Requests' BY <1>2, SameRuns DEF TypeInv
<1> QED BY <1>3, <1>7, <1>8, <1>9 DEF TypeInv

OrderStep(o) ==
    \/ \E c \in Customer, a \in Customer \cup {None} : Place(o, c, a)
    \/ Refund(o) \/ StoreRefund(o) \/ RedeemNote(o) \/ Redeliver(o)
    \/ \E c \in Customer : Move(o, c)

LEMMA OrderStepTypes ==
  ASSUME TypeInv, NEW o \in Order, OrderStep(o)
  PROVE  TypeInv'
<1>0. Paid \in Nat /\ order[o] \in OrderRec /\ order \in [Order -> OrderRec]
  BY LoyaltyPointsAssumption DEF TypeInv, Orders
<1>1. o \in Placed => order[o].placed /\ order[o].buyer \in Customer BY DEF TypeInv, Orders, Placed
<1>2. ASSUME NEW c \in Customer, NEW a \in Customer \cup {None}, Place(o, c, a) PROVE TypeInv'
  <2>1. PICK new : new = [NotPlaced EXCEPT !.placed = TRUE, !.buyer = c, !.asker = a] OBVIOUS
  <2>2. new = [placed |-> TRUE, buyer |-> c, asker |-> a, refund |-> 0, store |-> 0, notes |-> 0]
    BY <2>1 DEF NotPlaced
  <2>3. PICK load : load = [refund |-> 0, buyer |-> c] OBVIOUS
  <2>4. new \in OrderRec /\ new.placed /\ new.buyer \in Customer /\ new.refund = 0 BY <1>0, <2>2 DEF OrderRec
  <2>5. load \in LoadRec /\ load.refund = 0 BY <1>0, <2>3 DEF LoadRec
  <2>6. /\ order' = [order EXCEPT ![o] = new] /\ post' = [post EXCEPT ![o] = Append(@, load)]
        /\ recall' = recall /\ UNCHANGED <<case, timer, entry, adjust, copy, tags, told, run>>
    BY <1>2, <2>1, <2>3 DEF Place, Change, Deliveries
  <2>7. o \notin Placed /\ load.refund <= new.refund BY <1>2, <2>4, <2>5 DEF Place
  <2> QED BY <2>4, <2>5, <2>6, <2>7, ChangeTypes
<1>3. ASSUME Refund(o) PROVE TypeInv'
  <2>1. PICK new : new = [order[o] EXCEPT !.refund = @ + 1] OBVIOUS
  <2>2. PICK load : load = [Load(o) EXCEPT !.refund = @ + 1] OBVIOUS
  <2>3. o \in Placed /\ order[o].refund < Paid BY <1>3 DEF Refund
  <2>4. /\ new \in OrderRec /\ new.placed /\ new.buyer \in Customer
        /\ new.refund = order[o].refund + 1 /\ new.refund >= order[o].refund
    BY <1>0, <1>1, <2>1, <2>3 DEF OrderRec
  <2>5. load = [refund |-> order[o].refund + 1, buyer |-> order[o].buyer] BY <2>2 DEF Load
  <2>6. load \in LoadRec /\ load.refund <= new.refund BY <1>0, <1>1, <2>3, <2>4, <2>5 DEF LoadRec, OrderRec
  <2>7. /\ order' = [order EXCEPT ![o] = new] /\ post' = [post EXCEPT ![o] = Append(@, load)]
        /\ recall' = recall /\ UNCHANGED <<case, timer, entry, adjust, copy, tags, told, run>>
    BY <1>3, <2>1, <2>2 DEF Refund, Change, Deliveries
  <2> QED BY <2>4, <2>6, <2>7, ChangeTypes
<1>4. ASSUME StoreRefund(o) PROVE TypeInv'
  <2>1. PICK new : new = [order[o] EXCEPT !.store = @ + 1] OBVIOUS
  <2>3. o \in Placed /\ order[o].store < Paid BY <1>4 DEF StoreRefund
  <2>4. /\ new \in OrderRec /\ new.placed /\ new.buyer \in Customer
        /\ new.refund >= order[o].refund
    BY <1>0, <1>1, <2>1, <2>3 DEF OrderRec
  <2>7. /\ order' = [order EXCEPT ![o] = new] /\ post' = post
        /\ recall' = recall /\ UNCHANGED <<case, timer, entry, adjust, copy, tags, told, run>>
    BY <1>4, <2>1 DEF StoreRefund, Change
  <2> QED BY <2>4, <2>7, ChangeTypes
<1>5. ASSUME RedeemNote(o) PROVE TypeInv'
  <2>1. PICK new : new = [order[o] EXCEPT !.notes = 1] OBVIOUS
  <2>3. o \in Placed BY <1>5 DEF RedeemNote
  <2>4. /\ new \in OrderRec /\ new.placed /\ new.buyer \in Customer
        /\ new.refund >= order[o].refund
    BY <1>0, <1>1, <2>1, <2>3 DEF OrderRec
  <2>7. /\ order' = [order EXCEPT ![o] = new] /\ post' = post
        /\ recall' = recall \cup {o} /\ UNCHANGED <<case, timer, entry, adjust, copy, tags, told, run>>
    BY <1>5, <2>1 DEF RedeemNote, Change
  <2> QED BY <2>4, <2>7, ChangeTypes
<1>6. ASSUME Redeliver(o) PROVE TypeInv'
  <2>1. PICK new : new = order[o] OBVIOUS
  <2>2. PICK load : load = Load(o) OBVIOUS
  <2>3. o \in Placed BY <1>6 DEF Redeliver
  <2>4. /\ new \in OrderRec /\ new.placed /\ new.buyer \in Customer
        /\ new.refund = order[o].refund /\ new.refund >= order[o].refund
    BY <1>0, <1>1, <2>1, <2>3 DEF OrderRec
  <2>5. load = [refund |-> order[o].refund, buyer |-> order[o].buyer] BY <2>2 DEF Load
  <2>6. load \in LoadRec /\ load.refund <= new.refund BY <1>0, <1>1, <2>3, <2>4, <2>5 DEF LoadRec, OrderRec
  <2>7. /\ order' = [order EXCEPT ![o] = new] /\ post' = [post EXCEPT ![o] = Append(@, load)]
        /\ recall' = recall /\ UNCHANGED <<case, timer, entry, adjust, copy, tags, told, run>>
    BY <1>6, <2>1, <2>2 DEF Redeliver, Change, Deliveries
  <2> QED BY <2>4, <2>6, <2>7, ChangeTypes
<1>7. ASSUME NEW c \in Customer, Move(o, c) PROVE TypeInv'
  <2>1. PICK new : new = [order[o] EXCEPT !.buyer = c] OBVIOUS
  <2>2. PICK load : load = [Load(o) EXCEPT !.buyer = c] OBVIOUS
  <2>3. o \in Placed BY <1>7 DEF Move
  <2>4. /\ new \in OrderRec /\ new.placed /\ new.buyer \in Customer
        /\ new.refund = order[o].refund /\ new.refund >= order[o].refund
    BY <1>0, <1>1, <2>1, <2>3 DEF OrderRec
  <2>5. load = [refund |-> order[o].refund, buyer |-> c] BY <2>2 DEF Load
  <2>6. load \in LoadRec /\ load.refund <= new.refund BY <1>0, <1>1, <2>3, <2>4, <2>5 DEF LoadRec, OrderRec
  <2>7. /\ order' = [order EXCEPT ![o] = new] /\ post' = [post EXCEPT ![o] = Append(@, load)]
        /\ recall' = recall /\ UNCHANGED <<case, timer, entry, adjust, copy, tags, told, run>>
    BY <1>7, <2>1, <2>2 DEF Move, Change, Deliveries
  <2> QED BY <2>4, <2>6, <2>7, ChangeTypes
<1> QED BY <1>2, <1>3, <1>4, <1>5, <1>6, <1>7 DEF OrderStep

LEMMA BusyRun ==
  ASSUME TypeInv, NEW s \in Slot, Busy(s)
  PROVE  LET r == run[s] IN
         /\ Form(r) /\ RunOK(s, r) /\ r # Idle
         /\ r.todo \in Seq(TodoRec)
         /\ s = Sweep => r.names = None \/ r.names \subseteq Placed
         /\ r.pc \in Earns => EarnRun(s, r)
         /\ r.pc \in Refreshes => r.todo # <<>>
         /\ r.pc = "adjust" => s = Admin /\ r.who \in Customer /\ r.points \in Int
         /\ r.pc = "write" => s = Job /\ Batch(r)
         /\ r.pc = "names" => s = Sweep
         /\ r.pc = "recheck" => s = Sweep /\ r.names \subseteq Placed
  BY DEF TypeInv, Requests, RunOK, Busy, Idle, Earns, Refreshes

LEMMA SameOrders ==
  ASSUME TypeInv, UNCHANGED <<case, order>>
  PROVE  Orders' /\ Placed' = Placed
  BY DEF TypeInv, Orders, Placed

LEMMA SameNews ==
  ASSUME TypeInv, UNCHANGED <<order, post, timer, recall>>
  PROVE  News'
  BY DEF TypeInv, News, Placed, Known

LEMMA SameTables ==
  ASSUME TypeInv, UNCHANGED <<order, entry, adjust, copy, tags, told>>
  PROVE  Tables'
  BY DEF TypeInv, Tables, Placed

\* A step of one request that touches nothing but what it holds.
LEMMA MoveTypes ==
  ASSUME TypeInv, NEW s \in Slot, OnlySlot(s), RunOK(s, run'[s]),
         UNCHANGED <<case, order, post, timer, recall, entry, adjust, copy, tags, told>>
  PROVE  TypeInv'
  BY SameOrders, SameNews, SameTables, RunTypes DEF TypeInv

\* A payload is delivered, or fetched fresh.
LEMMA KeepTypes ==
  ASSUME TypeInv, NEW o \in Order, NEW load, Known(o, load),
         timer' = [timer EXCEPT ![o] = load] \/ timer' = timer,
         post' \in [Order -> Seq(LoadRec)],
         \A x \in Order : \A j \in DOMAIN post'[x] : \E k \in DOMAIN post[x] : post'[x][j] = post[x][k],
         recall' \subseteq recall,
         UNCHANGED <<case, order, entry, adjust, copy, tags, told, run>>
  PROVE  TypeInv'
<1>1. Placed' = Placed BY DEF Placed
<1>2. \A x \in Order : \A l : Known(x, l)' <=> Known(x, l) BY <1>1 DEF Known
<1>3. timer' \in [Order -> LoadRec \cup {None}] BY DEF TypeInv, News, Known
<1>4. ASSUME NEW x \in Order, timer'[x] # None PROVE Known(x, timer[x])'
  <2>1. PICK l : l = timer'[x] OBVIOUS
  <2>2. Known(x, l) BY <1>4, <2>1 DEF TypeInv, News
  <2>3. Known(x, l)' BY <1>2, <2>2
  <2> QED BY <2>1, <2>3
<1>5. ASSUME NEW x \in Order, NEW j \in DOMAIN post'[x] PROVE Known(x, post[x][j])'
  <2>1. PICK l : l = post'[x][j] OBVIOUS
  <2>2. Known(x, l) BY <2>1 DEF TypeInv, News
  <2>3. Known(x, l)' BY <1>2, <2>2
  <2> QED BY <2>1, <2>3
<1>6. News'
  <2>1. recall' \subseteq Placed' BY <1>1 DEF TypeInv, News
  <2> QED BY <1>3, <1>4, <1>5, <2>1 DEF News
<1>7. Requests' BY <1>1, SameRuns DEF TypeInv
<1> QED BY <1>6, <1>7, SameOrders, SameTables DEF TypeInv

LEMMA DeliverTypes ==
  ASSUME TypeInv, NEW o \in Order, NEW i \in DOMAIN post[o], Deliver(o, i)
  PROVE  TypeInv'
<1>1. post \in [Order -> Seq(LoadRec)] /\ post[o] \in Seq(LoadRec) /\ Known(o, post[o][i])
  BY DEF TypeInv, News
<1>2. /\ RemoveAt(post[o], i) \in Seq(LoadRec)
      /\ \A j \in DOMAIN RemoveAt(post[o], i) : \E k \in DOMAIN post[o] : RemoveAt(post[o], i)[j] = post[o][k]
  BY <1>1, RemoveAtIn
<1>3. post' = [post EXCEPT ![o] = RemoveAt(post[o], i)] BY <1>1 DEF Deliver
<1> DEFINE left == RemoveAt(post[o], i)
<1> HIDE DEF left
<1>4. /\ post' = [post EXCEPT ![o] = left] /\ left \in Seq(LoadRec)
      /\ \A j \in DOMAIN left : \E k \in DOMAIN post[o] : left[j] = post[o][k]
  BY <1>2, <1>3 DEF left
<1>5. post' \in [Order -> Seq(LoadRec)] BY <1>1, <1>4
<1>6. \A x \in Order : \A j \in DOMAIN post'[x] : \E k \in DOMAIN post[x] : post'[x][j] = post[x][k]
  <2> SUFFICES ASSUME NEW x \in Order, NEW j \in DOMAIN post'[x]
               PROVE  \E k \in DOMAIN post[x] : post'[x][j] = post[x][k]
    OBVIOUS
  <2>1. CASE x = o BY <1>1, <1>4, <2>1
  <2>2. CASE x # o BY <1>1, <1>4, <2>2
  <2> QED BY <2>1, <2>2
<1>7. timer' = [timer EXCEPT ![o] = post[o][i]] BY DEF Deliver, Keep
<1>8. recall' = recall /\ UNCHANGED <<case, order, entry, adjust, copy, tags, told, run>> BY DEF Deliver
<1> QED BY <1>1, <1>5, <1>6, <1>7, <1>8, KeepTypes

LEMMA LoadKnown ==
  ASSUME TypeInv, NEW o \in Placed
  PROVE  Known(o, Load(o)) /\ Load(o) \in LoadRec
<1>1. order[o] \in OrderRec /\ order[o].buyer \in Customer /\ o \in Order BY DEF TypeInv, Orders, Placed
<1>2. Load(o) \in LoadRec /\ Load(o).refund = order[o].refund BY <1>1 DEF Load, LoadRec, OrderRec
<1>3. order[o].refund \in Nat BY <1>1, LoyaltyPointsAssumption DEF OrderRec
<1>4. Load(o).refund <= order[o].refund BY <1>2, <1>3
<1> QED BY <1>2, <1>4 DEF Known

LEMMA RecallTypes ==
  ASSUME TypeInv, NEW o \in Order, Recall(o)
  PROVE  TypeInv'
<1>1. o \in Placed BY DEF Recall, TypeInv, News
<1>2. timer' = [timer EXCEPT ![o] = Load(o)] \/ timer' = timer BY DEF Recall, Keep
<1>3. post' = post /\ recall' \subseteq recall /\ UNCHANGED <<case, order, entry, adjust, copy, tags, told, run>>
  BY DEF Recall
<1>4. post \in [Order -> Seq(LoadRec)] BY DEF TypeInv, News
<1>5. Known(o, Load(o)) BY <1>1, LoadKnown
<1> HIDE DEF Load
<1> QED BY <1>2, <1>3, <1>4, <1>5, KeepTypes

\* A request that begins to work on an order.
LEMMA EarningOK ==
  ASSUME NEW s, NEW o \in Placed, NEW load \in LoadRec, NEW names,
         s = o \/ (s = Sweep /\ names \subseteq Placed), s = o => s # Sweep
  PROVE  /\ RunOK(s, [Earning(o, load) EXCEPT !.names = names])
         /\ s = o => RunOK(s, Earning(o, load))
<1>1. <<>> \in Seq(TodoRec) BY EmptySeq
<1>2. ASSUME NEW r, r = Earning(o, load)
      PROVE  r = [pc |-> "settle", order |-> o, load |-> load, who |-> None, points |-> 0,
                  todo |-> <<>>, sum |-> 0, was |-> 0, had |-> {}, names |-> None]
  BY <1>2 DEF Earning, Start
<1>3. ASSUME NEW r, NEW n,
             r = [pc |-> "settle", order |-> o, load |-> load, who |-> None, points |-> 0,
                  todo |-> <<>>, sum |-> 0, was |-> 0, had |-> {}, names |-> n],
             s = Sweep => n = None \/ n \subseteq Placed
      PROVE  RunOK(s, r)
  <2>1. /\ Form(r) /\ r.todo = <<>> /\ r.pc = "settle" /\ r.names = n /\ r.order = o /\ r.load = load
    BY <1>3 DEF Form
  <2>2. EarnRun(s, r) BY <2>1 DEF EarnRun
  <2> QED BY <1>1, <1>3, <2>1, <2>2 DEF RunOK, Earns
<1>4. RunOK(s, [Earning(o, load) EXCEPT !.names = names])
  <2>1. PICK r : r = Earning(o, load) OBVIOUS
  <2>2. PICK q : q = [r EXCEPT !.names = names] OBVIOUS
  <2>3. r = [pc |-> "settle", order |-> o, load |-> load, who |-> None, points |-> 0,
             todo |-> <<>>, sum |-> 0, was |-> 0, had |-> {}, names |-> None]
    BY <1>2, <2>1
  <2>4. q = [pc |-> "settle", order |-> o, load |-> load, who |-> None, points |-> 0,
             todo |-> <<>>, sum |-> 0, was |-> 0, had |-> {}, names |-> names]
    BY <2>2, <2>3
  <2>5. RunOK(s, q) BY <1>3, <2>4
  <2> QED BY <2>1, <2>2, <2>5
<1>5. ASSUME s = o PROVE RunOK(s, Earning(o, load))
  <2>1. PICK r : r = Earning(o, load) OBVIOUS
  <2>2. RunOK(s, r) BY <1>2, <1>3, <1>5, <2>1
  <2> QED BY <2>1, <2>2
<1> QED BY <1>4, <1>5

LEMMA FireTypes ==
  ASSUME TypeInv, NEW o \in Order, Fire(o)
  PROVE  TypeInv'
<1>1. timer[o] # None /\ timer[o] \in LoadRec /\ o \in Placed /\ timer \in [Order -> LoadRec \cup {None}]
  BY DEF Fire, TypeInv, News, Known
<1>2. o \in Slot /\ o # Sweep BY Slots
<1>3. RunOK(o, Earning(o, timer[o])) BY <1>1, <1>2, EarningOK
<1>4. PICK r : r = Earning(o, timer[o]) OBVIOUS
<1>5. OnlySlot(o) /\ run'[o] = r BY <1>2, <1>4, RunChanges DEF Fire, TypeInv
<1>6. UNCHANGED <<case, order, post, recall, entry, adjust, copy, tags, told>> BY DEF Fire
<1>7. Requests' BY <1>2, <1>3, <1>4, <1>5, <1>6, RunTypes DEF TypeInv
<1>8. Placed' = Placed BY <1>6 DEF Placed
<1>9. timer' = [timer EXCEPT ![o] = None] BY DEF Fire
<1>10. timer' \in [Order -> LoadRec \cup {None}] BY <1>1, <1>9
<1>11. \A x \in Order : timer'[x] # None => timer'[x] = timer[x] BY <1>1, <1>9
<1>12. News' BY <1>6, <1>8, <1>10, <1>11 DEF TypeInv, News, Known
<1> QED BY <1>6, <1>7, <1>12, SameOrders, SameTables DEF TypeInv

\* The steps of an order that is earned.
LEMMA SettleDoes ==
  ASSUME TypeInv, NEW s \in Slot, Settle(s)
  PROVE  /\ Busy(s) /\ run[s].pc = "settle" /\ EarnRun(s, run[s]) /\ OnlySlot(s)
         /\ \E c \in Customer :
               /\ run'[s] = [run[s] EXCEPT !.pc = "figure", !.who = c]
               /\ \/ c = IF order[run[s].order].asker = None THEN run[s].load.buyer
                         ELSE order[run[s].order].asker
                  \/ Allowed("fault")
         /\ UNCHANGED <<case, order, post, timer, recall, entry, adjust, copy, tags, told>>
<1>1. run[s].pc = "settle" /\ Busy(s) BY DEF Settle, Busy
<1>2. EarnRun(s, run[s]) BY <1>1, BusyRun DEF Earns
<1>3. run[s].load.buyer \in Customer /\ order[run[s].order] \in OrderRec
  BY <1>2 DEF EarnRun, LoadRec, TypeInv, Orders, Placed
<1>4. PICK a, b : a = order[run[s].order].asker /\ b = run[s].load.buyer OBVIOUS
<1>5. a \in Customer \cup {None} /\ b \in Customer BY <1>3, <1>4 DEF OrderRec
<1>6. \E c \in Customer :
         /\ run' = [run EXCEPT ![s].pc = "figure", ![s].who = c]
         /\ c = (IF a = None THEN b ELSE a) \/ Allowed("fault")
  BY <1>4, <1>5 DEF Settle
<1>7. PICK c \in Customer :
         /\ run' = [run EXCEPT ![s].pc = "figure", ![s].who = c]
         /\ c = (IF a = None THEN b ELSE a) \/ Allowed("fault")
  BY <1>6
<1>8. PICK r : r = [run[s] EXCEPT !.pc = "figure", !.who = c] OBVIOUS
<1>9. run' = [run EXCEPT ![s] = r] BY <1>7, <1>8
<1>10. OnlySlot(s) /\ run'[s] = r BY <1>9, RunChanges DEF TypeInv
<1>11. UNCHANGED <<case, order, post, timer, recall, entry, adjust, copy, tags, told>> BY DEF Settle
<1> QED BY <1>1, <1>2, <1>4, <1>7, <1>8, <1>10, <1>11

LEMMA FigureDoes ==
  ASSUME TypeInv, NEW s \in Slot, Figure(s)
  PROVE  /\ Busy(s) /\ run[s].pc = "figure" /\ EarnRun(s, run[s]) /\ OnlySlot(s)
         /\ \E n \in 0..Paid :
               /\ run'[s] = [run[s] EXCEPT !.pc = "prior", !.points = n]
               /\ \/ n = Points(run[s].load.refund, order[run[s].order].store, order[run[s].order].notes)
                  \/ Allowed("fault")
         /\ UNCHANGED <<case, order, post, timer, recall, entry, adjust, copy, tags, told>>
<1>1. run[s].pc = "figure" /\ Busy(s) BY DEF Figure, Busy
<1>2. EarnRun(s, run[s]) BY <1>1, BusyRun DEF Earns
<1>3. run[s].load.refund \in 0..Paid /\ order[run[s].order] \in OrderRec
  BY <1>2 DEF EarnRun, LoadRec, TypeInv, Orders, Placed
<1>4. PICK now : now = order[run[s].order] OBVIOUS
<1>5. now.store \in 0..Paid /\ now.notes \in {0, 1} /\ 0 \in 0..Paid
  BY <1>3, <1>4, LoyaltyPointsAssumption DEF OrderRec
<1>6. PICK n1, n0 : /\ n1 = Points(run[s].load.refund, now.store, now.notes)
                    /\ n0 = Points(run[s].load.refund, 0, now.notes)
  OBVIOUS
<1>7. n1 \in 0..Paid /\ n0 \in 0..Paid BY <1>3, <1>5, <1>6, PointsIn
<1>8. \E n \in 0..Paid :
         /\ run' = [run EXCEPT ![s].pc = "prior", ![s].points = n]
         /\ n = n1 \/ Allowed("fault")
  BY <1>4, <1>6, <1>7 DEF Figure
<1>9. PICK n \in 0..Paid :
         /\ run' = [run EXCEPT ![s].pc = "prior", ![s].points = n]
         /\ n = n1 \/ Allowed("fault")
  BY <1>8
<1>10. PICK r : r = [run[s] EXCEPT !.pc = "prior", !.points = n] OBVIOUS
<1>11. run' = [run EXCEPT ![s] = r] BY <1>9, <1>10
<1>12. OnlySlot(s) /\ run'[s] = r BY <1>11, RunChanges DEF TypeInv
<1>13. UNCHANGED <<case, order, post, timer, recall, entry, adjust, copy, tags, told>> BY DEF Figure
<1> QED BY <1>1, <1>2, <1>4, <1>6, <1>9, <1>10, <1>12, <1>13

LEMMA PriorDoes ==
  ASSUME TypeInv, NEW s \in Slot, Prior(s)
  PROVE  /\ Busy(s) /\ run[s].pc = "prior" /\ EarnRun(s, run[s]) /\ OnlySlot(s)
         /\ entry[run[s].order].customer \in Customer \cup {None}
         /\ \/ /\ entry[run[s].order] = [customer |-> run[s].who, points |-> run[s].points]
               /\ run'[s] = Onward(s)
            \/ run'[s] = [run[s] EXCEPT !.pc = "upsert", !.was = entry[run[s].order].customer]
         /\ UNCHANGED <<case, order, post, timer, recall, entry, adjust, copy, tags, told>>
<1>1. run[s].pc = "prior" /\ Busy(s) BY DEF Prior, Busy
<1>2. EarnRun(s, run[s]) BY <1>1, BusyRun DEF Earns
<1>3. entry[run[s].order] \in RowRec BY <1>2 DEF EarnRun, TypeInv, Tables, Orders, Placed
<1>4. PICK r1, r2 : /\ r1 = Onward(s)
                    /\ r2 = [run[s] EXCEPT !.pc = "upsert", !.was = entry[run[s].order].customer]
  OBVIOUS
<1>5. \/ /\ entry[run[s].order] = [customer |-> run[s].who, points |-> run[s].points]
         /\ run' = [run EXCEPT ![s] = r1]
      \/ run' = [run EXCEPT ![s] = r2]
  BY <1>4 DEF Prior
<1>6. /\ OnlySlot(s)
      /\ \/ /\ entry[run[s].order] = [customer |-> run[s].who, points |-> run[s].points]
            /\ run'[s] = r1
         \/ run'[s] = r2
  BY <1>5, RunChanges DEF TypeInv
<1>7. UNCHANGED <<case, order, post, timer, recall, entry, adjust, copy, tags, told>> BY DEF Prior
<1> QED BY <1>1, <1>2, <1>3, <1>4, <1>6, <1>7 DEF RowRec

LEMMA UpsertDoes ==
  ASSUME TypeInv, NEW s \in Slot, Upsert(s)
  PROVE  LET r == run[s] IN
         /\ Busy(s) /\ r.pc = "upsert" /\ EarnRun(s, r) /\ OnlySlot(s)
         /\ entry' \in [Order -> RowRec]
         /\ entry'[r.order] = [customer |-> r.who, points |-> r.points]
         /\ \A o \in Order : o # r.order => entry'[o] = entry[o]
         /\ run'[s] = Refreshing(s, ToRefresh(r.who, r.was))
         /\ ToRefresh(r.who, r.was) \in Seq(TodoRec)
         /\ ToRefresh(r.who, r.was) # <<>>
         /\ \A c \in {r.who, r.was} \ {None} :
               \E i \in DOMAIN ToRefresh(r.who, r.was) : ToRefresh(r.who, r.was)[i].customer = c
         /\ \A i \in DOMAIN ToRefresh(r.who, r.was) :
               ToRefresh(r.who, r.was)[i].mail \/ ToRefresh(r.who, r.was)[i].customer \in {r.was} \ {None, r.who}
         /\ UNCHANGED <<case, order, post, timer, recall, adjust, copy, tags, told>>
<1>1. run[s].pc = "upsert" /\ Busy(s) BY DEF Upsert, Busy
<1>2. EarnRun(s, run[s]) BY <1>1, BusyRun DEF Earns
<1>3. PICK who, was, points, o : /\ who = run[s].who /\ was = run[s].was
                                 /\ points = run[s].points /\ o = run[s].order
  OBVIOUS
<1>4. /\ who \in Customer /\ was \in Customer \cup {None} /\ points \in 0..Paid
      /\ o \in Order
  BY <1>1, <1>2, <1>3 DEF EarnRun, Placed
<1>5. PICK e : e = [customer |-> who, points |-> points] OBVIOUS
<1>6. e \in RowRec BY <1>4, <1>5 DEF RowRec
<1>7. entry' = [entry EXCEPT ![o] = e] BY <1>3, <1>5 DEF Upsert
<1>8. entry \in [Order -> RowRec] BY DEF TypeInv, Tables
<1>9. entry' \in [Order -> RowRec] /\ entry'[o] = e /\ \A x \in Order : x # o => entry'[x] = entry[x]
  BY <1>4, <1>6, <1>7, <1>8
<1>10. PICK todo : todo = ToRefresh(who, was) OBVIOUS
<1>11. PICK one, two : one = Todo(who, TRUE) /\ two = Todo(was, FALSE) OBVIOUS
<1>12. /\ one \in TodoRec /\ one.customer = who /\ two.customer = was /\ (was # None => two \in TodoRec)
       /\ one.mail = TRUE
  BY <1>4, <1>11 DEF Todo, TodoRec
<1>13. (todo = <<one>> /\ was \in {None, who}) \/ (todo = <<one>> \o <<two>> /\ was \notin {None, who})
  <2>1. <<one>> \in Seq(TodoRec) BY <1>12
  <2>2. <<one>> \o <<>> = <<one>> BY <2>1, ConcatEmptySeq
  <2>4. CASE was \in {None, who}
    <3>1. todo = <<one>> \o <<>> BY <1>10, <1>11, <2>4 DEF ToRefresh
    <3> QED BY <2>2, <2>4, <3>1
  <2>5. CASE was \notin {None, who} BY <1>10, <1>11, <2>5 DEF ToRefresh
  <2> QED BY <2>4, <2>5
<1>14. /\ todo \in Seq(TodoRec) /\ todo # <<>>
       /\ \A c \in {who, was} \ {None} : \E i \in DOMAIN todo : todo[i].customer = c
       /\ \A i \in DOMAIN todo : todo[i].mail \/ todo[i].customer \in {was} \ {None, who}
  <2>1. CASE todo = <<one>> /\ was \in {None, who}
    <3>1. todo \in Seq(TodoRec) /\ todo # <<>> /\ DOMAIN todo = {1} /\ todo[1] = one
      BY <1>12, <2>1
    <3> QED BY <2>1, <3>1, <1>12
  <2>2. CASE todo = <<one>> \o <<two>> /\ was \notin {None, who}
    <3>1. <<one>> \in Seq(TodoRec) /\ Len(<<one>>) = 1 /\ <<two>> \in Seq(TodoRec) /\ Len(<<two>>) = 1
      BY <1>12, <2>2
    <3>2. /\ todo \in Seq(TodoRec) /\ Len(todo) = 1 + 1
          /\ \A i \in 1..1 + 1 : todo[i] = IF i <= 1 THEN <<one>>[i] ELSE <<two>>[i - 1]
      BY <2>2, <3>1, ConcatProperties
    <3>3. Len(todo) = 2 /\ DOMAIN todo = 1..2 /\ todo # <<>> BY <3>2, LenProperties, EmptySeq
    <3>4. todo[1] = one /\ todo[2] = two
      <4>1. 1 \in 1..1 + 1 /\ 2 \in 1..1 + 1 /\ 1 <= 1 /\ ~(2 <= 1) /\ 2 - 1 = 1 OBVIOUS
      <4>2. <<one>>[1] = one /\ <<two>>[1] = two OBVIOUS
      <4> QED BY <3>2, <4>1, <4>2
    <3>5. 1 \in DOMAIN todo /\ 2 \in DOMAIN todo /\ \A i \in DOMAIN todo : i = 1 \/ i = 2 BY <3>3
    <3> QED BY <2>2, <3>2, <3>3, <3>4, <3>5, <1>12
  <2> QED BY <1>13, <2>1, <2>2
<1>15. PICK r : r = Refreshing(s, todo) OBVIOUS
<1>16. run' = [run EXCEPT ![s] = r] BY <1>3, <1>10, <1>15 DEF Upsert
<1>17. OnlySlot(s) /\ run'[s] = r BY <1>16, RunChanges DEF TypeInv
<1>18. UNCHANGED <<case, order, post, timer, recall, adjust, copy, tags, told>> BY DEF Upsert
<1> QED BY <1>1, <1>2, <1>3, <1>5, <1>9, <1>10, <1>14, <1>15, <1>17, <1>18

LEMMA EarnTypes ==
  ASSUME TypeInv, NEW s \in Slot, Settle(s) \/ Figure(s) \/ Prior(s) \/ Upsert(s)
  PROVE  TypeInv'
<1>1. CASE Settle(s)
  <2>1. PICK c \in Customer : run'[s] = [run[s] EXCEPT !.pc = "figure", !.who = c] BY <1>1, SettleDoes
  <2>2. Busy(s) /\ run[s].pc = "settle" /\ EarnRun(s, run[s]) /\ OnlySlot(s) BY <1>1, SettleDoes
  <2>3. PICK r, q : r = run[s] /\ q = run'[s] OBVIOUS
  <2>4. /\ Form(r) /\ r.todo \in Seq(TodoRec) /\ EarnRun(s, r) /\ r.pc = "settle"
        /\ s = Sweep => r.names = None \/ r.names \subseteq Placed
    BY <2>2, <2>3, BusyRun
  <2>5. q = [pc |-> "figure", order |-> r.order, load |-> r.load, who |-> c, points |-> r.points,
             todo |-> r.todo, sum |-> r.sum, was |-> r.was, had |-> r.had, names |-> r.names]
    BY <2>1, <2>3, <2>4 DEF Form
  <2>6. RunOK(s, q) BY <2>4, <2>5 DEF RunOK, Form, EarnRun, Earns
  <2> QED BY <1>1, <2>2, <2>3, <2>6, SettleDoes, MoveTypes
<1>2. CASE Figure(s)
  <2>1. PICK n \in 0..Paid : run'[s] = [run[s] EXCEPT !.pc = "prior", !.points = n] BY <1>2, FigureDoes
  <2>2. Busy(s) /\ run[s].pc = "figure" /\ EarnRun(s, run[s]) /\ OnlySlot(s) BY <1>2, FigureDoes
  <2>3. PICK r, q : r = run[s] /\ q = run'[s] OBVIOUS
  <2>4. /\ Form(r) /\ r.todo \in Seq(TodoRec) /\ EarnRun(s, r) /\ r.pc = "figure"
        /\ s = Sweep => r.names = None \/ r.names \subseteq Placed
    BY <2>2, <2>3, BusyRun
  <2>5. q = [pc |-> "prior", order |-> r.order, load |-> r.load, who |-> r.who, points |-> n,
             todo |-> r.todo, sum |-> r.sum, was |-> r.was, had |-> r.had, names |-> r.names]
    BY <2>1, <2>3, <2>4 DEF Form
  <2>6. RunOK(s, q) BY <2>4, <2>5 DEF RunOK, Form, EarnRun, Earns
  <2> QED BY <1>2, <2>2, <2>3, <2>6, FigureDoes, MoveTypes
<1>3. CASE Prior(s)
  <2>2. Busy(s) /\ run[s].pc = "prior" /\ EarnRun(s, run[s]) /\ OnlySlot(s) BY <1>3, PriorDoes
  <2>3. PICK r, q, was : r = run[s] /\ q = run'[s] /\ was = entry[run[s].order].customer OBVIOUS
  <2>4. /\ Form(r) /\ r.todo \in Seq(TodoRec) /\ EarnRun(s, r) /\ r.pc = "prior"
        /\ s = Sweep => r.names = None \/ r.names \subseteq Placed
    BY <2>2, <2>3, BusyRun
  <2>5. was \in Customer \cup {None} BY <1>3, <2>3, PriorDoes
  <2>6. q = Onward(s) \/ q = [r EXCEPT !.pc = "upsert", !.was = was] BY <1>3, <2>3, PriorDoes
  <2>8. CASE q = [r EXCEPT !.pc = "upsert", !.was = was]
    <3>1. q = [pc |-> "upsert", order |-> r.order, load |-> r.load, who |-> r.who, points |-> r.points,
               todo |-> r.todo, sum |-> r.sum, was |-> was, had |-> r.had, names |-> r.names]
      BY <2>4, <2>8 DEF Form
    <3>2. RunOK(s, q) BY <2>4, <2>5, <3>1 DEF RunOK, Form, EarnRun, Earns
    <3> QED BY <1>3, <2>2, <2>3, <3>2, PriorDoes, MoveTypes
  <2>9. RunOK(s, Onward(s)) BY <2>2, OnwardOK DEF TypeInv
  <2>10. CASE q = Onward(s)
    <3>1. RunOK(s, run'[s]) BY <2>3, <2>9, <2>10
    <3> QED BY <1>3, <2>2, <3>1, PriorDoes, MoveTypes
  <2> QED BY <2>6, <2>8, <2>10
<1>4. CASE Upsert(s)
  <2>1. PICK todo, o, e : /\ todo = ToRefresh(run[s].who, run[s].was) /\ o = run[s].order
                          /\ e = [customer |-> run[s].who, points |-> run[s].points]
    OBVIOUS
  <2>2. /\ Busy(s) /\ run[s].pc = "upsert" /\ EarnRun(s, run[s]) /\ OnlySlot(s)
        /\ entry' \in [Order -> RowRec] /\ entry'[o] = e
        /\ \A x \in Order : x # o => entry'[x] = entry[x]
        /\ run'[s] = Refreshing(s, todo) /\ todo \in Seq(TodoRec)
        /\ UNCHANGED <<case, order, post, timer, recall, adjust, copy, tags, told>>
    BY <1>4, <2>1, UpsertDoes
  <2>3. RunOK(s, run'[s]) BY <2>2, RefreshingOK DEF TypeInv
  <2>4. Requests' BY <2>2, <2>3, RunTypes DEF TypeInv
  <2>5. o \in Placed /\ e.customer \in Customer BY <2>1, <2>2 DEF EarnRun
  <2>6. Orders' /\ Placed' = Placed BY <2>2, SameOrders
  <2>7. Tables' BY <2>2, <2>5, <2>6 DEF TypeInv, Tables
  <2>8. News' BY <2>2, SameNews
  <2> QED BY <2>4, <2>6, <2>7, <2>8 DEF TypeInv
<1> QED BY <1>1, <1>2, <1>3, <1>4

\* The steps of the refresh of a customer.
RefreshRun(s) ==
    LET r == run[s] IN
    /\ Busy(s) /\ Form(r) /\ r.todo \in Seq(TodoRec) /\ r.todo # <<>>
    /\ Who(s) \in Customer /\ Tail(r.todo) \in Seq(TodoRec)
    /\ NewTier(s) \in Tier /\ TagOf(NewTier(s)) \subseteq 1..Len(Floors)

LEMMA RefreshRunIs ==
  ASSUME TypeInv, NEW s \in Slot, run[s].pc \in Refreshes
  PROVE  RefreshRun(s)
<1>1. Busy(s) BY DEF Busy, Refreshes
<1>2. Form(run[s]) /\ run[s].todo \in Seq(TodoRec) /\ run[s].todo # <<>> BY <1>1, BusyRun
<1>3. Head(run[s].todo) \in TodoRec /\ Tail(run[s].todo) \in Seq(TodoRec) BY <1>2, HeadTailProperties
<1> QED BY <1>1, <1>2, <1>3, TierIn DEF RefreshRun, Who, TodoRec, NewTier

LEMMA FinishedDoes ==
  ASSUME TypeInv, NEW s \in Slot, RefreshRun(s), Finished(s)
  PROVE  /\ OnlySlot(s) /\ run'[s] = Refreshing(s, Tail(run[s].todo)) /\ RunOK(s, run'[s])
<1>1. PICK r : r = Refreshing(s, Tail(run[s].todo)) OBVIOUS
<1>2. run' = [run EXCEPT ![s] = r] BY <1>1 DEF Finished
<1>3. OnlySlot(s) /\ run'[s] = r BY <1>2, RunChanges DEF TypeInv
<1>4. RunOK(s, r) BY <1>1, RefreshingOK DEF TypeInv, RefreshRun
<1> QED BY <1>1, <1>3, <1>4

\* A refresh that goes on holds what it held.
LEMMA RefreshGoesOn ==
  ASSUME TypeInv, NEW s \in Slot, RefreshRun(s), NEW q, Form(q), q.pc \in Refreshes,
         q.todo = run[s].todo, q.names = run[s].names
  PROVE  RunOK(s, q)
<1>1. s = Sweep => run[s].names = None \/ run[s].names \subseteq Placed BY BusyRun DEF RefreshRun
<1> QED BY <1>1 DEF RunOK, RefreshRun

LEMMA SumDoes ==
  ASSUME TypeInv, NEW s \in Slot, Sum(s)
  PROVE  /\ run[s].pc = "sum" /\ RefreshRun(s) /\ OnlySlot(s)
         /\ run'[s] = [run[s] EXCEPT !.pc = "look", !.sum = CustomerPoints(Who(s))]
         /\ RunOK(s, run'[s])
         /\ UNCHANGED <<case, order, post, timer, recall, entry, adjust, copy, tags, told>>
<1>1. run[s].pc = "sum" BY DEF Sum
<1>2. RefreshRun(s) BY <1>1, RefreshRunIs DEF Refreshes
<1>3. PICK r, q, n : /\ r = run[s] /\ n = CustomerPoints(Who(s))
                     /\ q = [run[s] EXCEPT !.pc = "look", !.sum = n]
  OBVIOUS
<1>4. run' = [run EXCEPT ![s] = q] BY <1>3 DEF Sum
<1>5. OnlySlot(s) /\ run'[s] = q BY <1>4, RunChanges DEF TypeInv
<1>6. Form(r) BY <1>2, <1>3 DEF RefreshRun
<1>7. q = [pc |-> "look", order |-> r.order, load |-> r.load, who |-> r.who, points |-> r.points,
           todo |-> r.todo, sum |-> n, was |-> r.was, had |-> r.had, names |-> r.names]
  BY <1>3, <1>6 DEF Form
<1>8. RunOK(s, q)
  <2>1. Form(q) /\ q.pc \in Refreshes /\ q.todo = run[s].todo /\ q.names = run[s].names
    BY <1>3, <1>7 DEF Form, Refreshes
  <2> QED BY <1>2, <2>1, RefreshGoesOn
<1>9. UNCHANGED <<case, order, post, timer, recall, entry, adjust, copy, tags, told>> BY DEF Sum
<1> QED BY <1>1, <1>2, <1>3, <1>5, <1>8, <1>9

LEMMA LookDoes ==
  ASSUME TypeInv, NEW s \in Slot, Look(s)
  PROVE  /\ run[s].pc = "look" /\ RefreshRun(s) /\ OnlySlot(s)
         /\ \/ /\ copy[Who(s)] = [points |-> run[s].sum, tier |-> NewTier(s)]
               /\ tags[Who(s)] = TagOf(NewTier(s))
               /\ run'[s] = Refreshing(s, Tail(run[s].todo))
            \/ run'[s] = [run[s] EXCEPT !.pc = "publish", !.was = copy[Who(s)].tier, !.had = tags[Who(s)]]
         /\ RunOK(s, run'[s])
         /\ UNCHANGED <<case, order, post, timer, recall, entry, adjust, copy, tags, told>>
<1>1. run[s].pc = "look" BY DEF Look
<1>2. RefreshRun(s) BY <1>1, RefreshRunIs DEF Refreshes
<1>3. PICK r, q, was, had : /\ r = run[s] /\ was = copy[Who(s)].tier /\ had = tags[Who(s)]
                            /\ q = [run[s] EXCEPT !.pc = "publish", !.was = was, !.had = had]
  OBVIOUS
<1>4. \/ /\ copy[Who(s)] = [points |-> run[s].sum, tier |-> NewTier(s)]
         /\ tags[Who(s)] = TagOf(NewTier(s))
         /\ Finished(s)
      \/ run' = [run EXCEPT ![s] = q]
  BY <1>3 DEF Look
<1>5. Form(r) BY <1>2, <1>3 DEF RefreshRun
<1>6. q = [pc |-> "publish", order |-> r.order, load |-> r.load, who |-> r.who, points |-> r.points,
           todo |-> r.todo, sum |-> r.sum, was |-> was, had |-> had, names |-> r.names]
  BY <1>3, <1>5 DEF Form
<1>7. RunOK(s, q)
  <2>1. Form(q) /\ q.pc \in Refreshes /\ q.todo = run[s].todo /\ q.names = run[s].names
    BY <1>3, <1>6 DEF Form, Refreshes
  <2> QED BY <1>2, <2>1, RefreshGoesOn
<1>8. CASE run' = [run EXCEPT ![s] = q]
  <2>1. OnlySlot(s) /\ run'[s] = q BY <1>8, RunChanges DEF TypeInv
  <2> QED BY <1>1, <1>2, <1>3, <1>7, <2>1 DEF Look
<1>9. CASE /\ copy[Who(s)] = [points |-> run[s].sum, tier |-> NewTier(s)]
           /\ tags[Who(s)] = TagOf(NewTier(s))
           /\ Finished(s)
  <2>1. OnlySlot(s) /\ run'[s] = Refreshing(s, Tail(run[s].todo)) /\ RunOK(s, run'[s])
    BY <1>2, <1>9, FinishedDoes
  <2> QED BY <1>1, <1>2, <1>9, <2>1 DEF Look
<1> QED BY <1>4, <1>8, <1>9

\* Goto keeps all but the place.
LEMMA GotoDoes ==
  ASSUME TypeInv, NEW s \in Slot, RefreshRun(s), NEW pc \in Refreshes, Goto(s, pc)
  PROVE  OnlySlot(s) /\ run'[s] = [run[s] EXCEPT !.pc = pc] /\ RunOK(s, run'[s])
<1>1. PICK r, q : r = run[s] /\ q = [run[s] EXCEPT !.pc = pc] OBVIOUS
<1>2. run' = [run EXCEPT ![s] = q] BY <1>1 DEF Goto
<1>3. OnlySlot(s) /\ run'[s] = q BY <1>2, RunChanges DEF TypeInv
<1>4. Form(r) BY <1>1 DEF RefreshRun
<1>5. q = [pc |-> pc, order |-> r.order, load |-> r.load, who |-> r.who, points |-> r.points,
           todo |-> r.todo, sum |-> r.sum, was |-> r.was, had |-> r.had, names |-> r.names]
  BY <1>1, <1>4 DEF Form
<1>6. RunOK(s, q)
  <2>1. Form(q) /\ q.pc \in Refreshes /\ q.todo = run[s].todo /\ q.names = run[s].names
    BY <1>1, <1>5 DEF Form
  <2> QED BY <2>1, RefreshGoesOn
<1> QED BY <1>1, <1>3, <1>6

LEMMA PublishDoes ==
  ASSUME TypeInv, NEW s \in Slot, Publish(s)
  PROVE  LET c == Who(s) IN
         /\ run[s].pc = "publish" /\ RefreshRun(s) /\ OnlySlot(s)
         /\ run'[s] = [run[s] EXCEPT !.pc = "untag"] /\ RunOK(s, run'[s])
         /\ copy' = [x \in Customer |-> copy'[x]]
         /\ copy'[c] = [points |-> run[s].sum, tier |-> NewTier(s)]
         /\ \A x \in Customer : x # c => copy'[x] = copy[x]
         /\ told' \in [Customer -> Tier]
         /\ told'[c] = IF told[c] > NewTier(s) THEN NewTier(s) ELSE told[c]
         /\ \A x \in Customer : x # c => told'[x] = told[x]
         /\ UNCHANGED <<case, order, post, timer, recall, entry, adjust, tags>>
<1>1. run[s].pc = "publish" BY DEF Publish
<1>2. RefreshRun(s) BY <1>1, RefreshRunIs DEF Refreshes
<1>3. PICK c, t, v : c = Who(s) /\ t = NewTier(s) /\ v = [points |-> run[s].sum, tier |-> t] OBVIOUS
<1>4. c \in Customer /\ t \in Tier BY <1>2, <1>3 DEF RefreshRun
<1>5. /\ copy' = [copy EXCEPT ![c] = v]
      /\ told' = [told EXCEPT ![c] = IF @ > t THEN t ELSE @]
  BY <1>3 DEF Publish
<1>6. copy = [x \in Customer |-> copy[x]] /\ told \in [Customer -> Tier] BY DEF TypeInv, Tables
<1>7. /\ copy' = [x \in Customer |-> copy'[x]] /\ copy'[c] = v
      /\ \A x \in Customer : x # c => copy'[x] = copy[x]
  BY <1>4, <1>5, <1>6
<1>8. /\ told' \in [Customer -> Tier] /\ told'[c] = IF told[c] > t THEN t ELSE told[c]
      /\ \A x \in Customer : x # c => told'[x] = told[x]
  BY <1>4, <1>5, <1>6
<1>9. OnlySlot(s) /\ run'[s] = [run[s] EXCEPT !.pc = "untag"] /\ RunOK(s, run'[s])
  BY <1>2, GotoDoes DEF Publish, Refreshes
<1>10. UNCHANGED <<case, order, post, timer, recall, entry, adjust, tags>> BY DEF Publish
<1> QED BY <1>1, <1>2, <1>3, <1>7, <1>8, <1>9, <1>10

LEMMA UntagDoes ==
  ASSUME TypeInv, NEW s \in Slot, Untag(s)
  PROVE  LET c == Who(s) IN
         /\ run[s].pc = "untag" /\ RefreshRun(s) /\ OnlySlot(s)
         /\ run'[s] = [run[s] EXCEPT !.pc = "tag"] /\ RunOK(s, run'[s])
         /\ tags' \in [Customer -> SUBSET (1..Len(Floors))]
         /\ tags'[c] = tags[c] \ (run[s].had \ TagOf(NewTier(s)))
         /\ \A x \in Customer : x # c => tags'[x] = tags[x]
         /\ UNCHANGED <<case, order, post, timer, recall, entry, adjust, copy, told>>
<1>1. run[s].pc = "untag" BY DEF Untag
<1>2. RefreshRun(s) BY <1>1, RefreshRunIs DEF Refreshes
<1>3. PICK c, T : c = Who(s) /\ T = run[s].had \ TagOf(NewTier(s)) OBVIOUS
<1>4. c \in Customer BY <1>2, <1>3 DEF RefreshRun
<1>5. tags' = [tags EXCEPT ![c] = @ \ T] BY <1>3 DEF Untag
<1>6. tags \in [Customer -> SUBSET (1..Len(Floors))] BY DEF TypeInv, Tables
<1>7. tags[c] \ T \in SUBSET (1..Len(Floors)) BY <1>4, <1>6
<1>8. /\ tags' \in [Customer -> SUBSET (1..Len(Floors))] /\ tags'[c] = tags[c] \ T
      /\ \A x \in Customer : x # c => tags'[x] = tags[x]
  BY <1>4, <1>5, <1>6, <1>7
<1>9. OnlySlot(s) /\ run'[s] = [run[s] EXCEPT !.pc = "tag"] /\ RunOK(s, run'[s])
  BY <1>2, GotoDoes DEF Untag, Refreshes
<1>10. UNCHANGED <<case, order, post, timer, recall, entry, adjust, copy, told>> BY DEF Untag
<1> QED BY <1>1, <1>2, <1>3, <1>8, <1>9, <1>10

LEMMA AddTagDoes ==
  ASSUME TypeInv, NEW s \in Slot, AddTag(s)
  PROVE  LET c == Who(s) IN
         /\ run[s].pc = "tag" /\ RefreshRun(s) /\ OnlySlot(s)
         /\ run'[s] = [run[s] EXCEPT !.pc = "mail"] /\ RunOK(s, run'[s])
         /\ tags' \in [Customer -> SUBSET (1..Len(Floors))]
         /\ tags'[c] = tags[c] \cup (TagOf(NewTier(s)) \ run[s].had)
         /\ \A x \in Customer : x # c => tags'[x] = tags[x]
         /\ UNCHANGED <<case, order, post, timer, recall, entry, adjust, copy, told>>
<1>1. run[s].pc = "tag" BY DEF AddTag
<1>2. RefreshRun(s) BY <1>1, RefreshRunIs DEF Refreshes
<1>3. PICK c, T : c = Who(s) /\ T = TagOf(NewTier(s)) \ run[s].had OBVIOUS
<1>4. c \in Customer /\ T \subseteq 1..Len(Floors) BY <1>2, <1>3 DEF RefreshRun
<1>5. tags' = [tags EXCEPT ![c] = @ \cup T] BY <1>3 DEF AddTag
<1>6. tags \in [Customer -> SUBSET (1..Len(Floors))] BY DEF TypeInv, Tables
<1>7. tags[c] \cup T \in SUBSET (1..Len(Floors)) BY <1>4, <1>6
<1>8. /\ tags' \in [Customer -> SUBSET (1..Len(Floors))] /\ tags'[c] = tags[c] \cup T
      /\ \A x \in Customer : x # c => tags'[x] = tags[x]
  BY <1>4, <1>5, <1>6, <1>7
<1>9. OnlySlot(s) /\ run'[s] = [run[s] EXCEPT !.pc = "mail"] /\ RunOK(s, run'[s])
  BY <1>2, GotoDoes DEF AddTag, Refreshes
<1>10. UNCHANGED <<case, order, post, timer, recall, entry, adjust, copy, told>> BY DEF AddTag
<1> QED BY <1>1, <1>2, <1>3, <1>8, <1>9, <1>10

LEMMA MailDoes ==
  ASSUME TypeInv, NEW s \in Slot, Mail(s)
  PROVE  LET c == Who(s) IN
         /\ run[s].pc = "mail" /\ RefreshRun(s) /\ OnlySlot(s)
         /\ run'[s] = Refreshing(s, Tail(run[s].todo)) /\ RunOK(s, run'[s])
         /\ told' \in [Customer -> Tier]
         /\ told'[c] = told[c] \/ (Rises(s) /\ told'[c] = NewTier(s))
         /\ \A x \in Customer : x # c => told'[x] = told[x]
         /\ UNCHANGED <<case, order, post, timer, recall, entry, adjust, copy, tags>>
<1>1. run[s].pc = "mail" BY DEF Mail
<1>2. RefreshRun(s) BY <1>1, RefreshRunIs DEF Refreshes
<1>3. PICK c, t : c = Who(s) /\ t = NewTier(s) OBVIOUS
<1>4. c \in Customer /\ t \in Tier BY <1>2, <1>3 DEF RefreshRun
<1>5. told' = told \/ (Rises(s) /\ told' = [told EXCEPT ![c] = t]) BY <1>3 DEF Mail
<1>6. told \in [Customer -> Tier] BY DEF TypeInv, Tables
<1>7. told'[c] = told[c] \/ (Rises(s) /\ told'[c] = t) BY <1>4, <1>5, <1>6
<1>12. told' \in [Customer -> Tier] /\ \A x \in Customer : x # c => told'[x] = told[x]
  <2>1. told' = told \/ told' = [told EXCEPT ![c] = t] BY <1>5
  <2> QED BY <1>4, <1>6, <2>1
<1>8. OnlySlot(s) /\ run'[s] = Refreshing(s, Tail(run[s].todo)) /\ RunOK(s, run'[s])
  BY <1>2, FinishedDoes DEF Mail
<1>9. UNCHANGED <<case, order, post, timer, recall, entry, adjust, copy, tags>> BY DEF Mail
<1>10. told'[Who(s)] = told[Who(s)] \/ (Rises(s) /\ told'[Who(s)] = NewTier(s))
  <2>1. CASE told'[c] = told[c] BY <1>3, <2>1
  <2>2. CASE Rises(s) /\ told'[c] = t
    <3>1. told'[Who(s)] = NewTier(s) BY <1>3, <2>2
    <3> QED BY <2>2, <3>1
  <2> QED BY <1>7, <2>1, <2>2
<1>11. told' \in [Customer -> Tier] /\ \A x \in Customer : x # Who(s) => told'[x] = told[x]
  BY <1>3, <1>12
<1> HIDE DEF Who, NewTier, Rises
<1> QED BY <1>1, <1>2, <1>8, <1>9, <1>10, <1>11

LEMMA RefreshTypes ==
  ASSUME TypeInv, NEW s \in Slot,
         Sum(s) \/ Look(s) \/ Publish(s) \/ Untag(s) \/ AddTag(s) \/ Mail(s)
  PROVE  TypeInv'
<1>1. CASE Sum(s) BY <1>1, SumDoes, MoveTypes
<1>2. CASE Look(s) BY <1>2, LookDoes, MoveTypes
<1>3. CASE Publish(s)
  <2>1. PICK c, v, t : c = Who(s) /\ v = [points |-> run[s].sum, tier |-> t] /\ t = NewTier(s) OBVIOUS
  <2>2. /\ OnlySlot(s) /\ RunOK(s, run'[s]) /\ UNCHANGED <<case, order, post, timer, recall, entry, adjust, tags>>
        /\ copy' = [x \in Customer |-> copy'[x]] /\ copy'[c] = v
        /\ \A x \in Customer : x # c => copy'[x] = copy[x]
        /\ told' \in [Customer -> Tier]
    BY <1>3, <2>1, PublishDoes
  <2>3. t \in Tier BY <1>3, <2>1, PublishDoes DEF RefreshRun
  <2>4. \A x \in Customer : copy'[x].tier \in Tier BY <2>1, <2>2, <2>3 DEF TypeInv, Tables
  <2>5. Placed' = Placed /\ Orders' BY <2>2, SameOrders
  <2>6. Tables' BY <2>2, <2>4, <2>5 DEF TypeInv, Tables
  <2> QED BY <2>2, <2>5, <2>6, SameNews, RunTypes DEF TypeInv
<1>4. CASE Untag(s) \/ AddTag(s)
  <2>1. /\ OnlySlot(s) /\ RunOK(s, run'[s])
        /\ UNCHANGED <<case, order, post, timer, recall, entry, adjust, copy, told>>
        /\ tags' \in [Customer -> SUBSET (1..Len(Floors))]
    BY <1>4, UntagDoes, AddTagDoes
  <2>2. Placed' = Placed /\ Orders' BY <2>1, SameOrders
  <2>3. Tables' BY <2>1, <2>2 DEF TypeInv, Tables
  <2> QED BY <2>1, <2>2, <2>3, SameNews, RunTypes DEF TypeInv
<1>5. CASE Mail(s)
  <2>1. /\ OnlySlot(s) /\ RunOK(s, run'[s])
        /\ UNCHANGED <<case, order, post, timer, recall, entry, adjust, copy, tags>>
        /\ told' \in [Customer -> Tier]
    BY <1>5, MailDoes
  <2>2. Placed' = Placed /\ Orders' BY <2>1, SameOrders
  <2>3. Tables' BY <2>1, <2>2 DEF TypeInv, Tables
  <2> QED BY <2>1, <2>2, <2>3, SameNews, RunTypes DEF TypeInv
<1> QED BY <1>1, <1>2, <1>3, <1>4, <1>5

\* A request that begins has nothing in memory but its work.
LEMMA StartOK ==
  ASSUME NEW s, NEW q, NEW todo \in Seq(TodoRec), todo # <<>>,
         q = [Start("sum") EXCEPT !.todo = todo]
  PROVE  RunOK(s, q) /\ q.pc = "sum" /\ q.todo = todo /\ q.names = None /\ q.order = None
<1>1. q = [pc |-> "sum", order |-> None, load |-> None, who |-> None, points |-> 0,
           todo |-> todo, sum |-> 0, was |-> 0, had |-> {}, names |-> None]
  BY DEF Start
<1>2. /\ Form(q) /\ q.pc = "sum" /\ q.todo = todo /\ q.names = None /\ q.order = None
  BY <1>1 DEF Form
<1> QED BY <1>2 DEF RunOK, Refreshes

LEMMA NamesOK ==
  ASSUME NEW q, q = Start("names")
  PROVE  RunOK(Sweep, q) /\ q.pc = "names" /\ q.names = None
<1>1. q = [pc |-> "names", order |-> None, load |-> None, who |-> None, points |-> 0,
           todo |-> <<>>, sum |-> 0, was |-> 0, had |-> {}, names |-> None]
  BY DEF Start
<1>2. Form(q) /\ q.pc = "names" /\ q.todo = <<>> /\ q.names = None BY <1>1 DEF Form
<1>3. <<>> \in Seq(TodoRec) BY EmptySeq
<1> QED BY <1>2, <1>3 DEF RunOK

LEMMA SweepStartDoes ==
  ASSUME TypeInv, SweepStart
  PROVE  /\ OnlySlot(Sweep) /\ RunOK(Sweep, run'[Sweep])
         /\ CanStart(Sweep) /\ ((Heard /\ Behind) \/ Allowed("overlap"))
         /\ run'[Sweep].pc \in {"names", "sum"}
         /\ run'[Sweep].pc = "sum" =>
               \A c \in Customer : tags[c] # {} => \E i \in DOMAIN run'[Sweep].todo : run'[Sweep].todo[i].customer = c
         /\ run'[Sweep].pc = "names" => \A c \in Customer : tags[c] = {}
         /\ UNCHANGED <<case, order, post, timer, recall, entry, adjust, copy, tags, told>>
<1>1. Sweep \in Slot BY Slots
<1>2. Republish \in SUBSET Customer BY DEF Republish
<1>3. PICK C : C = Republish OBVIOUS
<1>4. PICK todo : todo = Silently(C) OBVIOUS
<1>5. /\ todo \in Seq(TodoRec) /\ \A c \in C : \E i \in DOMAIN todo : todo[i].customer = c
      /\ todo = <<>> => C = {}
  BY <1>2, <1>3, <1>4, SilentlyAll
<1>6. PICK q1, q2 : q1 = Start("names") /\ q2 = [Start("sum") EXCEPT !.todo = todo] OBVIOUS
<1>7. \/ C = {} /\ run' = [run EXCEPT ![Sweep] = q1]
      \/ C # {} /\ run' = [run EXCEPT ![Sweep] = q2]
  BY <1>3, <1>4, <1>6 DEF SweepStart
<1>8. UNCHANGED <<case, order, post, timer, recall, entry, adjust, copy, tags, told>> BY DEF SweepStart
<1>9. CanStart(Sweep) /\ ((Heard /\ Behind) \/ Allowed("overlap")) BY DEF SweepStart
<1>10. \A c \in Customer : tags[c] # {} => c \in C BY <1>3 DEF Republish
<1>11. CASE C = {} /\ run' = [run EXCEPT ![Sweep] = q1]
  <2>1. OnlySlot(Sweep) /\ run'[Sweep] = q1 BY <1>1, <1>11, RunChanges DEF TypeInv
  <2>2. RunOK(Sweep, q1) /\ q1.pc = "names" BY <1>6, NamesOK
  <2> QED BY <1>8, <1>9, <1>10, <1>11, <2>1, <2>2
<1>12. CASE C # {} /\ run' = [run EXCEPT ![Sweep] = q2]
  <2>1. OnlySlot(Sweep) /\ run'[Sweep] = q2 BY <1>1, <1>12, RunChanges DEF TypeInv
  <2>2. RunOK(Sweep, q2) /\ q2.pc = "sum" /\ q2.todo = todo BY <1>5, <1>6, <1>12, StartOK
  <2> QED BY <1>5, <1>8, <1>9, <1>10, <2>1, <2>2
<1> QED BY <1>7, <1>11, <1>12

LEMMA NamesDoes ==
  ASSUME TypeInv, Names
  PROVE  /\ run[Sweep].pc = "names" /\ Busy(Sweep)
         /\ OnlySlot(Sweep) /\ RunOK(Sweep, run'[Sweep]) /\ run'[Sweep].pc = "recheck"
         /\ UNCHANGED <<case, order, post, timer, recall, entry, adjust, copy, tags, told>>
<1>1. Sweep \in Slot BY Slots
<1>2. PICK n : n = Placed OBVIOUS
<1>3. PICK q : q = [Start("recheck") EXCEPT !.names = n] OBVIOUS
<1>4. q = [pc |-> "recheck", order |-> None, load |-> None, who |-> None, points |-> 0,
           todo |-> <<>>, sum |-> 0, was |-> 0, had |-> {}, names |-> n]
  BY <1>3 DEF Start
<1>5. Form(q) /\ q.pc = "recheck" /\ q.todo = <<>> /\ q.names = n BY <1>4 DEF Form
<1>6. <<>> \in Seq(TodoRec) BY EmptySeq
<1>7. RunOK(Sweep, q) BY <1>2, <1>5, <1>6 DEF RunOK
<1>8. run' = [run EXCEPT ![Sweep] = q] BY <1>2, <1>3 DEF Names
<1>9. OnlySlot(Sweep) /\ run'[Sweep] = q BY <1>1, <1>8, RunChanges DEF TypeInv
<1> QED BY <1>5, <1>7, <1>9 DEF Names, Busy

LEMMA RecheckDoes ==
  ASSUME TypeInv, Recheck
  PROVE  /\ run[Sweep].pc = "recheck" /\ Busy(Sweep)
         /\ OnlySlot(Sweep) /\ RunOK(Sweep, run'[Sweep]) /\ run'[Sweep].pc \in {"idle", "settle"}
         /\ UNCHANGED <<case, order, post, timer, recall, entry, adjust, copy, tags, told>>
<1>1. Sweep \in Slot /\ Sweep \notin Order BY Slots
<1>2. run[Sweep].pc = "recheck" /\ Busy(Sweep) BY DEF Recheck, Busy
<1>3. run[Sweep].names \subseteq Placed BY <1>1, <1>2, BusyRun
<1>4. UNCHANGED <<case, order, post, timer, recall, entry, adjust, copy, tags, told>> BY DEF Recheck
<1>5. CASE run[Sweep].names = {}
  <2>1. run' = [run EXCEPT ![Sweep] = Idle] BY <1>5 DEF Recheck
  <2>2. OnlySlot(Sweep) /\ run'[Sweep] = Idle BY <1>1, <2>1, RunChanges DEF TypeInv
  <2> QED BY <1>2, <1>4, <2>2 DEF RunOK, Idle
<1>6. CASE run[Sweep].names # {}
  <2>1. PICK o \in run[Sweep].names :
           run' = [run EXCEPT ![Sweep] = [Earning(o, Load(o)) EXCEPT !.names = run[Sweep].names \ {o}]]
    BY <1>6 DEF Recheck
  <2>2. PICK n, load : n = run[Sweep].names \ {o} /\ load = Load(o) OBVIOUS
  <2>3. PICK q : q = [Earning(o, load) EXCEPT !.names = n] OBVIOUS
  <2>4. o \in Placed /\ n \subseteq Placed /\ load \in LoadRec BY <1>3, <2>1, <2>2, LoadKnown
  <2>5. Sweep # o BY <1>1, <2>4 DEF Placed
  <2>6. RunOK(Sweep, q) BY <2>3, <2>4, <2>5, EarningOK
  <2>7. run' = [run EXCEPT ![Sweep] = q] BY <2>1, <2>2, <2>3
  <2>8. OnlySlot(Sweep) /\ run'[Sweep] = q BY <1>1, <2>7, RunChanges DEF TypeInv
  <2>9. q.pc = "settle" BY <2>3 DEF Earning, Start
  <2> QED BY <1>2, <1>4, <2>6, <2>8, <2>9
<1> QED BY <1>5, <1>6

LEMMA SweepTypes ==
  ASSUME TypeInv, SweepStart \/ Names \/ Recheck
  PROVE  TypeInv'
<1>1. Sweep \in Slot BY Slots
<1> QED BY <1>1, SweepStartDoes, NamesDoes, RecheckDoes, MoveTypes

\* Staff.
LEMMA AdjustTypes ==
  ASSUME TypeInv, NEW c \in Customer, NEW n \in Int, Adjust(c, n)
  PROVE  TypeInv' /\ OnlySlot(Admin) /\ run'[Admin].pc = "adjust"
<1>1. Admin \in Slot /\ Admin # Sweep BY Slots
<1>2. PICK q : q = [Start("adjust") EXCEPT !.who = c, !.points = n] OBVIOUS
<1>3. q = [pc |-> "adjust", order |-> None, load |-> None, who |-> c, points |-> n,
           todo |-> <<>>, sum |-> 0, was |-> 0, had |-> {}, names |-> None]
  BY <1>2 DEF Start
<1>4. Form(q) /\ q.pc = "adjust" /\ q.todo = <<>> /\ q.who = c /\ q.points = n BY <1>3 DEF Form
<1>5. <<>> \in Seq(TodoRec) BY EmptySeq
<1>6. RunOK(Admin, q) BY <1>1, <1>4, <1>5 DEF RunOK
<1>7. run' = [run EXCEPT ![Admin] = q] BY <1>2 DEF Adjust
<1>8. OnlySlot(Admin) /\ run'[Admin] = q BY <1>1, <1>7, RunChanges DEF TypeInv
<1>9. UNCHANGED <<case, order, post, timer, recall, entry, adjust, copy, tags, told>> BY DEF Adjust
<1> QED BY <1>1, <1>4, <1>6, <1>8, <1>9, MoveTypes

LEMMA OneTodo ==
  ASSUME NEW c \in Customer, NEW mail \in BOOLEAN
  PROVE  <<Todo(c, mail)>> \in Seq(TodoRec) /\ <<Todo(c, mail)>> # <<>>
<1>1. PICK t : t = Todo(c, mail) OBVIOUS
<1>2. t \in TodoRec BY <1>1 DEF Todo, TodoRec
<1>3. <<t>> \in Seq(TodoRec) /\ <<t>> # <<>> BY <1>2
<1> QED BY <1>1, <1>3

LEMMA AddAdjustmentTypes ==
  ASSUME TypeInv, AddAdjustment
  PROVE  TypeInv' /\ OnlySlot(Admin) /\ run'[Admin].pc = "sum"
<1>1. Admin \in Slot /\ Admin # Sweep BY Slots
<1>2. run[Admin].pc = "adjust" /\ Busy(Admin) BY DEF AddAdjustment, Busy
<1>3. run[Admin].who \in Customer /\ run[Admin].points \in Int BY <1>1, <1>2, BusyRun
<1>4. PICK c : c = run[Admin].who OBVIOUS
<1>5. PICK todo : todo = <<Todo(c, FALSE)>> OBVIOUS
<1>6. todo \in Seq(TodoRec) /\ todo # <<>> BY <1>3, <1>4, <1>5, OneTodo
<1>7. PICK q : q = [Start("sum") EXCEPT !.todo = todo] OBVIOUS
<1>8. RunOK(Admin, q) /\ q.pc = "sum" BY <1>6, <1>7, StartOK
<1>9. run' = [run EXCEPT ![Admin] = q] BY <1>4, <1>5, <1>7 DEF AddAdjustment
<1>10. OnlySlot(Admin) /\ run'[Admin] = q BY <1>1, <1>9, RunChanges DEF TypeInv
<1>11. UNCHANGED <<case, order, post, timer, recall, entry, copy, tags, told>> BY DEF AddAdjustment
<1>12. adjust' = [adjust EXCEPT ![c] = @ + run[Admin].points] BY <1>4 DEF AddAdjustment
<1>13. adjust' \in [Customer -> Int]
  <2>1. adjust \in [Customer -> Int] BY DEF TypeInv, Tables
  <2>2. adjust[c] + run[Admin].points \in Int BY <1>3, <1>4, <2>1
  <2> QED BY <1>12, <2>1, <2>2
<1>14. Placed' = Placed /\ Orders' BY <1>11, SameOrders
<1>15. Tables' BY <1>11, <1>13, <1>14 DEF TypeInv, Tables
<1> QED BY <1>1, <1>8, <1>10, <1>11, <1>14, <1>15, SameNews, RunTypes DEF TypeInv

LEMMA RefreshOneTypes ==
  ASSUME TypeInv, NEW c \in Customer, RefreshOne(c)
  PROVE  TypeInv' /\ OnlySlot(Admin) /\ run'[Admin].pc = "sum"
<1>1. Admin \in Slot /\ Admin # Sweep BY Slots
<1>5. PICK todo : todo = <<Todo(c, FALSE)>> OBVIOUS
<1>6. todo \in Seq(TodoRec) /\ todo # <<>> BY <1>5, OneTodo
<1>7. PICK q : q = [Start("sum") EXCEPT !.todo = todo] OBVIOUS
<1>8. RunOK(Admin, q) /\ q.pc = "sum" BY <1>6, <1>7, StartOK
<1>9. run' = [run EXCEPT ![Admin] = q] BY <1>5, <1>7 DEF RefreshOne
<1>10. OnlySlot(Admin) /\ run'[Admin] = q BY <1>1, <1>9, RunChanges DEF TypeInv
<1>11. UNCHANGED <<case, order, post, timer, recall, entry, adjust, copy, tags, told>> BY DEF RefreshOne
<1> QED BY <1>1, <1>8, <1>10, <1>11, MoveTypes

\* The backfill.
LEMMA DueIn ==
  ASSUME TypeInv, NEW o \in Placed
  PROVE  Due(o).points \in 0..Paid /\ Due(o).customer \in Customer
<1>1. order[o] \in OrderRec /\ order[o].buyer \in Customer BY DEF TypeInv, Orders, Placed
<1>2. /\ order[o].refund \in 0..Paid /\ order[o].store \in 0..Paid /\ order[o].notes \in {0, 1}
      /\ order[o].asker \in Customer \cup {None}
  BY <1>1 DEF OrderRec
<1>3. Points(order[o].refund, order[o].store, order[o].notes) \in 0..Paid BY <1>2, PointsIn
<1> QED BY <1>1, <1>2, <1>3 DEF Due

LEMMA BackfillTypes ==
  ASSUME TypeInv, Backfill
  PROVE  TypeInv' /\ OnlySlot(Job) /\ run'[Job].pc = "write"
<1>1. Job \in Slot /\ Job # Sweep BY Slots
<1>2. PICK rows : rows = [o \in Placed |-> [customer |-> order[o].buyer, points |-> Due(o).points]] OBVIOUS
<1>3. PICK n : n = Placed OBVIOUS
<1>4. PICK q : q = [Start("write") EXCEPT !.names = n, !.load = rows] OBVIOUS
<1>5. q = [pc |-> "write", order |-> None, load |-> rows, who |-> None, points |-> 0,
           todo |-> <<>>, sum |-> 0, was |-> 0, had |-> {}, names |-> n]
  BY <1>4 DEF Start
<1>6. Form(q) /\ q.pc = "write" /\ q.todo = <<>> /\ q.load = rows /\ q.names = n BY <1>5 DEF Form
<1>7. /\ rows = [o \in DOMAIN rows |-> rows[o]] /\ DOMAIN rows = Placed
      /\ \A o \in DOMAIN rows : rows[o] \in [customer : Customer, points : 0..Paid]
  <2>1. \A o \in Placed : Due(o).points \in 0..Paid /\ order[o].buyer \in Customer
    BY DueIn DEF TypeInv, Orders
  <2>2. DOMAIN rows = Placed /\ rows = [o \in DOMAIN rows |-> rows[o]] BY <1>2
  <2>3. ASSUME NEW o \in Placed PROVE rows[o] \in [customer : Customer, points : 0..Paid]
    <3>1. PICK b, p : b = order[o].buyer /\ p = Due(o).points OBVIOUS
    <3>2. rows[o] = [customer |-> b, points |-> p] BY <1>2, <3>1
    <3> QED BY <2>1, <3>1, <3>2
  <2> QED BY <2>2, <2>3
<1>8. Batch(q) BY <1>3, <1>6, <1>7 DEF Batch
<1>9. <<>> \in Seq(TodoRec) BY EmptySeq
<1>10. RunOK(Job, q) BY <1>1, <1>6, <1>8, <1>9 DEF RunOK
<1>11. run' = [run EXCEPT ![Job] = q] BY <1>2, <1>3, <1>4 DEF Backfill
<1>12. OnlySlot(Job) /\ run'[Job] = q BY <1>1, <1>11, RunChanges DEF TypeInv
<1>13. UNCHANGED <<case, order, post, timer, recall, entry, adjust, copy, tags, told>> BY DEF Backfill
<1> QED BY <1>1, <1>6, <1>10, <1>12, <1>13, MoveTypes

LEMMA WriteRowTypes ==
  ASSUME TypeInv, WriteRow
  PROVE  TypeInv' /\ OnlySlot(Job) /\ run'[Job].pc \in {"write", "sum", "idle"}
<1>1. Job \in Slot /\ Job # Sweep BY Slots
<1>2. run[Job].pc = "write" /\ Busy(Job) BY DEF WriteRow, Busy
<1>3. /\ Form(run[Job]) /\ run[Job].todo \in Seq(TodoRec) /\ Batch(run[Job]) BY <1>1, <1>2, BusyRun
<1>4. UNCHANGED <<case, order, post, timer, recall, adjust, copy, tags, told>> BY DEF WriteRow
<1>5. PICK rows, n : rows = run[Job].load /\ n = run[Job].names OBVIOUS
<1>6. /\ n \subseteq DOMAIN rows /\ DOMAIN rows \subseteq Placed
      /\ \A o \in DOMAIN rows : rows[o] \in [customer : Customer, points : 0..Paid]
  BY <1>3, <1>5 DEF Batch
<1>7. CASE n = {}
  <2>1. PICK C : C = {rows[o].customer : o \in DOMAIN rows} OBVIOUS
  <2>2. C \subseteq Customer BY <1>6, <2>1
  <2>3. PICK todo : todo = Silently(C) OBVIOUS
  <2>4. todo \in Seq(TodoRec) BY <2>2, <2>3, SilentlyAll
  <2>5. PICK q : q = Refreshing(Job, todo) OBVIOUS
  <2>6. run' = [run EXCEPT ![Job] = q] /\ entry' = entry BY <1>5, <1>7, <2>1, <2>3, <2>5 DEF WriteRow
  <2>7. OnlySlot(Job) /\ run'[Job] = q BY <1>1, <2>6, RunChanges DEF TypeInv
  <2>8. RunOK(Job, q) BY <1>1, <1>2, <2>4, <2>5, RefreshingOK DEF TypeInv
  <2>9. q.pc \in {"idle", "sum"} BY <1>1, <2>5 DEF Refreshing, Onward, Idle, Start
  <2> QED BY <1>1, <1>4, <2>6, <2>7, <2>8, <2>9, MoveTypes
<1>8. CASE n # {}
  <2>1. PICK o \in n : /\ entry' = [entry EXCEPT ![o] = rows[o]]
                       /\ run' = [run EXCEPT ![Job].names = @ \ {o}]
    BY <1>5, <1>8 DEF WriteRow
  <2>2. PICK r, q : r = run[Job] /\ q = [run[Job] EXCEPT !.names = n \ {o}] OBVIOUS
  <2>3. Form(r) /\ r.pc = "write" /\ r.load = rows /\ r.todo \in Seq(TodoRec) /\ Batch(r)
    BY <1>2, <1>3, <1>5, <2>2
  <2>4. q = [pc |-> r.pc, order |-> r.order, load |-> r.load, who |-> r.who, points |-> r.points,
             todo |-> r.todo, sum |-> r.sum, was |-> r.was, had |-> r.had, names |-> n \ {o}]
    BY <2>2, <2>3 DEF Form
  <2>5. Form(q) /\ q.pc = "write" /\ q.todo = r.todo /\ q.load = rows /\ q.names = n \ {o}
    BY <2>3, <2>4 DEF Form
  <2>6. Batch(q)
    <3>1. n \ {o} \subseteq DOMAIN rows /\ rows = [x \in DOMAIN rows |-> rows[x]]
      BY <1>6, <2>3 DEF Batch
    <3> QED BY <1>6, <2>5, <3>1 DEF Batch
  <2>7. RunOK(Job, q) BY <1>1, <2>3, <2>5, <2>6 DEF RunOK
  <2>8. run' = [run EXCEPT ![Job] = q] BY <1>5, <2>1, <2>2
  <2>9. OnlySlot(Job) /\ run'[Job] = q BY <1>1, <2>8, RunChanges DEF TypeInv
  <2>10. o \in Placed /\ o \in Order /\ rows[o] \in [customer : Customer, points : 0..Paid]
    BY <1>6, <2>1 DEF Placed
  <2>11. rows[o] \in RowRec /\ rows[o].customer \in Customer BY <2>10 DEF RowRec
  <2>12. Placed' = Placed /\ Orders' BY <1>4, SameOrders
  <2>13. Tables'
    <3>1. entry \in [Order -> RowRec] BY DEF TypeInv, Tables
    <3>2. entry' \in [Order -> RowRec] BY <2>1, <2>11, <3>1
    <3>3. entry'[o] = rows[o] /\ \A x \in Order : x # o => entry'[x] = entry[x] BY <2>1, <2>10, <3>1
    <3>4. \A x \in Order : entry'[x] = NoEntry \/ (x \in Placed' /\ entry'[x].customer \in Customer)
      BY <2>10, <2>11, <2>12, <3>3 DEF TypeInv, Tables
    <3> QED BY <1>4, <3>2, <3>4 DEF TypeInv, Tables
  <2> QED BY <1>1, <1>4, <2>5, <2>7, <2>9, <2>12, <2>13, SameNews, RunTypes DEF TypeInv
<1> QED BY <1>7, <1>8

\* Failures.
LEMMA FailsTypes ==
  ASSUME TypeInv, NEW s \in Slot, Fails(s)
  PROVE  TypeInv' /\ OnlySlot(s) /\ run'[s].pc \in {"idle", "names", "recheck", "sum"}
<1>1. Busy(s) BY DEF Fails
<1>2. run[s].todo \in Seq(TodoRec) BY <1>1, BusyRun
<1>3. PICK q1, q2 : q1 = Refreshing(s, Tail(run[s].todo)) /\ q2 = Onward(s) OBVIOUS
<1>4. \/ run[s].todo # <<>> /\ run' = [run EXCEPT ![s] = q1]
      \/ run' = [run EXCEPT ![s] = q2]
  BY <1>3 DEF Fails
<1>5. UNCHANGED <<case, order, post, timer, recall, entry, adjust, copy, tags, told>> BY DEF Fails
<1>6. q2.pc \in {"idle", "names", "recheck"} BY <1>3 DEF Onward, Idle, Start
<1>7. q1.pc \in {"idle", "names", "recheck", "sum"} BY <1>3 DEF Refreshing, Onward, Idle, Start
<1>8. CASE run[s].todo # <<>> /\ run' = [run EXCEPT ![s] = q1]
  <2>1. OnlySlot(s) /\ run'[s] = q1 BY <1>8, RunChanges DEF TypeInv
  <2>2. Tail(run[s].todo) \in Seq(TodoRec) BY <1>2, <1>8, HeadTailProperties
  <2>3. RunOK(s, q1) BY <1>1, <1>3, <2>2, RefreshingOK DEF TypeInv
  <2> QED BY <1>5, <1>7, <2>1, <2>3, MoveTypes
<1>9. CASE run' = [run EXCEPT ![s] = q2]
  <2>1. OnlySlot(s) /\ run'[s] = q2 BY <1>9, RunChanges DEF TypeInv
  <2>3. RunOK(s, q2) BY <1>1, <1>3, OnwardOK DEF TypeInv
  <2> QED BY <1>5, <1>6, <2>1, <2>3, MoveTypes
<1> QED BY <1>4, <1>8, <1>9

LEMMA RestartTypes ==
  ASSUME TypeInv, Restart
  PROVE  TypeInv'
<1>1. UNCHANGED <<case, order, post, entry, adjust, copy, tags, told>> BY DEF Restart
<1>2. run' = [s \in Slot |-> Idle] /\ timer' = [o \in Order |-> None] /\ recall' = {} BY DEF Restart
<1>3. Placed' = Placed /\ Orders' BY <1>1, SameOrders
<1>4. News' BY <1>1, <1>2, <1>3 DEF TypeInv, News, Known
<1>5. Requests' BY <1>2 DEF Requests, RunOK
<1> QED BY <1>1, <1>3, <1>4, <1>5, SameTables DEF TypeInv

\* Which step it is.
LEMMA Steps ==
  ASSUME Next
  PROVE  \/ \E o \in Order : OrderStep(o) \/ Fire(o) \/ Recall(o) \/ \E i \in DOMAIN post[o] : Deliver(o, i)
         \/ \E c \in Customer : RefreshOne(c) \/ \E n \in {-1, 1} : Adjust(c, n)
         \/ Backfill \/ AddAdjustment \/ WriteRow
         \/ SweepStart \/ Names \/ Recheck
         \/ \E s \in Slot : \/ Settle(s) \/ Figure(s) \/ Prior(s) \/ Upsert(s)
                            \/ Sum(s) \/ Look(s) \/ Publish(s) \/ Untag(s) \/ AddTag(s) \/ Mail(s)
                            \/ Fails(s)
         \/ Restart
  BY DEF Next, OrderStep, Hear, OtherStep, Step

LEMMA NextTypes ==
  ASSUME TypeInv, [Next]_vars
  PROVE  TypeInv'
<1>1. CASE UNCHANGED vars
  <2>1. /\ UNCHANGED <<case, order, post, timer, recall, entry, adjust, copy, tags, told>>
        /\ run' = run
    BY <1>1 DEF vars
  <2>2. Orders' /\ Placed' = Placed BY <2>1, SameOrders
  <2>3. Requests' BY <2>1, <2>2, SameRuns DEF TypeInv
  <2> QED BY <2>1, <2>2, <2>3, SameNews, SameTables DEF TypeInv
<1>2. CASE Next
  <2>1. ASSUME NEW o \in Order, OrderStep(o) \/ Fire(o) \/ Recall(o) \/ \E i \in DOMAIN post[o] : Deliver(o, i)
        PROVE  TypeInv'
    BY <2>1, OrderStepTypes, FireTypes, RecallTypes, DeliverTypes
  <2>2. ASSUME NEW c \in Customer, RefreshOne(c) \/ \E n \in {-1, 1} : Adjust(c, n)
        PROVE  TypeInv'
    BY <2>2, RefreshOneTypes, AdjustTypes
  <2>3. CASE Backfill \/ AddAdjustment \/ WriteRow BY <2>3, BackfillTypes, AddAdjustmentTypes, WriteRowTypes
  <2>4. CASE SweepStart \/ Names \/ Recheck BY <2>4, SweepTypes
  <2>5. ASSUME NEW s \in Slot, Settle(s) \/ Figure(s) \/ Prior(s) \/ Upsert(s) PROVE TypeInv' BY <2>5, EarnTypes
  <2>6. ASSUME NEW s \in Slot, Sum(s) \/ Look(s) \/ Publish(s) \/ Untag(s) \/ AddTag(s) \/ Mail(s)
        PROVE  TypeInv'
    BY <2>6, RefreshTypes
  <2>7. ASSUME NEW s \in Slot, Fails(s) PROVE TypeInv' BY <2>7, FailsTypes
  <2>8. CASE Restart BY <2>8, RestartTypes
  <2> QED BY <1>2, Steps, <2>1, <2>2, <2>3, <2>4, <2>5, <2>6, <2>7, <2>8
<1> QED BY <1>1, <1>2

\* The tables and the requests in memory look as they should, whatever
\* comes: an order earns between nothing and what was paid, only an order that
\* was placed has a row, what was delivered was true of the order once.
THEOREM PointsTypes == Spec => []TypeInv
<1>1. Init => TypeInv BY InitTypes
<1>2. TypeInv /\ [Next]_vars => TypeInv' BY NextTypes
<1> QED BY <1>1, <1>2, PTL DEF Spec

--------------------
(* One request at a time *)

\* Without overlapping requests at most one is under way.
Alone == ~Allowed("overlap") => \A s, x \in Slot : Busy(s) /\ Busy(x) => s = x

Whom(r) == Head(r.todo).customer

\* What a refresh knows of the mails sent before.
ToldRun(r) ==
    /\ r.pc = "publish" => r.was = copy[Whom(r)].tier
    /\ r.pc \in {"untag", "tag", "mail"} =>
          copy[Whom(r)].tier = TierOf(r.sum) /\ r.was \in Tier /\ told[Whom(r)] <= r.was

\* Nobody was mailed a tier above the one published.
ToldSound ==
    ~Allowed("overlap") =>
        /\ \A c \in Customer : told[c] <= copy[c].tier
        /\ \A s \in Slot : ToldRun(run[s])

\* Nothing fails, nobody intervenes and requests do not overlap.
Calm == Only({"reorder", "again", "silent", "move"})

\* How far a request is with the copy of a customer.
CopyRun(r) ==
    LET c == Whom(r)
        published == copy[c] = [points |-> r.sum, tier |-> TierOf(r.sum)] IN
    /\ r.pc = "upsert" => r.was = entry[r.order].customer
    /\ r.pc \in {"look", "publish", "untag", "tag", "mail"} => r.sum = CustomerPoints(c)
    /\ r.pc \in {"publish", "untag"} => r.had = tags[c]
    /\ r.pc \in {"untag", "tag", "mail"} => published
    /\ r.pc = "tag" => tags[c] = r.had \cap TagOf(TierOf(r.sum))
    /\ r.pc = "mail" => tags[c] = TagOf(TierOf(r.sum))

\* Request s is still to refresh customer c.
Pending(r, c) == r.pc \in Refreshes /\ \E i \in DOMAIN r.todo : r.todo[i].customer = c

Refreshed ==
    Calm =>
        /\ ~Busy(Admin) /\ ~Busy(Job)
        /\ \A s \in Slot : CopyRun(run[s])
        /\ \A c \in Customer : CopyRight(c) \/ \E s \in Slot : Pending(run[s], c)

\* Deliveries come in order too, and bring every change but a note redeemed.
Prompt == Only({"again", "move"})

Caught(o) == post[o] = <<>> /\ timer[o] = None

\* What request r knows of order o, all of whose news it has heard.
LatestRun(o, r) ==
    /\ r.pc \in Earns => r.load = Load(o)
    /\ r.pc \in Earns \ {"settle"} => r.who = Due(o).customer
    /\ r.pc \in {"prior", "upsert"} /\ o \notin recall => r.points = Due(o).points
    /\ r.pc \notin Earns /\ o \notin recall => entry[o] = Due(o)

\* The newest news of an order is still on its way, or at work, or in the ledger.
FollowedOrder(o) ==
    /\ post[o] # <<>> => Last(post[o]) = Load(o)
    /\ post[o] = <<>> /\ timer[o] # None => timer[o] = Load(o)
    /\ Caught(o) => LatestRun(o, run[o])

Followed ==
    Prompt => ~Busy(Sweep) /\ \A o \in Placed : FollowedOrder(o)

--------------------
(* Requests do not disturb each other *)

\* Only slot s moves, and nothing else is under way.
Solo(s) == OnlySlot(s) /\ \A x \in Slot : x # s => ~Busy(x)

LEMMA SoloStep ==
  ASSUME Alone, ~Allowed("overlap"), NEW s \in Slot, OnlySlot(s), Busy(s) \/ CanStart(s)
  PROVE  Solo(s)
  BY DEF Solo, Alone, CanStart, Quiet

LEMMA SameCase ==
  ASSUME TypeInv, [Next]_vars
  PROVE  case' = case
<1>1. CASE UNCHANGED vars BY <1>1 DEF vars
<1>2. CASE Next
  <2>1. ASSUME NEW o \in Order, OrderStep(o) PROVE case' = case
    BY <2>1 DEF OrderStep, Place, Refund, StoreRefund, RedeemNote, Redeliver, Move, Change
  <2>2. ASSUME NEW o \in Order, Fire(o) \/ Recall(o) \/ \E i \in DOMAIN post[o] : Deliver(o, i)
        PROVE  case' = case
    BY <2>2 DEF Fire, Recall, Deliver
  <2>3. ASSUME NEW c \in Customer, RefreshOne(c) \/ \E n \in {-1, 1} : Adjust(c, n)
        PROVE  case' = case
    BY <2>3 DEF RefreshOne, Adjust
  <2>4. CASE Backfill \/ AddAdjustment \/ WriteRow BY <2>4 DEF Backfill, AddAdjustment, WriteRow
  <2>5. CASE SweepStart \/ Names \/ Recheck BY <2>5 DEF SweepStart, Names, Recheck
  <2>6. ASSUME NEW s \in Slot, \/ Settle(s) \/ Figure(s) \/ Prior(s) \/ Upsert(s)
                               \/ Sum(s) \/ Look(s) \/ Publish(s) \/ Untag(s) \/ AddTag(s) \/ Mail(s)
                               \/ Fails(s)
        PROVE  case' = case
    BY <2>6 DEF Settle, Figure, Prior, Upsert, Sum, Look, Publish, Untag, AddTag, Mail, Fails
  <2>7. CASE Restart BY <2>7 DEF Restart
  <2> QED BY <1>2, Steps, <2>1, <2>2, <2>3, <2>4, <2>5, <2>6, <2>7
<1> QED BY <1>1, <1>2

\* A step that leaves the requests alone, forgets them, or moves only one.
LEMMA Moves ==
  ASSUME TypeInv, Alone, ~Allowed("overlap"), [Next]_vars
  PROVE  \/ run' = run
         \/ run' = [s \in Slot |-> Idle]
         \/ \E s \in Slot : Solo(s)
<1>1. CASE UNCHANGED vars BY <1>1 DEF vars
<1>2. CASE Next
  <2>0. Sweep \in Slot /\ Admin \in Slot /\ Job \in Slot /\ Order \subseteq Slot BY Slots
  <2>1. ASSUME NEW o \in Order, OrderStep(o) \/ Recall(o) \/ \E i \in DOMAIN post[o] : Deliver(o, i)
        PROVE  run' = run
    BY <2>1 DEF OrderStep, Place, Refund, StoreRefund, RedeemNote, Redeliver, Move, Change, Recall, Deliver
  <2>2. ASSUME NEW o \in Order, Fire(o) PROVE \E s \in Slot : Solo(s)
    <3>1. PICK r : r = Earning(o, timer[o]) OBVIOUS
    <3>2. OnlySlot(o) BY <2>0, <2>2, <3>1, RunChanges DEF Fire, TypeInv
    <3> QED BY <2>0, <2>2, <3>2, SoloStep DEF Fire
  <2>3. ASSUME NEW c \in Customer, RefreshOne(c) PROVE \E s \in Slot : Solo(s)
    <3>1. OnlySlot(Admin) /\ CanStart(Admin) BY <2>3, RefreshOneTypes DEF RefreshOne
    <3> QED BY <2>0, <3>1, SoloStep
  <2>4. ASSUME NEW c \in Customer, NEW n \in {-1, 1}, Adjust(c, n) PROVE \E s \in Slot : Solo(s)
    <3>1. n \in Int OBVIOUS
    <3>2. OnlySlot(Admin) BY <2>4, <3>1, AdjustTypes
    <3>3. CanStart(Admin) BY <2>4 DEF Adjust
    <3> QED BY <2>0, <3>2, <3>3, SoloStep
  <2>5. CASE Backfill
    <3>1. OnlySlot(Job) /\ CanStart(Job) BY <2>5, BackfillTypes DEF Backfill
    <3> QED BY <2>0, <3>1, SoloStep
  <2>6. CASE AddAdjustment
    <3>1. OnlySlot(Admin) /\ Busy(Admin) BY <2>6, AddAdjustmentTypes DEF AddAdjustment, Busy
    <3> QED BY <2>0, <3>1, SoloStep
  <2>7. CASE WriteRow
    <3>1. OnlySlot(Job) /\ Busy(Job) BY <2>7, WriteRowTypes DEF WriteRow, Busy
    <3> QED BY <2>0, <3>1, SoloStep
  <2>8. CASE SweepStart \/ Names \/ Recheck
    <3>1. OnlySlot(Sweep) /\ (Busy(Sweep) \/ CanStart(Sweep)) BY <2>8, SweepStartDoes, NamesDoes, RecheckDoes
    <3> QED BY <2>0, <3>1, SoloStep
  <2>9. ASSUME NEW s \in Slot, Settle(s) \/ Figure(s) \/ Prior(s) \/ Upsert(s) PROVE Solo(s)
    <3>1. OnlySlot(s) /\ Busy(s) BY <2>9, SettleDoes, FigureDoes, PriorDoes, UpsertDoes
    <3> QED BY <3>1, SoloStep
  <2>10. ASSUME NEW s \in Slot, Sum(s) \/ Look(s) \/ Publish(s) \/ Untag(s) \/ AddTag(s) \/ Mail(s)
         PROVE  Solo(s)
    <3>1. OnlySlot(s) /\ RefreshRun(s)
      BY <2>10, SumDoes, LookDoes, PublishDoes, UntagDoes, AddTagDoes, MailDoes
    <3>2. Busy(s) BY <3>1 DEF RefreshRun
    <3> QED BY <3>1, <3>2, SoloStep
  <2>11. ASSUME NEW s \in Slot, Fails(s) PROVE Solo(s)
    <3>1. OnlySlot(s) /\ Busy(s) BY <2>11, FailsTypes DEF Fails
    <3> QED BY <3>1, SoloStep
  <2>12. CASE Restart BY <2>12 DEF Restart
  <2> QED BY <1>2, Steps, <2>1, <2>2, <2>3, <2>4, <2>5, <2>6, <2>7, <2>8, <2>9, <2>10, <2>11, <2>12
<1> QED BY <1>1, <1>2

LEMMA NextAlone ==
  ASSUME TypeInv, Alone, [Next]_vars
  PROVE  Alone'
<1>1. case' = case BY SameCase
<1> SUFFICES ASSUME ~Allowed("overlap")' PROVE \A s, x \in Slot : Busy(s)' /\ Busy(x)' => s = x
  BY DEF Alone
<1>2. ~Allowed("overlap") BY <1>1 DEF Allowed
<1>3. CASE run' = run BY <1>2, <1>3 DEF Alone, Busy
<1>4. CASE run' = [s \in Slot |-> Idle] BY <1>4 DEF Busy, Idle
<1>5. ASSUME NEW s \in Slot, Solo(s) PROVE \A y, x \in Slot : Busy(y)' /\ Busy(x)' => y = x
  BY <1>5 DEF Solo, OnlySlot, Busy
<1> QED BY <1>2, <1>3, <1>4, <1>5, Moves

--------------------
(* A rise is mailed once *)

LEMMA RefreshingIs ==
  ASSUME NEW s, NEW todo
  PROVE  /\ todo = <<>> => Refreshing(s, todo).pc \in {"idle", "names", "recheck"}
         /\ todo # <<>> => Refreshing(s, todo).pc = "sum" /\ Refreshing(s, todo).todo = todo
         /\ Onward(s).pc \in {"idle", "names", "recheck"}
<1>1. Onward(s).pc \in {"idle", "names", "recheck"} BY DEF Onward, Idle, Start
<1>2. ASSUME todo # <<>> PROVE Refreshing(s, todo).pc = "sum" /\ Refreshing(s, todo).todo = todo
  BY <1>2 DEF Refreshing, Start
<1>3. ASSUME todo = <<>> PROVE Refreshing(s, todo) = Onward(s) BY <1>3 DEF Refreshing
<1> QED BY <1>1, <1>2, <1>3

\* Where the copies and the mails stay as they are, only request s matters.
LEMMA ToldKept ==
  ASSUME ToldSound, NEW s \in Slot, OnlySlot(s), UNCHANGED <<case, copy, told>>, ToldRun(run[s])'
  PROVE  ToldSound'
<1> SUFFICES ASSUME ~Allowed("overlap")
             PROVE  /\ \A c \in Customer : told[c] <= copy[c].tier
                    /\ \A x \in Slot : ToldRun(run[x])'
  BY DEF ToldSound, Allowed
<1>1. \A c \in Customer : told[c] <= copy[c].tier BY DEF ToldSound
<1>2. ASSUME NEW x \in Slot, x # s PROVE ToldRun(run[x])'
  <2>1. run'[x] = run[x] BY <1>2 DEF OnlySlot
  <2>2. ToldRun(run[x]) BY DEF ToldSound
  <2> QED BY <2>1, <2>2 DEF ToldRun, Whom
<1> QED BY <1>1, <1>2

\* A request at none of these places knows nothing of mails.
LEMMA ToldElsewhere ==
  ASSUME NEW s \in Slot, run'[s].pc \notin {"publish", "untag", "tag", "mail"}
  PROVE  ToldRun(run[s])'
  BY DEF ToldRun

LEMMA PublishTells ==
  ASSUME TypeInv, ToldSound, ~Allowed("overlap"), NEW s \in Slot, Solo(s), Publish(s)
  PROVE  ToldSound'
<1>1. PICK c, t, r, q : c = Who(s) /\ t = NewTier(s) /\ r = run[s] /\ q = run'[s] OBVIOUS
<1>2. /\ r.pc = "publish" /\ RefreshRun(s) /\ q = [r EXCEPT !.pc = "untag"]
      /\ copy'[c] = [points |-> r.sum, tier |-> t]
      /\ \A x \in Customer : x # c => copy'[x] = copy[x]
      /\ told'[c] = IF told[c] > t THEN t ELSE told[c]
      /\ \A x \in Customer : x # c => told'[x] = told[x]
  BY <1>1, PublishDoes
<1>3. Form(r) /\ c \in Customer /\ t \in Tier BY <1>1, <1>2 DEF RefreshRun
<1>4. Whom(r) = c /\ t = TierOf(r.sum) BY <1>1 DEF Whom, Who, NewTier
<1>5. Whom(q) = c /\ q.sum = r.sum /\ q.was = r.was /\ q.pc = "untag"
  <2>1. q = [pc |-> "untag", order |-> r.order, load |-> r.load, who |-> r.who, points |-> r.points,
             todo |-> r.todo, sum |-> r.sum, was |-> r.was, had |-> r.had, names |-> r.names]
    BY <1>2, <1>3 DEF Form
  <2> QED BY <1>4, <2>1 DEF Whom
<1>6. r.was = copy[c].tier /\ told[c] <= copy[c].tier
  BY <1>1, <1>2, <1>3, <1>4 DEF ToldSound, ToldRun
<1>7. copy[c].tier \in Int /\ told[c] \in Int /\ t \in Int
  <2>1. Len(Floors) \in Nat BY LoyaltyPointsAssumption
  <2> QED BY <1>3, <2>1 DEF TypeInv, Tables, Tier
<1>8. told'[c] <= t /\ told'[c] <= r.was BY <1>2, <1>6, <1>7
<1>9. ToldRun(q)'
  <2>1. r.was \in Tier BY <1>3, <1>6 DEF TypeInv, Tables
  <2> QED BY <2>1, <1>2, <1>4, <1>5, <1>8 DEF ToldRun, Whom, Tier
<1>10. \A x \in Customer : told'[x] <= copy'[x].tier
  <2>1. told'[c] <= copy'[c].tier BY <1>2, <1>8
  <2>2. \A x \in Customer : told[x] <= copy[x].tier BY DEF ToldSound
  <2> QED BY <1>2, <2>1, <2>2
<1>11. ASSUME NEW x \in Slot PROVE ToldRun(run[x])'
  <2>1. CASE x = s
    <3>1. run'[x] = q BY <1>1, <2>1
    <3> QED BY <1>9, <3>1 DEF ToldRun, Whom
  <2>2. CASE x # s
    <3>1. run'[x].pc = "idle" BY <2>2 DEF Solo, OnlySlot, Busy
    <3> QED BY <3>1 DEF ToldRun
  <2> QED BY <2>1, <2>2
<1> QED BY <1>10, <1>11 DEF ToldSound

\* Who is mailed was told less before.
LEMMA MailIsNews ==
  ASSUME TypeInv, ToldSound, ~Allowed("overlap"), NEW s \in Slot, Mail(s), Rises(s)
  PROVE  told[Who(s)] < NewTier(s)
<1>1. PICK c, t, r : c = Who(s) /\ t = NewTier(s) /\ r = run[s] OBVIOUS
<1>2. r.pc = "mail" /\ RefreshRun(s) BY <1>1, MailDoes
<1>3. Whom(r) = c /\ c \in Customer BY <1>1, <1>2 DEF Whom, Who, RefreshRun
<1>4. told[c] <= r.was /\ r.was \in Tier BY <1>1, <1>2, <1>3 DEF ToldSound, ToldRun
<1>5. t > r.was BY <1>1 DEF Rises
<1>6. t \in Int /\ told[c] \in Int /\ r.was \in Int
  <2>1. Len(Floors) \in Nat BY LoyaltyPointsAssumption
  <2> QED BY <1>1, <1>2, <1>3, <1>4, <2>1 DEF TypeInv, Tables, Tier, RefreshRun
<1> QED BY <1>1, <1>4, <1>5, <1>6

LEMMA MailTells ==
  ASSUME TypeInv, ToldSound, ~Allowed("overlap"), NEW s \in Slot, Solo(s), Mail(s)
  PROVE  ToldSound'
<1>1. PICK c, t, r : c = Who(s) /\ t = NewTier(s) /\ r = run[s] OBVIOUS
<1>2. /\ r.pc = "mail" /\ RefreshRun(s) /\ run'[s] = Refreshing(s, Tail(r.todo))
      /\ told'[c] = told[c] \/ told'[c] = t
      /\ \A x \in Customer : x # c => told'[x] = told[x]
      /\ copy' = copy
  BY <1>1, MailDoes
<1>3. Whom(r) = c /\ c \in Customer /\ t = TierOf(r.sum) BY <1>1, <1>2 DEF Whom, Who, RefreshRun, NewTier
<1>4. copy[c].tier = t BY <1>1, <1>2, <1>3 DEF ToldSound, ToldRun
<1>5. \A x \in Customer : told'[x] <= copy'[x].tier
  <2>1. \A x \in Customer : told[x] <= copy[x].tier BY DEF ToldSound
  <2>2. t \in Int
    <3>1. t \in Tier /\ Len(Floors) \in Nat BY <1>1, <1>2, LoyaltyPointsAssumption DEF RefreshRun
    <3> QED BY <3>1 DEF Tier
  <2>3. t <= t BY <2>2
  <2> QED BY <1>2, <1>3, <1>4, <2>1, <2>3
<1>6. ASSUME NEW x \in Slot PROVE ToldRun(run[x])'
  <2>1. CASE x = s
    <3>1. run'[s].pc \notin {"publish", "untag", "tag", "mail"}
      <4>1. PICK todo : todo = Tail(r.todo) OBVIOUS
      <4>2. run'[s].pc \in {"idle", "names", "recheck", "sum"} BY <1>2, <4>1, RefreshingIs
      <4> QED BY <4>2
    <3> QED BY <2>1, <3>1, ToldElsewhere
  <2>2. CASE x # s
    <3>1. run'[x].pc = "idle" BY <2>2 DEF Solo, OnlySlot, Busy
    <3> QED BY <3>1 DEF ToldRun
  <2> QED BY <2>1, <2>2
<1> QED BY <1>5, <1>6 DEF ToldSound

\* The steps that write neither copies nor mails.
LEMMA QuietTells ==
  ASSUME TypeInv, ToldSound, NEW s \in Slot,
         \/ Settle(s) \/ Figure(s) \/ Prior(s) \/ Upsert(s)
         \/ Sum(s) \/ Look(s) \/ Untag(s) \/ AddTag(s) \/ Fails(s)
  PROVE  ToldSound' \/ Allowed("overlap")
<1> SUFFICES ASSUME ~Allowed("overlap") PROVE ToldSound'
  OBVIOUS
<1>1. CASE Settle(s)
  <2>1. /\ OnlySlot(s) /\ UNCHANGED <<case, copy, told>> /\ \E c : run'[s] = [run[s] EXCEPT !.pc = "figure", !.who = c]
        /\ Form(run[s])
    BY <1>1, SettleDoes, BusyRun
  <2>2. run'[s].pc = "figure" BY <2>1 DEF Form
  <2> QED BY <2>1, <2>2, ToldElsewhere, ToldKept
<1>2. CASE Figure(s)
  <2>1. /\ OnlySlot(s) /\ UNCHANGED <<case, copy, told>> /\ \E n : run'[s] = [run[s] EXCEPT !.pc = "prior", !.points = n]
        /\ Form(run[s])
    BY <1>2, FigureDoes, BusyRun
  <2>2. run'[s].pc = "prior" BY <2>1 DEF Form
  <2> QED BY <2>1, <2>2, ToldElsewhere, ToldKept
<1>3. CASE Prior(s)
  <2>1. /\ OnlySlot(s) /\ UNCHANGED <<case, copy, told>> /\ Form(run[s])
        /\ run'[s] = Onward(s) \/ \E c : run'[s] = [run[s] EXCEPT !.pc = "upsert", !.was = c]
    BY <1>3, PriorDoes, BusyRun
  <2>2. run'[s].pc \in {"upsert", "idle", "names", "recheck"} BY <2>1, RefreshingIs DEF Form
  <2> QED BY <2>1, <2>2, ToldElsewhere, ToldKept
<1>4. CASE Upsert(s)
  <2>1. /\ OnlySlot(s) /\ UNCHANGED <<case, copy, told>>
        /\ \E todo : run'[s] = Refreshing(s, todo)
    BY <1>4, UpsertDoes
  <2>2. run'[s].pc \in {"sum", "idle", "names", "recheck"} BY <2>1, RefreshingIs
  <2> QED BY <2>1, <2>2, ToldElsewhere, ToldKept
<1>5. CASE Sum(s)
  <2>1. /\ OnlySlot(s) /\ UNCHANGED <<case, copy, told>> /\ Form(run[s])
        /\ \E n : run'[s] = [run[s] EXCEPT !.pc = "look", !.sum = n]
    BY <1>5, SumDoes DEF RefreshRun
  <2>2. run'[s].pc = "look" BY <2>1 DEF Form
  <2> QED BY <2>1, <2>2, ToldElsewhere, ToldKept
<1>6. CASE Look(s)
  <2>1. PICK c, r, q, n, had : c = Who(s) /\ r = run[s] /\ q = run'[s] /\ n = copy[Who(s)].tier /\ had = tags[Who(s)]
    OBVIOUS
  <2>2. /\ OnlySlot(s) /\ UNCHANGED <<case, copy, told>> /\ Form(r)
        /\ (\E todo : q = Refreshing(s, todo)) \/ q = [r EXCEPT !.pc = "publish", !.was = n, !.had = had]
    BY <1>6, <2>1, LookDoes DEF RefreshRun
  <2>3. CASE q = [r EXCEPT !.pc = "publish", !.was = n, !.had = had]
    <3>1. q = [pc |-> "publish", order |-> r.order, load |-> r.load, who |-> r.who, points |-> r.points,
               todo |-> r.todo, sum |-> r.sum, was |-> n, had |-> had, names |-> r.names]
      BY <2>2, <2>3 DEF Form
    <3>2. q.pc = "publish" /\ q.was = copy[Whom(q)].tier BY <2>1, <3>1 DEF Whom, Who
    <3>3. ToldRun(q) BY <3>2 DEF ToldRun
    <3>4. ToldRun(run[s])' BY <2>1, <2>2, <3>3 DEF ToldRun, Whom
    <3> QED BY <2>2, <3>4, ToldKept
  <2>4. CASE \E todo : q = Refreshing(s, todo)
    <3>1. q.pc \in {"sum", "idle", "names", "recheck"} BY <2>4, RefreshingIs
    <3> QED BY <2>1, <2>2, <3>1, ToldElsewhere, ToldKept
  <2> QED BY <2>2, <2>3, <2>4
<1>7. CASE Untag(s) \/ AddTag(s)
  <2>1. PICK r, q : r = run[s] /\ q = run'[s] OBVIOUS
  <2>2. PICK pc \in {"tag", "mail"} :
           /\ OnlySlot(s) /\ UNCHANGED <<case, copy, told>> /\ Form(r) /\ r.pc \in {"untag", "tag"}
           /\ q = [r EXCEPT !.pc = pc]
    BY <1>7, <2>1, UntagDoes, AddTagDoes DEF RefreshRun
  <2>3. q = [pc |-> pc, order |-> r.order, load |-> r.load, who |-> r.who, points |-> r.points,
             todo |-> r.todo, sum |-> r.sum, was |-> r.was, had |-> r.had, names |-> r.names]
    BY <2>2 DEF Form
  <2>4. ToldRun(r) BY <2>1 DEF ToldSound
  <2>5. ToldRun(q) BY <2>2, <2>3, <2>4 DEF ToldRun, Whom
  <2>6. ToldRun(run[s])' BY <2>1, <2>2, <2>5 DEF ToldRun, Whom
  <2> QED BY <2>2, <2>6, ToldKept
<1>8. CASE Fails(s)
  <2>1. OnlySlot(s) /\ run'[s].pc \in {"idle", "names", "recheck", "sum"} BY <1>8, FailsTypes
  <2>2. UNCHANGED <<case, copy, told>> BY <1>8 DEF Fails
  <2> QED BY <2>1, <2>2, ToldElsewhere, ToldKept
<1> QED BY <1>1, <1>2, <1>3, <1>4, <1>5, <1>6, <1>7, <1>8

LEMMA NextTold ==
  ASSUME TypeInv, Alone, ToldSound, [Next]_vars
  PROVE  ToldSound'
<1>1. case' = case BY SameCase
<1>2. CASE Allowed("overlap") BY <1>1, <1>2 DEF ToldSound, Allowed
<1>3. CASE UNCHANGED vars
  <2>1. UNCHANGED <<case, copy, told, run>> BY <1>3 DEF vars
  <2> QED BY <2>1 DEF ToldSound, ToldRun, Whom, Allowed
<1>4. CASE ~Allowed("overlap") /\ Next
  <2>0. Sweep \in Slot /\ Admin \in Slot /\ Job \in Slot /\ Order \subseteq Slot BY Slots
  <2>1. ASSUME NEW o \in Order, OrderStep(o) \/ Recall(o) \/ \E i \in DOMAIN post[o] : Deliver(o, i)
        PROVE  ToldSound'
    <3>1. UNCHANGED <<case, copy, told, run>>
      BY <2>1 DEF OrderStep, Place, Refund, StoreRefund, RedeemNote, Redeliver, Move, Change, Recall, Deliver
    <3> QED BY <3>1 DEF ToldSound, ToldRun, Whom, Allowed
  <2>2. ASSUME NEW o \in Order, Fire(o) PROVE ToldSound'
    <3>1. PICK r : r = Earning(o, timer[o]) OBVIOUS
    <3>2. OnlySlot(o) /\ run'[o] = r BY <2>0, <2>2, <3>1, RunChanges DEF Fire, TypeInv
    <3>3. run'[o].pc = "settle" BY <3>1, <3>2 DEF Earning, Start
    <3>4. UNCHANGED <<case, copy, told>> BY <2>2 DEF Fire
    <3> QED BY <2>0, <3>2, <3>3, <3>4, ToldElsewhere, ToldKept
  <2>3. ASSUME NEW s \in Slot, OnlySlot(s), UNCHANGED <<case, copy, told>>,
               run'[s].pc \in {"adjust", "sum", "write", "idle", "names", "recheck", "settle"}
        PROVE  ToldSound'
    BY <2>3, ToldElsewhere, ToldKept
  <2>4. ASSUME NEW c \in Customer, RefreshOne(c) PROVE ToldSound'
    <3>1. OnlySlot(Admin) /\ run'[Admin].pc = "sum" BY <2>4, RefreshOneTypes
    <3>2. UNCHANGED <<case, copy, told>> BY <2>4 DEF RefreshOne
    <3> QED BY <2>0, <2>3, <3>1, <3>2
  <2>5. ASSUME NEW c \in Customer, NEW n \in {-1, 1}, Adjust(c, n) PROVE ToldSound'
    <3>1. n \in Int OBVIOUS
    <3>2. OnlySlot(Admin) /\ run'[Admin].pc = "adjust" BY <2>5, <3>1, AdjustTypes
    <3>3. UNCHANGED <<case, copy, told>> BY <2>5 DEF Adjust
    <3> QED BY <2>0, <2>3, <3>2, <3>3
  <2>6. CASE Backfill
    <3>1. OnlySlot(Job) /\ run'[Job].pc = "write" BY <2>6, BackfillTypes
    <3>2. UNCHANGED <<case, copy, told>> BY <2>6 DEF Backfill
    <3> QED BY <2>0, <2>3, <3>1, <3>2
  <2>7. CASE AddAdjustment
    <3>1. OnlySlot(Admin) /\ run'[Admin].pc = "sum" BY <2>7, AddAdjustmentTypes
    <3>2. UNCHANGED <<case, copy, told>> BY <2>7 DEF AddAdjustment
    <3> QED BY <2>0, <2>3, <3>1, <3>2
  <2>8. CASE WriteRow
    <3>1. OnlySlot(Job) /\ run'[Job].pc \in {"write", "sum", "idle"} BY <2>8, WriteRowTypes
    <3>2. UNCHANGED <<case, copy, told>> BY <2>8 DEF WriteRow
    <3> QED BY <2>0, <2>3, <3>1, <3>2
  <2>9. CASE SweepStart \/ Names \/ Recheck
    <3>1. OnlySlot(Sweep) /\ run'[Sweep].pc \in {"names", "sum", "recheck", "idle", "settle"}
      BY <2>9, SweepStartDoes, NamesDoes, RecheckDoes
    <3>2. UNCHANGED <<case, copy, told>> BY <2>9 DEF SweepStart, Names, Recheck
    <3> QED BY <2>0, <2>3, <3>1, <3>2
  <2>10. ASSUME NEW s \in Slot, Publish(s) \/ Mail(s) PROVE ToldSound'
    <3>1. OnlySlot(s) /\ RefreshRun(s) BY <2>10, PublishDoes, MailDoes
    <3>2. Busy(s) BY <3>1 DEF RefreshRun
    <3>3. Solo(s) BY <1>4, <3>1, <3>2, SoloStep
    <3> QED BY <1>4, <2>10, <3>3, PublishTells, MailTells
  <2>11. ASSUME NEW s \in Slot,
                \/ Settle(s) \/ Figure(s) \/ Prior(s) \/ Upsert(s)
                \/ Sum(s) \/ Look(s) \/ Untag(s) \/ AddTag(s) \/ Fails(s)
         PROVE  ToldSound'
    BY <1>4, <2>11, QuietTells
  <2>12. CASE Restart
    <3>1. UNCHANGED <<case, copy, told>> /\ \A s \in Slot : run'[s].pc = "idle" BY <2>12 DEF Restart, Idle
    <3> QED BY <3>1 DEF ToldSound, ToldRun, Allowed
  <2> QED BY <1>4, Steps, <2>1, <2>2, <2>4, <2>5, <2>6, <2>7, <2>8, <2>9, <2>10, <2>11, <2>12
<1> QED BY <1>2, <1>3, <1>4

\* A customer is mailed only a tier above what it was told, counted from the
\* last time it fell: no second mail for the same rise, whatever fails, restarts
\* or is repeated, as long as requests do not overlap.
THEOREM ToldOnceHolds == Spec => ToldOnce
<1> DEFINE Inv == TypeInv /\ Alone /\ ToldSound
<1>1. Init => Inv
  <2> SUFFICES ASSUME Init PROVE Inv
    OBVIOUS
  <2>1. run = [s \in Slot |-> Idle] BY DEF Init
  <2>2. \A s \in Slot : run[s].pc = "idle" BY <2>1 DEF Idle
  <2>3. \A c \in Customer : told[c] = 0 /\ copy[c].tier = 0 BY DEF Init
  <2>4. Alone BY <2>2 DEF Alone, Busy
  <2>5. ToldSound BY <2>2, <2>3 DEF ToldSound, ToldRun
  <2> QED BY <2>4, <2>5, InitTypes
<1>2. Inv /\ [Next]_vars => Inv' BY NextTypes, NextAlone, NextTold
<1>3. Inv /\ [Next]_vars =>
        [Only(Trouble \ {"overlap"}) =>
           \A s \in Slot : Mail(s) /\ Rises(s) => told[Who(s)] < NewTier(s)]_vars
  <2> SUFFICES ASSUME Inv, Only(Trouble \ {"overlap"}), NEW s \in Slot, Mail(s), Rises(s)
               PROVE  told[Who(s)] < NewTier(s)
    OBVIOUS
  <2>1. ~Allowed("overlap") BY DEF Only, Allowed
  <2> QED BY <2>1, MailIsNews
<1> HIDE DEF Inv
<1> QED BY <1>1, <1>2, <1>3, PTL DEF Spec, ToldOnce

--------------------
(* The copies *)

LEMMA SameFigures ==
  ASSUME UNCHANGED <<entry, adjust>>
  PROVE  \A c : CustomerPoints(c)' = CustomerPoints(c)
<1> SUFFICES ASSUME NEW c PROVE CustomerPoints(c)' = CustomerPoints(c)
  OBVIOUS
<1>1. Figures(c)' = Figures(c) BY DEF Figures
<1> QED BY <1>1 DEF CustomerPoints

LEMMA SameCopies ==
  ASSUME UNCHANGED <<entry, adjust, copy, tags>>
  PROVE  /\ \A c : CopyRight(c)' <=> CopyRight(c)
         /\ \A s : run'[s] = run[s] => (CopyRun(run[s])' <=> CopyRun(run[s]))
<1>1. \A c : CustomerPoints(c)' = CustomerPoints(c) BY SameFigures
<1>2. \A c : CopyRight(c)' <=> CopyRight(c) BY <1>1 DEF CopyRight
<1>3. ASSUME NEW s, run'[s] = run[s] PROVE CopyRun(run[s])' <=> CopyRun(run[s])
  <2>1. PICK r, c : r = run[s] /\ c = Whom(r) OBVIOUS
  <2>2. run'[s] = r BY <1>3, <2>1
  <2>3. CustomerPoints(c)' = CustomerPoints(c) BY <1>1
  <2> HIDE DEF Refreshes
  <2> QED BY <2>1, <2>2, <2>3 DEF CopyRun, Whom
<1> QED BY <1>2, <1>3

\* Where only request s moves, only its customers matter.
LEMMA CopyStep ==
  ASSUME TypeInv, Refreshed, Calm, case' = case, NEW s \in Slot, Solo(s),
         s = Admin \/ s = Job => ~Busy(s)',
         \A c \in Customer : CopyRight(c) \/ Pending(run[s], c) => CopyRight(c)' \/ Pending(run'[s], c),
         CopyRun(run[s])'
  PROVE  Refreshed'
<1>1. \A x \in Slot : x # s => run[x].pc = "idle" /\ run'[x].pc = "idle" BY DEF Solo, OnlySlot, Busy
<1>2. ~Busy(Admin)' /\ ~Busy(Job)'
  <2>1. Admin \in Slot /\ Job \in Slot BY Slots
  <2> QED BY <1>1, <2>1 DEF Busy
<1>3. ASSUME NEW x \in Slot PROVE CopyRun(run[x])'
  <2>1. CASE x = s BY <2>1
  <2>2. CASE x # s BY <1>1, <2>2 DEF CopyRun
  <2> QED BY <2>1, <2>2
<1>4. ASSUME NEW c \in Customer PROVE CopyRight(c)' \/ \E x \in Slot : Pending(run'[x], c)
  <2>1. CopyRight(c) \/ \E x \in Slot : Pending(run[x], c) BY DEF Refreshed
  <2>2. \A x \in Slot : x # s => ~Pending(run[x], c) BY <1>1 DEF Pending, Refreshes
  <2>3. CopyRight(c) \/ Pending(run[s], c) BY <2>1, <2>2
  <2> QED BY <2>3
<1>5. \A c \in Customer : CopyRight(c)' \/ \E x \in Slot : Pending(run[x], c)' BY <1>4 DEF Pending
<1> QED BY <1>2, <1>3, <1>5 DEF Refreshed

\* A request that had nothing pending and touches no table.
LEMMA CopyIdle ==
  ASSUME TypeInv, Refreshed, Calm, NEW s \in Slot, Solo(s),
         UNCHANGED <<case, entry, adjust, copy, tags>>,
         s # Admin, s # Job,
         run[s].pc \notin Refreshes, CopyRun(run[s])'
  PROVE  Refreshed'
<1>1. \A c \in Customer : CopyRight(c) \/ Pending(run[s], c) => CopyRight(c)'
  <2>1. \A c : CopyRight(c)' <=> CopyRight(c) BY SameCopies
  <2> QED BY <2>1 DEF Pending
<1> HIDE DEF CopyRight, Pending, CopyRun
<1> QED BY <1>1, CopyStep

LEMMA CopyElsewhere ==
  ASSUME NEW s, run'[s].pc \notin {"upsert", "look", "publish", "untag", "tag", "mail"}
  PROVE  CopyRun(run[s])'
  BY DEF CopyRun

\* Whom a refresh has still to do once it is done with one.
LEMMA PendingOn ==
  ASSUME TypeInv, NEW s \in Slot, RefreshRun(s), NEW c, Pending(run[s], c), c # Who(s)
  PROVE  Pending(Refreshing(s, Tail(run[s].todo)), c)
<1>1. PICK todo, rest : todo = run[s].todo /\ rest = Tail(run[s].todo) OBVIOUS
<1>2. todo \in Seq(TodoRec) /\ todo # <<>> BY <1>1 DEF RefreshRun
<1>3. PICK i \in DOMAIN todo : todo[i].customer = c BY <1>1 DEF Pending
<1>4. i # 1 BY <1>1, <1>2, <1>3 DEF Who
<1>5. /\ rest \in Seq(TodoRec) /\ Len(rest) = Len(todo) - 1
      /\ \A j \in 1..Len(rest) : rest[j] = todo[j + 1]
  BY <1>1, <1>2, HeadTailProperties
<1>6. DOMAIN todo = 1..Len(todo) /\ Len(todo) \in Nat BY <1>2, LenProperties
<1>7. i - 1 \in 1..Len(rest) /\ (i - 1) + 1 = i BY <1>3, <1>4, <1>5, <1>6
<1>8. rest[i - 1].customer = c BY <1>3, <1>5, <1>7
<1>9. DOMAIN rest = 1..Len(rest) BY <1>5, LenProperties
<1>10. rest # <<>> BY <1>7, <1>9
<1>11. Refreshing(s, rest).pc = "sum" /\ Refreshing(s, rest).todo = rest BY <1>10, RefreshingIs
<1>12. Pending(Refreshing(s, rest), c)
  <2>1. PICK q : q = Refreshing(s, rest) OBVIOUS
  <2>2. q.pc \in Refreshes /\ i - 1 \in DOMAIN q.todo /\ q.todo[i - 1].customer = c
    BY <2>1, <1>7, <1>8, <1>9, <1>11 DEF Refreshes
  <2>3. Pending(q, c) BY <2>2 DEF Pending
  <2> QED BY <2>1, <2>3
<1> QED BY <1>1, <1>12

\* A refresh done with its customer, whose copy is right.
LEMMA CopyFinished ==
  ASSUME TypeInv, Refreshed, Calm, NEW s \in Slot, Solo(s), RefreshRun(s),
         UNCHANGED <<case, entry, adjust, copy, tags>>, s # Admin, s # Job,
         CopyRight(Who(s)), run'[s] = Refreshing(s, Tail(run[s].todo))
  PROVE  Refreshed'
<1>1. \A c : CopyRight(c)' <=> CopyRight(c) BY SameCopies
<1>2. PICK q, w : q = Refreshing(s, Tail(run[s].todo)) /\ w = Who(s) OBVIOUS
<1>3. ASSUME NEW c \in Customer, CopyRight(c) \/ Pending(run[s], c)
      PROVE  CopyRight(c)' \/ Pending(run'[s], c)
  <2>1. CASE CopyRight(c) BY <1>1, <2>1
  <2>2. CASE c = w BY <1>1, <1>2, <2>2
  <2>3. CASE c # w /\ Pending(run[s], c)
    <3>1. Pending(Refreshing(s, Tail(run[s].todo)), c) BY <1>2, <2>3, PendingOn
    <3> QED BY <3>1
  <2> QED BY <1>3, <2>1, <2>2, <2>3
<1>4. run'[s].pc \in {"idle", "names", "recheck", "sum"}
  <2>1. PICK todo : todo = Tail(run[s].todo) OBVIOUS
  <2>2. Refreshing(s, todo).pc \in {"idle", "names", "recheck", "sum"} BY RefreshingIs
  <2> QED BY <2>1, <2>2
<1>5. CopyRun(run[s])' BY <1>4, CopyElsewhere
<1> HIDE DEF CopyRight, Pending, CopyRun
<1> QED BY <1>3, <1>5, CopyStep

\* Requests that only read, before the refreshes.
LEMMA EarnCopies ==
  ASSUME TypeInv, Refreshed, Calm, NEW s \in Slot, Solo(s), s # Admin, s # Job,
         Settle(s) \/ Figure(s) \/ Prior(s)
  PROVE  Refreshed'
<1>1. CASE Settle(s)
  <2>1. /\ UNCHANGED <<case, entry, adjust, copy, tags>> /\ run[s].pc = "settle" /\ Form(run[s])
        /\ \E c : run'[s] = [run[s] EXCEPT !.pc = "figure", !.who = c]
    BY <1>1, SettleDoes, BusyRun
  <2>2. run'[s].pc = "figure" /\ run[s].pc \notin Refreshes BY <2>1 DEF Form, Refreshes
  <2>3. CopyRun(run[s])' BY <2>2, CopyElsewhere
  <2> QED BY <2>1, <2>2, <2>3, CopyIdle
<1>2. CASE Figure(s)
  <2>1. /\ UNCHANGED <<case, entry, adjust, copy, tags>> /\ run[s].pc = "figure" /\ Form(run[s])
        /\ \E n : run'[s] = [run[s] EXCEPT !.pc = "prior", !.points = n]
    BY <1>2, FigureDoes, BusyRun
  <2>2. run'[s].pc = "prior" /\ run[s].pc \notin Refreshes BY <2>1 DEF Form, Refreshes
  <2>3. CopyRun(run[s])' BY <2>2, CopyElsewhere
  <2> QED BY <2>1, <2>2, <2>3, CopyIdle
<1>3. CASE Prior(s)
  <2>1. PICK r, q, c : r = run[s] /\ q = run'[s] /\ c = entry[run[s].order].customer OBVIOUS
  <2>2. /\ UNCHANGED <<case, entry, adjust, copy, tags>> /\ r.pc = "prior" /\ Form(r)
        /\ q = Onward(s) \/ q = [r EXCEPT !.pc = "upsert", !.was = c]
    BY <1>3, <2>1, PriorDoes, BusyRun
  <2>3. run[s].pc \notin Refreshes BY <2>1, <2>2 DEF Refreshes
  <2>4. CASE q = Onward(s)
    <3>1. run'[s].pc \in {"idle", "names", "recheck"} BY <2>1, <2>4, RefreshingIs
    <3>2. CopyRun(run[s])' BY <3>1, CopyElsewhere
    <3> QED BY <2>2, <2>3, <3>2, CopyIdle
  <2>5. CASE q = [r EXCEPT !.pc = "upsert", !.was = c]
    <3>1. q = [pc |-> "upsert", order |-> r.order, load |-> r.load, who |-> r.who, points |-> r.points,
               todo |-> r.todo, sum |-> r.sum, was |-> c, had |-> r.had, names |-> r.names]
      BY <2>2, <2>5 DEF Form
    <3>2. q.pc = "upsert" /\ q.was = c /\ q.order = r.order BY <3>1
    <3>3. run'[s].pc = "upsert" /\ run'[s].was = entry'[run'[s].order].customer BY <2>1, <2>2, <3>2
    <3>4. CopyRun(run[s])' BY <3>3 DEF CopyRun
    <3> QED BY <2>2, <2>3, <3>4, CopyIdle
  <2> QED BY <2>2, <2>4, <2>5
<1> QED BY <1>1, <1>2, <1>3

\* The row changes, and whom it is taken from and given to is refreshed.
LEMMA UpsertCopies ==
  ASSUME TypeInv, Refreshed, Calm, NEW s \in Slot, Solo(s), s # Admin, s # Job, Upsert(s)
  PROVE  Refreshed'
<1>1. PICK o, who, was, todo, points :
         /\ o = run[s].order /\ who = run[s].who /\ was = run[s].was /\ points = run[s].points
         /\ todo = ToRefresh(run[s].who, run[s].was)
  OBVIOUS
<1>2. /\ run[s].pc = "upsert" /\ EarnRun(s, run[s])
      /\ entry'[o] = [customer |-> who, points |-> points]
      /\ \A x \in Order : x # o => entry'[x] = entry[x]
      /\ run'[s] = Refreshing(s, todo) /\ todo # <<>>
      /\ UNCHANGED <<case, adjust, copy, tags>>
  BY <1>1, UpsertDoes
<1>8. \A c \in {who, was} \ {None} : \E i \in DOMAIN todo : todo[i].customer = c
  BY <1>1, UpsertDoes
<1>3. run[s].was = entry[run[s].order].customer BY <1>2 DEF Refreshed, CopyRun
<1>4. was = entry[o].customer BY <1>1, <1>3
<1>5. run'[s].pc = "sum" /\ run'[s].todo = todo BY <1>2, RefreshingIs
<1>6. ASSUME NEW c \in Customer, CopyRight(c) \/ Pending(run[s], c)
      PROVE  CopyRight(c)' \/ Pending(run'[s], c)
  <2>1. CopyRight(c) BY <1>2, <1>6 DEF Pending, Refreshes
  <2>2. CASE c \in {who, was}
    <3>1. c # None BY LoyaltyPointsAssumption
    <3>2. \E i \in DOMAIN todo : todo[i].customer = c BY <1>8, <2>2, <3>1
    <3> QED BY <1>5, <3>2 DEF Pending, Refreshes
  <2>3. CASE c \notin {who, was}
    <3>1. \A x \in Order : entry'[x] = entry[x] \/ (entry[x].customer # c /\ entry'[x].customer # c)
      BY <1>2, <1>4, <2>3
    <3>2. adjust'[c] = adjust[c] BY <1>2
    <3>3. CustomerPoints(c)' = CustomerPoints(c) BY <3>1, <3>2, SamePoints
    <3> QED BY <1>2, <2>1, <3>3 DEF CopyRight
  <2> QED BY <2>2, <2>3
<1>7. CopyRun(run[s])' BY <1>5, CopyElsewhere
<1> HIDE DEF CopyRight, Pending, CopyRun
<1> QED BY <1>2, <1>6, <1>7, CopyStep

\* A refresh that goes on with its customer.
LEMMA CopyOn ==
  ASSUME TypeInv, Refreshed, Calm, NEW s \in Slot, Solo(s), s # Admin, s # Job,
         UNCHANGED <<case, entry, adjust>>,
         run[s].pc \in Refreshes, run'[s].pc \in Refreshes, run'[s].todo = run[s].todo,
         \A c \in Customer : c # Who(s) => copy'[c] = copy[c] /\ tags'[c] = tags[c],
         UNCHANGED <<copy, tags>> \/ run[s].pc \in {"publish", "untag", "tag"},
         CopyRun(run[s])'
  PROVE  Refreshed'
<1>1. RefreshRun(s) BY RefreshRunIs
<1>2. Pending(run'[s], Who(s))
  <2>1. PICK todo : todo = run[s].todo OBVIOUS
  <2>2. todo \in Seq(TodoRec) /\ todo # <<>> BY <1>1, <2>1 DEF RefreshRun
  <2>3. 1 \in DOMAIN todo /\ todo[1] = Head(todo) BY <2>2
  <2>4. todo[1].customer = Who(s) BY <2>1, <2>3 DEF Who
  <2> QED BY <2>1, <2>3, <2>4 DEF Pending
<1>3. ASSUME NEW c \in Customer, CopyRight(c) \/ Pending(run[s], c)
      PROVE  CopyRight(c)' \/ Pending(run'[s], c)
  <2>1. CASE Pending(run[s], c) BY <2>1 DEF Pending
  <2>2. CASE CopyRight(c) /\ c # Who(s)
    <3>1. CustomerPoints(c)' = CustomerPoints(c) BY SameFigures
    <3>2. copy'[c] = copy[c] /\ tags'[c] = tags[c] BY <2>2
    <3> QED BY <2>2, <3>1, <3>2 DEF CopyRight
  <2>3. CASE c = Who(s) BY <1>2, <2>3
  <2> QED BY <1>3, <2>1, <2>2, <2>3
<1> HIDE DEF CopyRight, Pending, CopyRun, Who
<1> QED BY <1>3, CopyStep

LEMMA SumCopies ==
  ASSUME TypeInv, Refreshed, Calm, NEW s \in Slot, Solo(s), s # Admin, s # Job, Sum(s)
  PROVE  Refreshed'
<1>1. PICK r, q, c, n : r = run[s] /\ q = run'[s] /\ c = Who(s) /\ n = CustomerPoints(Who(s)) OBVIOUS
<1>2. /\ r.pc = "sum" /\ Form(r) /\ q = [r EXCEPT !.pc = "look", !.sum = n]
      /\ UNCHANGED <<case, entry, adjust, copy, tags>>
  BY <1>1, SumDoes DEF RefreshRun
<1>3. q = [pc |-> "look", order |-> r.order, load |-> r.load, who |-> r.who, points |-> r.points,
           todo |-> r.todo, sum |-> n, was |-> r.was, had |-> r.had, names |-> r.names]
  BY <1>2 DEF Form
<1>4. q.pc = "look" /\ q.todo = r.todo /\ q.sum = n BY <1>3
<1>5. Whom(q) = c BY <1>1, <1>4 DEF Whom, Who
<1>6. CustomerPoints(c)' = CustomerPoints(c) BY <1>2, SameFigures
<1>7. CopyRun(q)' BY <1>1, <1>4, <1>5, <1>6 DEF CopyRun, Whom
<1>8. CopyRun(run[s])' BY <1>1, <1>7 DEF CopyRun, Whom
<1>9. run[s].pc \in Refreshes /\ run'[s].pc \in Refreshes /\ run'[s].todo = run[s].todo
  BY <1>1, <1>2, <1>4 DEF Refreshes
<1> HIDE DEF CopyRun
<1> QED BY <1>2, <1>8, <1>9, CopyOn

LEMMA LookCopies ==
  ASSUME TypeInv, Refreshed, Calm, NEW s \in Slot, Solo(s), s # Admin, s # Job, Look(s)
  PROVE  Refreshed'
<1>1. PICK r, q, c, was, had : r = run[s] /\ q = run'[s] /\ c = Who(s) /\ was = copy[Who(s)].tier /\ had = tags[Who(s)]
  OBVIOUS
<1>2. /\ r.pc = "look" /\ RefreshRun(s) /\ Form(r)
      /\ \/ /\ copy[c] = [points |-> r.sum, tier |-> NewTier(s)]
            /\ tags[c] = TagOf(NewTier(s))
            /\ run'[s] = Refreshing(s, Tail(run[s].todo))
         \/ q = [r EXCEPT !.pc = "publish", !.was = was, !.had = had]
      /\ UNCHANGED <<case, entry, adjust, copy, tags>>
  BY <1>1, LookDoes DEF RefreshRun
<1>3. Whom(r) = c /\ NewTier(s) = TierOf(r.sum) BY <1>1 DEF Whom, Who, NewTier
<1>4. r.sum = CustomerPoints(c)
  <2>1. CopyRun(r) BY <1>1 DEF Refreshed
  <2> QED BY <2>1, <1>2, <1>3 DEF CopyRun
<1>5. CASE /\ copy[c] = [points |-> r.sum, tier |-> NewTier(s)]
           /\ tags[c] = TagOf(NewTier(s))
           /\ run'[s] = Refreshing(s, Tail(run[s].todo))
  <2>1. CopyRight(c) BY <1>3, <1>4, <1>5 DEF CopyRight
  <2>2. CopyRight(Who(s)) BY <1>1, <2>1
  <2> QED BY <1>2, <1>5, <2>2, CopyFinished
<1>6. CASE q = [r EXCEPT !.pc = "publish", !.was = was, !.had = had]
  <2>1. q = [pc |-> "publish", order |-> r.order, load |-> r.load, who |-> r.who, points |-> r.points,
             todo |-> r.todo, sum |-> r.sum, was |-> was, had |-> had, names |-> r.names]
    BY <1>2, <1>6 DEF Form
  <2>2. q.pc = "publish" /\ q.todo = r.todo /\ q.sum = r.sum /\ q.had = had BY <2>1
  <2>3. Whom(q) = c BY <1>3, <2>2 DEF Whom
  <2>4. CustomerPoints(c)' = CustomerPoints(c) BY <1>2, SameFigures
  <2>5. had = tags'[c] BY <1>1, <1>2
  <2>6. CopyRun(q)' BY <1>4, <2>2, <2>3, <2>4, <2>5 DEF CopyRun, Whom
  <2>7. CopyRun(run[s])' BY <1>1, <2>6 DEF CopyRun, Whom
  <2>8. run[s].pc \in Refreshes /\ run'[s].pc \in Refreshes /\ run'[s].todo = run[s].todo
    BY <1>1, <1>2, <2>2 DEF Refreshes
  <2> HIDE DEF CopyRun
  <2> QED BY <1>2, <2>7, <2>8, CopyOn
<1> QED BY <1>2, <1>5, <1>6

\* The three writes on the customer.
LEMMA WriteCopies ==
  ASSUME TypeInv, Refreshed, Calm, NEW s \in Slot, Solo(s), s # Admin, s # Job,
         Publish(s) \/ Untag(s) \/ AddTag(s)
  PROVE  Refreshed'
<1>1. PICK r, q, c, t : r = run[s] /\ q = run'[s] /\ c = Who(s) /\ t = NewTier(s) OBVIOUS
<1>2. PICK pc \in {"untag", "tag", "mail"} :
         /\ RefreshRun(s) /\ Form(r) /\ q = [r EXCEPT !.pc = pc]
         /\ \/ /\ pc = "untag" /\ r.pc = "publish"
               /\ copy'[c] = [points |-> r.sum, tier |-> t] /\ tags' = tags
               /\ \A x \in Customer : x # c => copy'[x] = copy[x]
            \/ /\ pc = "tag" /\ r.pc = "untag"
               /\ tags'[c] = tags[c] \ (r.had \ TagOf(t)) /\ copy' = copy
               /\ \A x \in Customer : x # c => tags'[x] = tags[x]
            \/ /\ pc = "mail" /\ r.pc = "tag"
               /\ tags'[c] = tags[c] \cup (TagOf(t) \ r.had) /\ copy' = copy
               /\ \A x \in Customer : x # c => tags'[x] = tags[x]
         /\ UNCHANGED <<case, entry, adjust>>
  <2>1. CASE Publish(s) BY <1>1, <2>1, PublishDoes DEF RefreshRun
  <2>2. CASE Untag(s) BY <1>1, <2>2, UntagDoes DEF RefreshRun
  <2>3. CASE AddTag(s) BY <1>1, <2>3, AddTagDoes DEF RefreshRun
  <2> QED BY <2>1, <2>2, <2>3
<1>3. Whom(r) = c /\ t = TierOf(r.sum) BY <1>1 DEF Whom, Who, NewTier
<1>4. CopyRun(r) BY <1>1 DEF Refreshed
<1>5. q = [pc |-> pc, order |-> r.order, load |-> r.load, who |-> r.who, points |-> r.points,
           todo |-> r.todo, sum |-> r.sum, was |-> r.was, had |-> r.had, names |-> r.names]
  BY <1>2 DEF Form
<1>6. q.pc = pc /\ q.todo = r.todo /\ q.sum = r.sum /\ q.had = r.had BY <1>5
<1>7. Whom(q) = c BY <1>3, <1>6 DEF Whom
<1>8. CustomerPoints(c)' = CustomerPoints(c) BY <1>2, SameFigures
<1>9. /\ r.sum = CustomerPoints(c)
      /\ r.pc \in {"publish", "untag"} => r.had = tags[c]
      /\ r.pc \in {"untag", "tag"} => copy[c] = [points |-> r.sum, tier |-> t]
      /\ r.pc = "tag" => tags[c] = r.had \cap TagOf(t)
  BY <1>2, <1>3, <1>4 DEF CopyRun
<1>10. /\ pc = "untag" => r.had = tags'[c]
       /\ copy'[c] = [points |-> r.sum, tier |-> t]
       /\ pc = "tag" => tags'[c] = r.had \cap TagOf(t)
       /\ pc = "mail" => tags'[c] = TagOf(t)
  <2> PICK T, v : T = TagOf(t) /\ v = [points |-> r.sum, tier |-> t] OBVIOUS
  <2>1. CASE pc = "untag" BY <1>2, <1>9, <2>1
  <2>2. CASE pc = "tag"
    <3>1. tags'[c] = tags[c] \ (r.had \ TagOf(t)) /\ r.had = tags[c] /\ copy' = copy /\ r.pc = "untag"
      BY <1>2, <1>9, <2>2
    <3>2. tags[c] \ (tags[c] \ TagOf(t)) = tags[c] \cap TagOf(t) OBVIOUS
    <3> QED BY <1>9, <2>2, <3>1, <3>2
  <2>3. CASE pc = "mail"
    <3>1. tags'[c] = tags[c] \cup (TagOf(t) \ r.had) /\ tags[c] = r.had \cap TagOf(t) /\ copy' = copy /\ r.pc = "tag"
      BY <1>2, <1>9, <2>3
    <3>2. (r.had \cap TagOf(t)) \cup (TagOf(t) \ r.had) = TagOf(t) OBVIOUS
    <3> QED BY <1>9, <2>3, <3>1, <3>2
  <2> QED BY <2>1, <2>2, <2>3
<1>11. CopyRun(q)' BY <1>3, <1>6, <1>7, <1>8, <1>9, <1>10 DEF CopyRun, Whom
<1>12. CopyRun(run[s])' BY <1>1, <1>11 DEF CopyRun, Whom
<1>13. /\ run[s].pc \in {"publish", "untag", "tag"} /\ run[s].pc \in Refreshes
       /\ run'[s].pc \in Refreshes /\ run'[s].todo = run[s].todo
  BY <1>1, <1>2, <1>6 DEF Refreshes
<1>14. \A x \in Customer : x # Who(s) => copy'[x] = copy[x] /\ tags'[x] = tags[x] BY <1>1, <1>2
<1> HIDE DEF CopyRun, Who
<1> QED BY <1>2, <1>12, <1>13, <1>14, CopyOn

LEMMA MailCopies ==
  ASSUME TypeInv, Refreshed, Calm, NEW s \in Slot, Solo(s), s # Admin, s # Job, Mail(s)
  PROVE  Refreshed'
<1>1. PICK r, c : r = run[s] /\ c = Who(s) OBVIOUS
<1>2. /\ r.pc = "mail" /\ RefreshRun(s)
      /\ run'[s] = Refreshing(s, Tail(run[s].todo))
      /\ UNCHANGED <<case, entry, adjust, copy, tags>>
  BY <1>1, MailDoes
<1>3. Whom(r) = c BY <1>1 DEF Whom, Who
<1>4. CopyRun(r) BY <1>1 DEF Refreshed
<1>5. CopyRight(c) BY <1>2, <1>3, <1>4 DEF CopyRun, CopyRight
<1>6. CopyRight(Who(s)) BY <1>1, <1>5
<1> QED BY <1>2, <1>6, CopyFinished

LEMMA NextRefreshed ==
  ASSUME TypeInv, Alone, Refreshed, [Next]_vars
  PROVE  Refreshed'
<1>1. case' = case BY SameCase
<1>2. CASE ~Calm BY <1>1, <1>2 DEF Refreshed, Calm, Only
<1>3. CASE UNCHANGED <<case, entry, adjust, copy, tags, run>>
  <2>1. \A c : CopyRight(c)' <=> CopyRight(c) BY <1>3, SameCopies
  <2>2. \A s : CopyRun(run[s])' <=> CopyRun(run[s]) BY <1>3, SameCopies
  <2>3. Calm' => Calm BY <1>3 DEF Calm, Only
  <2>4. ~Busy(Admin) => ~Busy(Admin)' BY <1>3 DEF Busy
  <2>5. ~Busy(Job) => ~Busy(Job)' BY <1>3 DEF Busy
  <2>6. ASSUME NEW s \in Slot, NEW c \in Customer, Pending(run[s], c) PROVE Pending(run[s], c)'
    BY <1>3, <2>6 DEF Pending
  <2> SUFFICES ASSUME Calm
               PROVE  /\ ~Busy(Admin)' /\ ~Busy(Job)'
                      /\ \A s \in Slot : CopyRun(run[s])'
                      /\ \A c \in Customer : CopyRight(c)' \/ \E s \in Slot : Pending(run[s], c)'
    BY <2>3 DEF Refreshed
  <2>7. /\ ~Busy(Admin) /\ ~Busy(Job)
        /\ \A s \in Slot : CopyRun(run[s])
        /\ \A c \in Customer : CopyRight(c) \/ \E s \in Slot : Pending(run[s], c)
    BY DEF Refreshed
  <2>8. \A s \in Slot : CopyRun(run[s])' BY <2>2, <2>7
  <2>9. ASSUME NEW c \in Customer PROVE CopyRight(c)' \/ \E s \in Slot : Pending(run[s], c)'
    <3>1. CASE CopyRight(c) BY <2>1, <3>1
    <3>2. CASE \E s \in Slot : Pending(run[s], c) BY <2>6, <3>2
    <3> QED BY <2>7, <3>1, <3>2
  <2> QED BY <2>4, <2>5, <2>7, <2>8, <2>9
<1>4. CASE Calm /\ Next
  <2>0. Sweep \in Slot /\ Admin \in Slot /\ Job \in Slot /\ Order \subseteq Slot BY Slots
  <2>00. /\ ~Allowed("overlap") /\ ~Allowed("staff") /\ ~Allowed("fault")
         /\ ~Busy(Admin) /\ ~Busy(Job)
    BY <1>4 DEF Calm, Only, Allowed, Refreshed
  <2>1. ASSUME NEW o \in Order, OrderStep(o) \/ Recall(o) \/ \E i \in DOMAIN post[o] : Deliver(o, i)
        PROVE  UNCHANGED <<case, entry, adjust, copy, tags, run>>
    BY <2>1 DEF OrderStep, Place, Refund, StoreRefund, RedeemNote, Redeliver, Move, Change, Recall, Deliver
  <2>2. ASSUME NEW o \in Order, Fire(o) PROVE Refreshed'
    <3>1. PICK r : r = Earning(o, timer[o]) OBVIOUS
    <3>2. OnlySlot(o) /\ run'[o] = r /\ CanStart(o) BY <2>0, <2>2, <3>1, RunChanges DEF Fire, TypeInv
    <3>3. run'[o].pc = "settle" /\ run[o].pc = "idle" BY <3>1, <3>2 DEF Earning, Start, CanStart, Busy
    <3>4. UNCHANGED <<case, entry, adjust, copy, tags>> BY <2>2 DEF Fire
    <3>5. Solo(o) /\ o # Admin /\ o # Job BY <2>0, <2>00, <3>2, SoloStep, Slots
    <3>6. CopyRun(run[o])' BY <3>3, CopyElsewhere
    <3>7. run[o].pc \notin Refreshes BY <3>3 DEF Refreshes
    <3> QED BY <1>4, <2>0, <3>4, <3>5, <3>6, <3>7, CopyIdle
  <2>3. ~(\E c \in Customer : RefreshOne(c) \/ \E n \in {-1, 1} : Adjust(c, n))
    BY <2>00 DEF RefreshOne, Adjust
  <2>4. ~Backfill /\ ~AddAdjustment /\ ~WriteRow BY <2>00 DEF Backfill, AddAdjustment, WriteRow, Busy
  <2>5. CASE SweepStart \/ Names \/ Recheck
    <3>1. /\ OnlySlot(Sweep) /\ run'[Sweep].pc \in {"names", "sum", "recheck", "idle", "settle"}
          /\ UNCHANGED <<case, entry, adjust, copy, tags>>
          /\ Busy(Sweep) \/ CanStart(Sweep)
          /\ run[Sweep].pc \in {"idle", "names", "recheck"}
      <4>1. CASE SweepStart BY <4>1, SweepStartDoes DEF CanStart, Busy
      <4>2. CASE Names \/ Recheck BY <4>2, NamesDoes, RecheckDoes
      <4> QED BY <2>5, <4>1, <4>2
    <3>2. Solo(Sweep) /\ Sweep # Admin /\ Sweep # Job BY <2>0, <2>00, <3>1, SoloStep, Slots
    <3>3. CopyRun(run[Sweep])' BY <3>1, CopyElsewhere
    <3>4. run[Sweep].pc \notin Refreshes BY <3>1 DEF Refreshes
    <3> QED BY <1>4, <2>0, <3>1, <3>2, <3>3, <3>4, CopyIdle
  <2>6. ASSUME NEW s \in Slot, Settle(s) \/ Figure(s) \/ Prior(s) \/ Upsert(s)
        PROVE  Refreshed'
    <3>1. OnlySlot(s) /\ Busy(s) BY <2>6, SettleDoes, FigureDoes, PriorDoes, UpsertDoes
    <3>2. Solo(s) /\ s # Admin /\ s # Job BY <2>00, <3>1, SoloStep
    <3> QED BY <1>4, <2>6, <3>2, EarnCopies, UpsertCopies
  <2>7. ASSUME NEW s \in Slot, Sum(s) \/ Look(s) \/ Publish(s) \/ Untag(s) \/ AddTag(s) \/ Mail(s)
        PROVE  Refreshed'
    <3>1. OnlySlot(s) /\ RefreshRun(s)
      BY <2>7, SumDoes, LookDoes, PublishDoes, UntagDoes, AddTagDoes, MailDoes
    <3>2. Busy(s) BY <3>1 DEF RefreshRun
    <3>3. Solo(s) /\ s # Admin /\ s # Job BY <2>00, <3>1, <3>2, SoloStep
    <3> QED BY <1>4, <2>7, <3>3, SumCopies, LookCopies, WriteCopies, MailCopies
  <2>8. ~(\E s \in Slot : Fails(s)) /\ ~Restart BY <2>00 DEF Fails, Restart
  <2> QED BY <1>3, <1>4, Steps, <2>1, <2>2, <2>3, <2>4, <2>5, <2>6, <2>7, <2>8
<1>5. CASE UNCHANGED vars
  <2>1. UNCHANGED <<case, entry, adjust, copy, tags, run>> BY <1>5 DEF vars
  <2> QED BY <1>3, <2>1
<1> QED BY <1>2, <1>4, <1>5

--------------------
(* The ledger *)

LEMMA PromptIs ==
  ASSUME Prompt
  PROVE  /\ Calm
         /\ ~Allowed("reorder") /\ ~Allowed("silent") /\ ~Allowed("staff")
         /\ ~Allowed("fault") /\ ~Allowed("overlap")
  BY DEF Prompt, Calm, Only, Allowed

LEMMA SameDue ==
  ASSUME NEW o, order'[o] = order[o]
  PROVE  Load(o)' = Load(o) /\ Due(o)' = Due(o)
  BY DEF Load, Due

\* An order nothing happens to.
LEMMA FollowedStays ==
  ASSUME NEW o, FollowedOrder(o), order'[o] = order[o], post'[o] = post[o], timer'[o] = timer[o],
         entry'[o] = entry[o], run'[o] = run[o], o \in recall' <=> o \in recall
  PROVE  FollowedOrder(o)'
<1>1. Load(o)' = Load(o) /\ Due(o)' = Due(o) BY SameDue
<1>2. LatestRun(o, run[o]) => LatestRun(o, run[o])'
  <2>1. PICK r : r = run[o] OBVIOUS
  <2>2. run'[o] = r BY <2>1
  <2> QED BY <1>1, <2>1, <2>2 DEF LatestRun
<1>3. Caught(o)' <=> Caught(o) BY DEF Caught
<1> HIDE DEF LatestRun, Caught
<1> QED BY <1>1, <1>2, <1>3 DEF FollowedOrder

\* An order of which news is sent.
LEMMA NewsFollowed ==
  ASSUME TypeInv, NEW o \in Order, NEW load \in LoadRec,
         post' = [post EXCEPT ![o] = Append(@, load)], load = Load(o)'
  PROVE  FollowedOrder(o)' /\ \A x \in Order : x # o => post'[x] = post[x]
<1>1. post \in [Order -> Seq(LoadRec)] /\ post[o] \in Seq(LoadRec) BY DEF TypeInv, News
<1>2. Append(post[o], load) # <<>> /\ Last(Append(post[o], load)) = load BY <1>1, AppendLast
<1>3. post'[o] = Append(post[o], load) /\ \A x \in Order : x # o => post'[x] = post[x] BY <1>1
<1>4. post'[o] # <<>> /\ Last(post'[o]) = Load(o)' BY <1>2, <1>3
<1> QED BY <1>3, <1>4 DEF FollowedOrder, Caught

LEMMA OrderFollowed ==
  ASSUME TypeInv, Followed, Prompt, NEW o \in Order, OrderStep(o)
  PROVE  Followed'
<1>0. ~Allowed("silent") /\ Paid \in Nat BY PromptIs, LoyaltyPointsAssumption
<1>1. /\ UNCHANGED <<case, timer, entry, run>>
      /\ \E new : order' = [order EXCEPT ![o] = new]
  BY DEF OrderStep, Place, Refund, StoreRefund, RedeemNote, Redeliver, Move, Change
<1>2. order \in [Order -> OrderRec] /\ order[o] \in OrderRec /\ post \in [Order -> Seq(LoadRec)]
  BY DEF TypeInv, Orders, News
<1>3. \A x \in Order : x # o => order'[x] = order[x] BY <1>1, <1>2
<1>4. \A x \in Order : x # o /\ x \in Placed' => x \in Placed BY <1>3 DEF Placed
<1>5. recall' = recall \/ recall' = recall \cup {o}
  BY DEF OrderStep, Place, Refund, StoreRefund, RedeemNote, Redeliver, Move
<1>6. TypeInv' BY OrderStepTypes
<1>7. (\A x \in Order : x # o => post'[x] = post[x]) /\ FollowedOrder(o)'
  <2>1. ASSUME NEW load, post' = [post EXCEPT ![o] = Append(@, load)], load = Load(o)', o \in Placed'
        PROVE  (\A x \in Order : x # o => post'[x] = post[x]) /\ FollowedOrder(o)'
    <3>1. load \in LoadRec
      <4>1. order'[o] \in OrderRec /\ order'[o].buyer \in Customer BY <1>6, <2>1 DEF TypeInv, Orders
      <4>2. load = [refund |-> order'[o].refund, buyer |-> order'[o].buyer] BY <2>1 DEF Load
      <4> QED BY <4>1, <4>2 DEF LoadRec, OrderRec
    <3> QED BY <2>1, <3>1, NewsFollowed
  <2>2. ASSUME NEW c \in Customer, NEW a \in Customer \cup {None}, Place(o, c, a)
        PROVE  (\A x \in Order : x # o => post'[x] = post[x]) /\ FollowedOrder(o)'
    <3>1. PICK new : new = [NotPlaced EXCEPT !.placed = TRUE, !.buyer = c, !.asker = a] OBVIOUS
    <3>2. new = [placed |-> TRUE, buyer |-> c, asker |-> a, refund |-> 0, store |-> 0, notes |-> 0]
      BY <3>1 DEF NotPlaced
    <3>3. order' = [order EXCEPT ![o] = new] BY <2>2, <3>1 DEF Place, Change
    <3>4. order'[o] = new BY <1>2, <3>3
    <3>5. PICK load : load = [refund |-> 0, buyer |-> c] OBVIOUS
    <3>6. post' = [post EXCEPT ![o] = Append(@, load)] BY <2>2, <3>5 DEF Place, Deliveries
    <3>7. load = Load(o)' BY <3>2, <3>4, <3>5 DEF Load
    <3>8. o \in Placed' BY <3>2, <3>4 DEF Placed
    <3> QED BY <2>1, <3>6, <3>7, <3>8
  <2>3. CASE Refund(o)
    <3>1. PICK new, load : new = [order[o] EXCEPT !.refund = @ + 1] /\ load = [Load(o) EXCEPT !.refund = @ + 1]
      OBVIOUS
    <3>2. /\ order' = [order EXCEPT ![o] = new] /\ post' = [post EXCEPT ![o] = Append(@, load)] /\ order[o].placed
      BY <2>3, <3>1 DEF Refund, Change, Deliveries, Placed
    <3>3. order'[o] = new BY <1>2, <3>2
    <3>4. new.refund = order[o].refund + 1 /\ new.buyer = order[o].buyer /\ new.placed = order[o].placed
      BY <1>2, <3>1 DEF OrderRec
    <3>5. load = [refund |-> order[o].refund + 1, buyer |-> order[o].buyer] BY <3>1 DEF Load
    <3>6. load = Load(o)' BY <3>3, <3>4, <3>5 DEF Load
    <3>7. o \in Placed' BY <3>2, <3>3, <3>4 DEF Placed
    <3> QED BY <2>1, <3>2, <3>6, <3>7
  <2>4. ASSUME NEW c \in Customer, Move(o, c)
        PROVE  (\A x \in Order : x # o => post'[x] = post[x]) /\ FollowedOrder(o)'
    <3>1. PICK new, load : new = [order[o] EXCEPT !.buyer = c] /\ load = [Load(o) EXCEPT !.buyer = c]
      OBVIOUS
    <3>2. /\ order' = [order EXCEPT ![o] = new] /\ post' = [post EXCEPT ![o] = Append(@, load)] /\ order[o].placed
      BY <2>4, <3>1 DEF Move, Change, Deliveries, Placed
    <3>3. order'[o] = new BY <1>2, <3>2
    <3>4. new.refund = order[o].refund /\ new.buyer = c /\ new.placed = order[o].placed
      BY <1>2, <3>1 DEF OrderRec
    <3>5. load = [refund |-> order[o].refund, buyer |-> c] BY <3>1 DEF Load
    <3>6. load = Load(o)' BY <3>3, <3>4, <3>5 DEF Load
    <3>7. o \in Placed' BY <3>2, <3>3, <3>4 DEF Placed
    <3> QED BY <2>1, <3>2, <3>6, <3>7
  <2>5. CASE Redeliver(o)
    <3>1. PICK load : load = Load(o) OBVIOUS
    <3>2. /\ order' = [order EXCEPT ![o] = order[o]] /\ post' = [post EXCEPT ![o] = Append(@, load)] /\ order[o].placed
      BY <2>5, <3>1 DEF Redeliver, Change, Deliveries, Placed
    <3>3. order'[o] = order[o] BY <1>2, <3>2
    <3>4. load = Load(o)' BY <3>1, <3>3, SameDue
    <3>5. o \in Placed' BY <3>2, <3>3 DEF Placed
    <3> QED BY <2>1, <3>2, <3>4, <3>5
  <2>6. CASE RedeemNote(o)
    <3>1. PICK new : new = [order[o] EXCEPT !.notes = 1] OBVIOUS
    <3>2. order' = [order EXCEPT ![o] = new] /\ post' = post /\ o \in Placed /\ o \in recall'
      BY <2>6, <3>1 DEF RedeemNote, Change
    <3>3. order'[o] = new BY <1>2, <3>2
    <3>4. new.refund = order[o].refund /\ new.buyer = order[o].buyer /\ new.asker = order[o].asker
      BY <1>2, <3>1 DEF OrderRec
    <3>5. Load(o)' = Load(o) BY <3>3, <3>4 DEF Load
    <3>6. Due(o)'.customer = Due(o).customer BY <3>3, <3>4 DEF Due
    <3>7. FollowedOrder(o) BY <3>2 DEF Followed
    <3>8. LatestRun(o, run[o]) => LatestRun(o, run[o])'
      <4>1. PICK r : r = run[o] OBVIOUS
      <4>2. run'[o] = r BY <1>1, <4>1
      <4> QED BY <3>2, <3>5, <3>6, <4>1, <4>2 DEF LatestRun
    <3>9. Caught(o)' <=> Caught(o) BY <1>1, <3>2 DEF Caught
    <3>10. FollowedOrder(o)'
      <4> HIDE DEF LatestRun, Caught, Load
      <4> QED BY <1>1, <3>2, <3>5, <3>7, <3>8, <3>9 DEF FollowedOrder
    <3> QED BY <3>2, <3>10
  <2>7. ~StoreRefund(o) BY <1>0 DEF StoreRefund
  <2> QED BY <2>2, <2>3, <2>4, <2>5, <2>6, <2>7 DEF OrderStep
<1>8. ASSUME NEW x \in Placed' PROVE FollowedOrder(x)'
  <2>1. CASE x = o BY <1>7, <2>1
  <2>2. CASE x # o
    <3>1. x \in Order /\ x \in Placed BY <1>4, <2>2 DEF Placed
    <3>2. FollowedOrder(x) BY <3>1 DEF Followed
    <3>3. /\ order'[x] = order[x] /\ post'[x] = post[x] /\ timer'[x] = timer[x] /\ entry'[x] = entry[x]
          /\ run'[x] = run[x] /\ (x \in recall' <=> x \in recall)
      BY <1>1, <1>3, <1>5, <1>7, <2>2, <3>1
    <3> QED BY <3>2, <3>3, FollowedStays
  <2> QED BY <2>1, <2>2
<1>9. ~Busy(Sweep)' BY <1>1 DEF Followed, Busy
<1> HIDE DEF FollowedOrder
<1> QED BY <1>8, <1>9 DEF Followed

\* A payload is delivered, the last of a queue last, or fetched fresh.
LEMMA KeepFollowed ==
  ASSUME TypeInv, Followed, Prompt, NEW o \in Order,
         Recall(o) \/ \E i \in DOMAIN post[o] : Deliver(o, i)
  PROVE  Followed'
<1>0. ~Allowed("reorder") /\ ~Allowed("fault") BY PromptIs
<1>1. UNCHANGED <<case, order, entry, run>> BY DEF Recall, Deliver
<1>2. /\ post \in [Order -> Seq(LoadRec)] /\ timer \in [Order -> LoadRec \cup {None}]
      /\ post[o] \in Seq(LoadRec)
  BY DEF TypeInv, News
<1>3. o \in Placed BY DEF Recall, TypeInv, News, Known
<1>4. FollowedOrder(o) BY <1>3 DEF Followed
<1>5. Load(o)' = Load(o) BY <1>1, SameDue
<1>6. /\ \A x \in Order : x # o => post'[x] = post[x] /\ timer'[x] = timer[x] /\ (x \in recall' <=> x \in recall)
      /\ FollowedOrder(o)'
  <2>1. CASE Recall(o)
    <3>1. PICK load : load = Load(o) OBVIOUS
    <3>2. timer' = [timer EXCEPT ![o] = load] /\ post' = post /\ recall' = recall \ {o}
      BY <1>0, <2>1, <3>1 DEF Recall, Keep
    <3>3. load # None BY <1>3, <3>1, LoadKnown, LoadIsNone
    <3>4. timer'[o] = load /\ \A x \in Order : x # o => timer'[x] = timer[x] BY <1>2, <3>2
    <3>5. ~Caught(o)' BY <3>3, <3>4 DEF Caught
    <3>6. post'[o] # <<>> => Last(post'[o]) = load BY <1>4, <3>1, <3>2 DEF FollowedOrder
    <3>7. FollowedOrder(o)' BY <1>5, <3>1, <3>4, <3>5, <3>6 DEF FollowedOrder
    <3> QED BY <3>2, <3>4, <3>7
  <2>2. ASSUME NEW i \in DOMAIN post[o], Deliver(o, i)
        PROVE  /\ \A x \in Order : x # o => post'[x] = post[x] /\ timer'[x] = timer[x] /\ (x \in recall' <=> x \in recall)
               /\ FollowedOrder(o)'
    <3>1. i = 1 BY <1>0, <2>2 DEF Deliver
    <3>2. PICK q, left, load : q = post[o] /\ left = RemoveAt(post[o], 1) /\ load = post[o][1] OBVIOUS
    <3>3. q \in Seq(LoadRec) /\ q # <<>> /\ 1 \in DOMAIN q BY <1>2, <2>2, <3>1, <3>2
    <3>4. (left = <<>> => load = Last(q)) /\ (left # <<>> => Last(left) = Last(q)) BY <3>2, <3>3, RemoveHead
    <3>5. load \in LoadRec BY <3>2, <3>3, ElementOfSeq
    <3>6. load # None BY <3>5, LoadIsNone
    <3>7. post' = [post EXCEPT ![o] = left] /\ timer' = [timer EXCEPT ![o] = load] /\ recall' = recall
      BY <2>2, <3>1, <3>2 DEF Deliver, Keep
    <3>8. /\ post'[o] = left /\ timer'[o] = load
          /\ \A x \in Order : x # o => post'[x] = post[x] /\ timer'[x] = timer[x]
      BY <1>2, <3>7
    <3>9. Last(q) = Load(o) BY <1>4, <3>2, <3>3 DEF FollowedOrder
    <3>10. ~Caught(o)' BY <3>6, <3>8 DEF Caught
    <3>11. FollowedOrder(o)'
      <4> HIDE DEF Caught, Load
      <4> QED BY <1>5, <3>4, <3>8, <3>9, <3>10 DEF FollowedOrder
    <3> QED BY <3>7, <3>8, <3>11
  <2> QED BY <2>1, <2>2
<1>7. ASSUME NEW x \in Placed' PROVE FollowedOrder(x)'
  <2>1. CASE x = o BY <1>6, <2>1
  <2>2. CASE x # o
    <3>1. x \in Order /\ x \in Placed BY <1>1 DEF Placed
    <3>2. FollowedOrder(x) BY <3>1 DEF Followed
    <3>3. /\ order'[x] = order[x] /\ post'[x] = post[x] /\ timer'[x] = timer[x] /\ entry'[x] = entry[x]
          /\ run'[x] = run[x] /\ (x \in recall' <=> x \in recall)
      BY <1>1, <1>6, <2>2, <3>1
    <3> QED BY <3>2, <3>3, FollowedStays
  <2> QED BY <2>1, <2>2
<1>8. ~Busy(Sweep)' BY <1>1 DEF Followed, Busy
<1> HIDE DEF FollowedOrder
<1> QED BY <1>7, <1>8 DEF Followed

\* The request of one order moves.
LEMMA FollowStep ==
  ASSUME TypeInv, Followed, Prompt, NEW o \in Order, OnlySlot(o), UNCHANGED <<case, order, post, recall>>,
         \A x \in Order : x # o => entry'[x] = entry[x] /\ timer'[x] = timer[x],
         timer'[o] = timer[o] \/ timer'[o] = None,
         o \in Placed /\ Caught(o)' => LatestRun(o, run[o])'
  PROVE  Followed'
<1>0. Order \subseteq Slot /\ Sweep \in Slot /\ Sweep # o BY Slots
<1>1. ~Busy(Sweep)' BY <1>0 DEF Followed, Busy, OnlySlot
<1>2. ASSUME NEW x \in Placed' PROVE FollowedOrder(x)'
  <2>1. x \in Order /\ x \in Placed BY DEF Placed
  <2>2. FollowedOrder(x) BY <2>1 DEF Followed
  <2>3. CASE x = o
    <3>1. Load(o)' = Load(o) BY SameDue
    <3>2. post'[o] # <<>> => Last(post'[o]) = Load(o)' BY <2>2, <2>3, <3>1 DEF FollowedOrder
    <3>3. post'[o] = <<>> /\ timer'[o] # None => timer'[o] = Load(o)' BY <2>2, <2>3, <3>1 DEF FollowedOrder
    <3>4. Caught(o)' => LatestRun(o, run[o])' BY <2>1, <2>3
    <3> HIDE DEF LatestRun, Caught, Load
    <3> QED BY <2>3, <3>2, <3>3, <3>4 DEF FollowedOrder
  <2>4. CASE x # o
    <3>1. /\ order'[x] = order[x] /\ post'[x] = post[x] /\ timer'[x] = timer[x] /\ entry'[x] = entry[x]
          /\ (x \in recall' <=> x \in recall)
      BY <2>1, <2>4
    <3>2. run'[x] = run[x] BY <1>0, <2>1, <2>4 DEF OnlySlot
    <3> QED BY <2>2, <3>1, <3>2, FollowedStays
  <2> QED BY <2>3, <2>4
<1> HIDE DEF FollowedOrder
<1> QED BY <1>1, <1>2 DEF Followed

LEMMA FireFollowed ==
  ASSUME TypeInv, Followed, Prompt, NEW o \in Order, Fire(o)
  PROVE  Followed'
<1>0. Order \subseteq Slot BY Slots
<1>1. PICK load, r : load = timer[o] /\ r = Earning(o, load) OBVIOUS
<1>2. OnlySlot(o) /\ run'[o] = r BY <1>0, <1>1, RunChanges DEF Fire, TypeInv
<1>3. /\ UNCHANGED <<case, order, post, recall, entry>> /\ timer' = [timer EXCEPT ![o] = None] /\ load # None
  BY <1>1 DEF Fire
<1>4. timer \in [Order -> LoadRec \cup {None}] BY DEF TypeInv, News
<1>5. timer'[o] = None /\ \A x \in Order : x # o => timer'[x] = timer[x] BY <1>3, <1>4
<1>6. r = [pc |-> "settle", order |-> o, load |-> load, who |-> None, points |-> 0,
           todo |-> <<>>, sum |-> 0, was |-> 0, had |-> {}, names |-> None]
  BY <1>1 DEF Earning, Start
<1>7. r.pc = "settle" /\ r.load = load BY <1>6
<1>8. ASSUME o \in Placed, Caught(o)' PROVE LatestRun(o, run[o])'
  <2>1. post[o] = <<>> BY <1>3, <1>8 DEF Caught
  <2>2. load = Load(o) BY <1>1, <1>3, <1>8, <2>1 DEF Followed, FollowedOrder
  <2>3. Load(o)' = Load(o) BY <1>3, SameDue
  <2>4. LatestRun(o, r)' BY <1>7, <2>2, <2>3 DEF LatestRun, Earns
  <2> QED BY <1>2, <2>4 DEF LatestRun
<1> HIDE DEF LatestRun, Caught
<1> QED BY <1>2, <1>3, <1>5, <1>8, FollowStep

LEMMA EarnFollowed ==
  ASSUME TypeInv, Followed, Prompt, NEW s \in Slot, s # Sweep,
         Settle(s) \/ Figure(s) \/ Prior(s) \/ Upsert(s)
  PROVE  Followed'
<1>0. ~Allowed("fault") BY PromptIs
<1>1. PICK r, q, o : r = run[s] /\ q = run'[s] /\ o = run[s].order OBVIOUS
<1>2. /\ Form(r) /\ EarnRun(s, r) /\ OnlySlot(s) /\ r.pc \in Earns
      /\ UNCHANGED <<case, order, post, timer, recall>>
  <2>1. Busy(s) /\ EarnRun(s, run[s]) /\ OnlySlot(s) /\ UNCHANGED <<case, order, post, timer, recall>>
    BY SettleDoes, FigureDoes, PriorDoes, UpsertDoes
  <2>2. Form(run[s]) BY <2>1, BusyRun
  <2>3. r.pc \in Earns BY <1>1 DEF Settle, Figure, Prior, Upsert, Earns
  <2> QED BY <1>1, <2>1, <2>2, <2>3
<1>3. s = o /\ o \in Placed /\ o \in Order BY <1>1, <1>2 DEF EarnRun, Placed
<1>4. Load(o)' = Load(o) /\ Due(o)' = Due(o) BY <1>2, SameDue
<1>5. PICK load, due : load = Load(o) /\ due = Due(o) OBVIOUS
<1>6. Caught(o)' <=> Caught(o) BY <1>2 DEF Caught
<1>7. /\ load.refund = order[o].refund /\ load.buyer = order[o].buyer
      /\ due.customer = (IF order[o].asker = None THEN order[o].buyer ELSE order[o].asker)
      /\ due.points = Points(order[o].refund, order[o].store, order[o].notes)
      /\ due = [customer |-> due.customer, points |-> due.points]
  BY <1>5 DEF Load, Due
<1>8. ASSUME Caught(o)
      PROVE  /\ r.load = load
             /\ r.pc # "settle" => r.who = due.customer
             /\ r.pc \in {"prior", "upsert"} /\ o \notin recall => r.points = due.points
  <2>1. LatestRun(o, r) BY <1>1, <1>3, <1>8 DEF Followed, FollowedOrder
  <2> QED BY <1>2, <1>5, <2>1 DEF LatestRun
<1>9. ASSUME NEW e, e = entry'[o],
             Caught(o) =>
               /\ q.pc \in Earns => q.load = load
               /\ q.pc \in Earns \ {"settle"} => q.who = due.customer
               /\ q.pc \in {"prior", "upsert"} /\ o \notin recall => q.points = due.points
               /\ q.pc \notin Earns /\ o \notin recall => e = due,
             \A x \in Order : x # o => entry'[x] = entry[x]
      PROVE  Followed'
  <2>1. Caught(o)' => LatestRun(o, q)'
    BY <1>2, <1>4, <1>5, <1>6, <1>9 DEF LatestRun
  <2>2. Caught(o)' => LatestRun(o, run[o])' BY <1>1, <1>3, <2>1 DEF LatestRun
  <2>3. OnlySlot(o) BY <1>2, <1>3
  <2> HIDE DEF LatestRun, Caught
  <2> QED BY <1>2, <1>3, <1>9, <2>2, <2>3, FollowStep
<1>10. CASE Settle(s)
  <2>1. PICK c \in Customer :
           /\ q = [r EXCEPT !.pc = "figure", !.who = c]
           /\ c = IF order[o].asker = None THEN r.load.buyer ELSE order[o].asker
    BY <1>0, <1>1, <1>10, SettleDoes
  <2>2. q = [pc |-> "figure", order |-> r.order, load |-> r.load, who |-> c, points |-> r.points,
             todo |-> r.todo, sum |-> r.sum, was |-> r.was, had |-> r.had, names |-> r.names]
    BY <1>2, <2>1 DEF Form
  <2>3. q.pc = "figure" /\ q.load = r.load /\ q.who = c BY <2>2
  <2>4. entry' = entry BY <1>10, SettleDoes
  <2>5. Caught(o) => c = due.customer BY <1>7, <1>8, <2>1
  <2> HIDE DEF Caught
  <2> QED BY <1>8, <1>9, <2>3, <2>4, <2>5 DEF Earns
<1>11. CASE Figure(s)
  <2>1. PICK n \in 0..Paid :
           /\ q = [r EXCEPT !.pc = "prior", !.points = n]
           /\ n = Points(r.load.refund, order[o].store, order[o].notes)
    BY <1>0, <1>1, <1>11, FigureDoes
  <2>2. q = [pc |-> "prior", order |-> r.order, load |-> r.load, who |-> r.who, points |-> n,
             todo |-> r.todo, sum |-> r.sum, was |-> r.was, had |-> r.had, names |-> r.names]
    BY <1>2, <2>1 DEF Form
  <2>3. q.pc = "prior" /\ q.load = r.load /\ q.who = r.who /\ q.points = n /\ r.pc = "figure"
    BY <1>1, <1>11, <2>2 DEF Figure
  <2>4. entry' = entry BY <1>11, FigureDoes
  <2>5. Caught(o) => n = due.points BY <1>7, <1>8, <2>1
  <2> HIDE DEF Caught
  <2> QED BY <1>8, <1>9, <2>3, <2>4, <2>5 DEF Earns
<1>12. CASE Prior(s)
  <2>1. PICK c : c = entry[o].customer OBVIOUS
  <2>2. /\ r.pc = "prior" /\ entry' = entry
        /\ \/ entry[o] = [customer |-> r.who, points |-> r.points] /\ q = Onward(s)
           \/ q = [r EXCEPT !.pc = "upsert", !.was = c]
    BY <1>1, <1>12, <2>1, PriorDoes
  <2>3. CASE entry[o] = [customer |-> r.who, points |-> r.points] /\ q = Onward(s)
    <3>1. q.pc \notin Earns BY <2>3, RefreshingIs DEF Earns
    <3>2. Caught(o) /\ o \notin recall => entry[o] = due
      <4> HIDE DEF Caught
      <4> QED BY <1>7, <1>8, <2>2, <2>3
    <3> HIDE DEF Caught
    <3> QED BY <1>9, <2>2, <3>1, <3>2 DEF Earns
  <2>4. CASE q = [r EXCEPT !.pc = "upsert", !.was = c]
    <3>1. q = [pc |-> "upsert", order |-> r.order, load |-> r.load, who |-> r.who, points |-> r.points,
               todo |-> r.todo, sum |-> r.sum, was |-> c, had |-> r.had, names |-> r.names]
      BY <1>2, <2>4 DEF Form
    <3>2. q.pc = "upsert" /\ q.load = r.load /\ q.who = r.who /\ q.points = r.points BY <3>1
    <3> HIDE DEF Caught
    <3> QED BY <1>8, <1>9, <2>2, <3>2 DEF Earns
  <2> QED BY <2>2, <2>3, <2>4
<1>13. CASE Upsert(s)
  <2>1. PICK todo : todo = ToRefresh(r.who, r.was) OBVIOUS
  <2>2. /\ r.pc = "upsert" /\ entry'[o] = [customer |-> r.who, points |-> r.points]
        /\ \A x \in Order : x # o => entry'[x] = entry[x]
        /\ q = Refreshing(s, todo)
    BY <1>1, <1>13, <2>1, UpsertDoes
  <2>3. q.pc \notin Earns BY <2>2, RefreshingIs DEF Earns
  <2>4. Caught(o) /\ o \notin recall => entry'[o] = due
    <3> HIDE DEF Caught
    <3> QED BY <1>7, <1>8, <2>2
  <2> HIDE DEF Caught
  <2> QED BY <1>9, <2>2, <2>3, <2>4 DEF Earns
<1> QED BY <1>10, <1>11, <1>12, <1>13

\* A refresh has its row behind it.
LEMMA RefreshFollowed ==
  ASSUME TypeInv, Followed, Prompt, NEW s \in Order, OnlySlot(s),
         UNCHANGED <<case, order, post, timer, recall, entry>>,
         run[s].pc \notin Earns, run'[s].pc \notin Earns
  PROVE  Followed'
<1>1. ASSUME s \in Placed, Caught(s)' PROVE LatestRun(s, run[s])'
  <2>1. Caught(s) BY <1>1 DEF Caught
  <2>2. LatestRun(s, run[s]) BY <1>1, <2>1 DEF Followed, FollowedOrder
  <2>3. Due(s)' = Due(s) BY SameDue
  <2>4. s \notin recall => entry[s] = Due(s)
    BY <2>2 DEF LatestRun
  <2> QED BY <2>3, <2>4 DEF LatestRun, Earns
<1> HIDE DEF LatestRun, Caught
<1> QED BY <1>1, FollowStep

\* The sweep, which starts only when it has something to do, finds nothing.
LEMMA SweepRests ==
  ASSUME TypeInv, Alone, Refreshed, Followed, Prompt
  PROVE  ~SweepStart
<1> SUFFICES ASSUME SweepStart PROVE FALSE
  OBVIOUS
<1>1. Heard /\ Behind BY PromptIs, SweepStartDoes
<1>2. \A s \in Slot : run[s].pc = "idle" BY <1>1 DEF Heard, Quiet, Busy
<1>3. ASSUME NEW o \in Placed PROVE entry[o] = Due(o)
  <2>1. o \in Order /\ o \in Slot BY Slots DEF Placed
  <2>2. Caught(o) /\ o \notin recall BY <1>1, <2>1 DEF Heard, Caught
  <2>3. LatestRun(o, run[o]) BY <2>2 DEF Followed, FollowedOrder
  <2>4. run[o].pc \notin Earns BY <1>2, <2>1 DEF Earns
  <2> HIDE DEF Earns
  <2> QED BY <2>2, <2>3, <2>4 DEF LatestRun
<1>4. ASSUME NEW c \in Customer PROVE CopyRight(c)
  <2>1. \A s \in Slot : ~Pending(run[s], c) BY <1>2 DEF Pending, Refreshes
  <2> HIDE DEF CopyRight, Pending, CopyRun
  <2> QED BY <2>1, PromptIs DEF Refreshed
<1> HIDE DEF CopyRight, Due
<1> QED BY <1>1, <1>3, <1>4 DEF Behind

LEMMA NextFollowed ==
  ASSUME TypeInv, Alone, Refreshed, Followed, [Next]_vars
  PROVE  Followed'
<1>1. case' = case BY SameCase
<1>2. CASE ~Prompt BY <1>1, <1>2 DEF Followed, Prompt, Only
<1>3. CASE Prompt /\ UNCHANGED vars
  <2>1. UNCHANGED <<order, post, timer, recall, entry, run>> BY <1>3 DEF vars
  <2>2. ~Busy(Sweep)' BY <1>3, <2>1 DEF Followed, Busy
  <2>3. ASSUME NEW o \in Placed' PROVE FollowedOrder(o)'
    <3>1. o \in Placed BY <2>1 DEF Placed
    <3>2. FollowedOrder(o) BY <1>3, <3>1 DEF Followed
    <3> QED BY <2>1, <3>2, FollowedStays
  <2> HIDE DEF FollowedOrder
  <2> QED BY <2>2, <2>3 DEF Followed
<1>4. CASE Prompt /\ Next
  <2>0. Sweep \in Slot /\ Admin \in Slot /\ Job \in Slot /\ Slot = Order \cup {Sweep, Admin, Job}
    BY Slots DEF Slot
  <2>00. /\ ~Allowed("overlap") /\ ~Allowed("staff") /\ ~Allowed("fault")
         /\ ~Busy(Admin) /\ ~Busy(Job) /\ ~Busy(Sweep)
    BY <1>4, PromptIs DEF Refreshed, Followed
  <2>1. ASSUME NEW o \in Order, OrderStep(o) \/ Fire(o) \/ Recall(o) \/ \E i \in DOMAIN post[o] : Deliver(o, i)
        PROVE  Followed'
    BY <1>4, <2>1, OrderFollowed, FireFollowed, KeepFollowed
  <2>2. ~(\E c \in Customer : RefreshOne(c) \/ \E n \in {-1, 1} : Adjust(c, n))
    BY <2>00 DEF RefreshOne, Adjust
  <2>3. ~Backfill /\ ~AddAdjustment /\ ~WriteRow BY <2>00 DEF Backfill, AddAdjustment, WriteRow, Busy
  <2>4. ~SweepStart BY <1>4, SweepRests
  <2>5. ~Names /\ ~Recheck BY <2>00 DEF Names, Recheck, Busy
  <2>6. ASSUME NEW s \in Slot, Settle(s) \/ Figure(s) \/ Prior(s) \/ Upsert(s)
        PROVE  Followed'
    <3>1. Busy(s) BY <2>6, SettleDoes, FigureDoes, PriorDoes, UpsertDoes
    <3> QED BY <1>4, <2>00, <2>6, <3>1, EarnFollowed
  <2>7. ASSUME NEW s \in Slot, Sum(s) \/ Look(s) \/ Publish(s) \/ Untag(s) \/ AddTag(s) \/ Mail(s)
        PROVE  Followed'
    <3>1. /\ OnlySlot(s) /\ RefreshRun(s) /\ run[s].pc \in Refreshes
          /\ UNCHANGED <<case, order, post, timer, recall, entry>>
      BY <2>7, SumDoes, LookDoes, PublishDoes, UntagDoes, AddTagDoes, MailDoes DEF Refreshes
    <3>2. run[s].pc \notin Earns BY <3>1 DEF Refreshes, Earns
    <3>3. s \in Order
      <4>1. Busy(s) BY <3>1 DEF RefreshRun
      <4> QED BY <2>0, <2>00, <4>1
    <3>4. run'[s].pc \notin Earns
      <4>1. Form(run[s]) BY <3>1 DEF RefreshRun
      <4>2. CASE Sum(s)
        <5>1. \E n : run'[s] = [run[s] EXCEPT !.pc = "look", !.sum = n] BY <4>2, SumDoes
        <5>2. run'[s].pc = "look" BY <4>1, <5>1 DEF Form
        <5> QED BY <5>2 DEF Earns
      <4>3. CASE Look(s)
        <5>1. PICK n, had : n = copy[Who(s)].tier /\ had = tags[Who(s)] OBVIOUS
        <5>2. PICK todo : todo = Tail(run[s].todo) OBVIOUS
        <5>3. \/ run'[s] = Refreshing(s, todo)
              \/ run'[s] = [run[s] EXCEPT !.pc = "publish", !.was = n, !.had = had]
          BY <4>3, <5>1, <5>2, LookDoes
        <5>4. CASE run'[s] = Refreshing(s, todo)
          <6>1. run'[s].pc \in {"sum", "idle", "names", "recheck"} BY <5>4, RefreshingIs
          <6> QED BY <6>1 DEF Earns
        <5>5. CASE run'[s] = [run[s] EXCEPT !.pc = "publish", !.was = n, !.had = had]
          <6>1. run'[s].pc = "publish" BY <4>1, <5>5 DEF Form
          <6> QED BY <6>1 DEF Earns
        <5> QED BY <5>3, <5>4, <5>5
      <4>4. CASE Publish(s) \/ Untag(s) \/ AddTag(s)
        <5>1. \E pc \in {"untag", "tag", "mail"} : run'[s] = [run[s] EXCEPT !.pc = pc]
          BY <4>4, PublishDoes, UntagDoes, AddTagDoes
        <5>2. run'[s].pc \in {"untag", "tag", "mail"} BY <4>1, <5>1 DEF Form
        <5> QED BY <5>2 DEF Earns
      <4>5. CASE Mail(s)
        <5>1. \E todo : run'[s] = Refreshing(s, todo) BY <4>5, MailDoes
        <5>2. run'[s].pc \in {"sum", "idle", "names", "recheck"} BY <5>1, RefreshingIs
        <5> QED BY <5>2 DEF Earns
      <4> QED BY <2>7, <4>2, <4>3, <4>4, <4>5
    <3> HIDE DEF Earns
    <3> QED BY <1>4, <3>1, <3>2, <3>3, <3>4, RefreshFollowed
  <2>8. ~(\E s \in Slot : Fails(s)) /\ ~Restart BY <2>00 DEF Fails, Restart
  <2> QED BY <1>4, Steps, <2>1, <2>2, <2>3, <2>4, <2>5, <2>6, <2>7, <2>8
<1> QED BY <1>2, <1>3, <1>4

--------------------
(* Ledger and copies agree *)

IndInv == TypeInv /\ Alone /\ Refreshed /\ Followed

LEMMA InitAgrees == Init => IndInv
<1> SUFFICES ASSUME Init PROVE IndInv
  OBVIOUS
<1>1. run = [s \in Slot |-> Idle] BY DEF Init
<1>2. \A s \in Slot : run[s].pc = "idle" BY <1>1 DEF Idle
<1>3. Alone BY <1>2 DEF Alone, Busy
<1>4. Placed = {} BY DEF Init, Placed, NotPlaced
<1>5. ~Busy(Sweep) /\ ~Busy(Admin) /\ ~Busy(Job) BY <1>2, Slots DEF Busy
<1>6. Followed BY <1>4, <1>5 DEF Followed
<1>7. \A s \in Slot : CopyRun(run[s]) BY <1>2 DEF CopyRun
<1>8. ASSUME NEW c \in Customer PROVE CopyRight(c)
  <2>1. CustomerPoints(c) = 0
    <3>1. PICK f : f = Figures(c) OBVIOUS
    <3>2. f \in [Order -> Int] /\ \A o \in Order : f[o] = 0
      <4>1. \A o \in Order : entry[o].points = 0 BY DEF Init, NoEntry
      <4> QED BY <3>1, <4>1 DEF Figures
    <3>3. SumFunction(f) = 0 BY <3>2, SumNothing, LoyaltyPointsAssumption
    <3>4. adjust[c] = 0 BY DEF Init
    <3> QED BY <3>1, <3>3, <3>4 DEF CustomerPoints
  <2>2. copy[c] = [points |-> 0, tier |-> 0] /\ tags[c] = {} BY DEF Init
  <2> QED BY <2>1, <2>2, NoTier DEF CopyRight
<1>9. Refreshed BY <1>5, <1>7, <1>8 DEF Refreshed
<1> QED BY <1>3, <1>6, <1>9, InitTypes DEF IndInv

LEMMA NextAgrees == IndInv /\ [Next]_vars => IndInv'
  BY NextTypes, NextAlone, NextRefreshed, NextFollowed DEF IndInv

\* Between requests, with all news heard, ledger and copies are right.
LEMMA AgreesThen == IndInv => PointsAgree
<1> SUFFICES ASSUME IndInv PROVE PointsAgree
  OBVIOUS
<1>1. TypeInv /\ Refreshed /\ Followed BY DEF IndInv
<1>2. TypeOK
  <2>1. ASSUME NEW o \in Order
        PROVE  /\ entry[o] = NoEntry \/ (o \in Placed /\ entry[o].customer \in Customer)
               /\ entry[o].points \in 0..Paid
               /\ timer[o] # None => timer[o].refund \in 0..order[o].refund
    <3>1. entry[o] = NoEntry \/ (o \in Placed /\ entry[o].customer \in Customer)
      BY <1>1 DEF TypeInv, Tables
    <3>2. entry[o].points \in 0..Paid BY <1>1 DEF TypeInv, Tables, RowRec
    <3>3. ASSUME timer[o] # None PROVE timer[o].refund \in 0..order[o].refund
      <4>1. Known(o, timer[o]) BY <1>1, <3>3 DEF TypeInv, News
      <4>2. order[o].refund \in 0..Paid /\ Paid \in Nat
        BY <1>1, LoyaltyPointsAssumption DEF TypeInv, Orders, OrderRec
      <4> QED BY <4>1, <4>2 DEF Known, LoadRec
    <3> QED BY <3>1, <3>2, <3>3
  <2>2. \A c \in Customer : /\ adjust[c] \in Int
                             /\ copy[c].tier \in 0..Len(Floors) /\ told[c] \in 0..Len(Floors)
                             /\ tags[c] \subseteq 1..Len(Floors)
    BY <1>1 DEF TypeInv, Tables, Tier
  <2>3. ASSUME NEW s \in Slot, Busy(s), NEW i \in DOMAIN run[s].todo
        PROVE  run[s].todo[i].customer \in Customer
    <3>1. run[s].todo \in Seq(TodoRec) BY <1>1, <2>3, BusyRun
    <3>2. run[s].todo[i] \in TodoRec BY <3>1
    <3> QED BY <3>2 DEF TodoRec
  <2> QED BY <2>1, <2>2, <2>3 DEF TypeOK
<1>3. LedgerSettles
  <2> SUFFICES ASSUME Prompt, Heard, NEW o \in Placed PROVE entry[o] = Due(o)
    BY DEF LedgerSettles, Prompt
  <2>1. o \in Order /\ o \in Slot BY Slots DEF Placed
  <2>2. Caught(o) /\ o \notin recall /\ run[o].pc = "idle" BY <2>1 DEF Heard, Caught, Quiet, Busy
  <2>3. LatestRun(o, run[o]) BY <1>1, <2>2 DEF Followed, FollowedOrder
  <2>4. run[o].pc \notin Earns BY <2>2 DEF Earns
  <2> HIDE DEF Earns
  <2> QED BY <2>2, <2>3, <2>4 DEF LatestRun
<1>4. CopyAgrees
  <2> SUFFICES ASSUME Calm, Quiet, NEW c \in Customer PROVE CopyRight(c)
    BY DEF CopyAgrees, Calm
  <2>1. \A s \in Slot : ~Pending(run[s], c) BY DEF Quiet, Busy, Pending, Refreshes
  <2> HIDE DEF CopyRight, Pending, CopyRun
  <2> QED BY <1>1, <2>1 DEF Refreshed
<1> QED BY <1>2, <1>3, <1>4 DEF PointsAgree

\* PointsAgree, for any orders, customers and tiers.
THEOREM PointsAgreeHolds == Spec => []PointsAgree
<1>1. Init => IndInv BY InitAgrees
<1>2. IndInv /\ [Next]_vars => IndInv' BY NextAgrees
<1>3. IndInv => PointsAgree BY AgreesThen
<1> QED BY <1>1, <1>2, <1>3, PTL DEF Spec

--------------------
(* A rise is mailed *)

\* Who is refreshed without a mail has not risen.
Unrisen(r) ==
    r.pc \in Refreshes =>
        \A i \in DOMAIN r.todo :
            r.todo[i].mail \/ TierOf(CustomerPoints(r.todo[i].customer)) <= copy[r.todo[i].customer].tier

\* Request r is about to tell customer c.
Telling(r, c) ==
    /\ r.pc \in {"untag", "tag", "mail"} /\ Whom(r) = c
    /\ Head(r.todo).mail /\ TierOf(r.sum) > r.was

RisesSound ==
    Calm =>
        /\ \A s \in Slot : Unrisen(run[s])
        /\ \A c \in Customer : told[c] = copy[c].tier \/ \E s \in Slot : Telling(run[s], c)

\* Where only request s moves, only what it tells matters.
LEMMA RiseStep ==
  ASSUME RisesSound, Calm, case' = case, NEW s \in Slot, Solo(s), Unrisen(run[s])',
         \A c \in Customer : told[c] = copy[c].tier \/ Telling(run[s], c)
                             => told'[c] = copy'[c].tier \/ Telling(run'[s], c)
  PROVE  RisesSound'
<1>1. \A x \in Slot : x # s => run[x].pc = "idle" /\ run'[x].pc = "idle" BY DEF Solo, OnlySlot, Busy
<1>2. ASSUME NEW x \in Slot PROVE Unrisen(run[x])'
  <2>1. CASE x = s BY <2>1
  <2>2. CASE x # s BY <1>1, <2>2 DEF Unrisen, Refreshes
  <2> QED BY <2>1, <2>2
<1>3. ASSUME NEW c \in Customer PROVE told'[c] = copy'[c].tier \/ \E x \in Slot : Telling(run'[x], c)
  <2>1. told[c] = copy[c].tier \/ \E x \in Slot : Telling(run[x], c) BY DEF RisesSound
  <2>2. \A x \in Slot : x # s => ~Telling(run[x], c) BY <1>1 DEF Telling
  <2>3. told[c] = copy[c].tier \/ Telling(run[s], c) BY <2>1, <2>2
  <2> QED BY <2>3
<1>4. \A c \in Customer : told'[c] = copy'[c].tier \/ \E x \in Slot : Telling(run[x], c)'
  BY <1>3 DEF Telling, Whom
<1> QED BY <1>2, <1>4 DEF RisesSound

\* A request that had nobody to tell and writes neither copies nor mails.
LEMMA RiseIdle ==
  ASSUME RisesSound, Calm, UNCHANGED <<case, copy, told>>, NEW s \in Slot, Solo(s),
         run[s].pc \notin {"untag", "tag", "mail"}, Unrisen(run[s])'
  PROVE  RisesSound'
<1>1. \A c \in Customer : ~Telling(run[s], c) BY DEF Telling
<1> QED BY <1>1, RiseStep

LEMMA UnrisenElsewhere ==
  ASSUME NEW s, run'[s].pc \notin Refreshes
  PROVE  Unrisen(run[s])'
  BY DEF Unrisen, Refreshes

\* The customers still to refresh are as they were.
LEMMA UnrisenOn ==
  ASSUME NEW s \in Slot, Unrisen(run[s]), run[s].pc \in Refreshes, UNCHANGED <<entry, adjust, copy>>,
         run'[s].pc \in Refreshes => run'[s].todo = run[s].todo
  PROVE  Unrisen(run[s])'
<1>1. PICK r, q : r = run[s] /\ q = run'[s] OBVIOUS
<1> SUFFICES ASSUME q.pc \in Refreshes PROVE Unrisen(run[s])'
  BY <1>1 DEF Unrisen, Refreshes
<1>2. q.todo = r.todo BY <1>1
<1>3. ASSUME NEW i \in DOMAIN q.todo
      PROVE  q.todo[i].mail \/ TierOf(CustomerPoints(q.todo[i].customer)') <= copy'[q.todo[i].customer].tier
  <2>1. PICK c : c = q.todo[i].customer OBVIOUS
  <2>2. q.todo[i].mail \/ TierOf(CustomerPoints(c)) <= copy[c].tier
    BY <1>1, <1>2, <2>1 DEF Unrisen
  <2>3. CustomerPoints(c)' = CustomerPoints(c) BY SameFigures
  <2> QED BY <2>1, <2>2, <2>3
<1> QED BY <1>1, <1>3 DEF Unrisen, TierOf

LEMMA UnrisenTail ==
  ASSUME TypeInv, NEW s \in Slot, RefreshRun(s), Unrisen(run[s]), run[s].pc \in Refreshes,
         UNCHANGED <<entry, adjust, copy>>, run'[s] = Refreshing(s, Tail(run[s].todo))
  PROVE  Unrisen(run[s])'
<1>1. PICK q, todo, rest : q = run'[s] /\ todo = run[s].todo /\ rest = Tail(run[s].todo) OBVIOUS
<1>2. /\ rest = <<>> => q.pc \in {"idle", "names", "recheck"}
      /\ rest # <<>> => q.pc = "sum" /\ q.todo = rest
  <2>1. q = Refreshing(s, rest) BY <1>1
  <2>2. Refreshing(s, rest) = Onward(s) \/ rest # <<>> BY DEF Refreshing
  <2> QED BY <2>1, <2>2, RefreshingIs
<1>3. CASE rest = <<>> BY <1>1, <1>2, <1>3, UnrisenElsewhere DEF Refreshes
<1>4. CASE rest # <<>>
  <2>1. todo \in Seq(TodoRec) /\ todo # <<>> BY <1>1 DEF RefreshRun
  <2>2. /\ rest \in Seq(TodoRec) /\ Len(rest) = Len(todo) - 1
        /\ \A j \in 1..Len(rest) : rest[j] = todo[j + 1]
    BY <1>1, <2>1, HeadTailProperties
  <2>3. DOMAIN todo = 1..Len(todo) /\ DOMAIN rest = 1..Len(rest) /\ Len(todo) \in Nat
    BY <2>1, <2>2, LenProperties
  <2>4. ASSUME NEW i \in DOMAIN q.todo
        PROVE  q.todo[i].mail \/ TierOf(CustomerPoints(q.todo[i].customer)') <= copy'[q.todo[i].customer].tier
    <3>1. i \in 1..Len(rest) /\ q.todo[i] = rest[i] BY <1>2, <1>4, <2>3
    <3>2. i + 1 \in DOMAIN todo /\ rest[i] = todo[i + 1] BY <2>2, <2>3, <3>1
    <3>3. PICK c, e : c = q.todo[i].customer /\ e = todo[i + 1] OBVIOUS
    <3>4. e.mail \/ TierOf(CustomerPoints(e.customer)) <= copy[e.customer].tier
      BY <1>1, <3>2, <3>3 DEF Unrisen
    <3>5. CustomerPoints(c)' = CustomerPoints(c) BY SameFigures
    <3>6. q.todo[i] = e /\ c = e.customer BY <3>1, <3>2, <3>3
    <3>7. q.todo[i].mail \/ TierOf(CustomerPoints(c)') <= copy'[c].tier BY <3>4, <3>5, <3>6
    <3> QED BY <3>3, <3>7
  <2> QED BY <1>1, <2>4 DEF Unrisen, TierOf
<1> QED BY <1>3, <1>4

\* The sum of a customer is a number, and no larger when a row is taken from it.
LEMMA FiguresIn ==
  ASSUME TypeInv, NEW c \in Customer
  PROVE  /\ Figures(c) \in [Order -> Int]
         /\ CustomerPoints(c) \in Int
<1>1. \A o \in Order : entry[o].points \in Int
  BY LoyaltyPointsAssumption DEF TypeInv, Tables, RowRec
<1>2. PICK f : f = Figures(c) OBVIOUS
<1>3. f \in [Order -> Int] BY <1>1, <1>2 DEF Figures
<1>5. SumFunction(f) \in Int BY <1>3, SumIn, LoyaltyPointsAssumption
<1>6. adjust[c] \in Int BY DEF TypeInv, Tables
<1> QED BY <1>2, <1>3, <1>5, <1>6 DEF CustomerPoints

LEMMA RowTaken ==
  ASSUME TypeInv, TypeInv', NEW c \in Customer, NEW o \in Order, adjust' = adjust,
         entry'[o].customer # c, \A x \in Order : x # o => entry'[x] = entry[x]
  PROVE  CustomerPoints(c)' <= CustomerPoints(c)
<1>1. PICK f, h : f = Figures(c) /\ h = Figures(c)' OBVIOUS
<1>2. f \in [Order -> Int] /\ h \in [Order -> Int]
  <2>1. f \in [Order -> Int] BY <1>1, FiguresIn
  <2>2. h = [x \in Order |-> IF entry'[x].customer = c THEN entry'[x].points ELSE 0] BY <1>1 DEF Figures
  <2>3. \A x \in Order : entry'[x].points \in Int
    BY LoyaltyPointsAssumption DEF TypeInv, Tables, RowRec
  <2> QED BY <2>1, <2>2, <2>3
<1>3. ASSUME NEW x \in Order PROVE h[x] <= f[x]
  <2>1. CASE x = o
    <3>1. h[x] = 0 BY <1>1, <2>1 DEF Figures
    <3>2. entry[x].points \in 0..Paid BY DEF TypeInv, Tables, RowRec
    <3>3. f[x] = (IF entry[x].customer = c THEN entry[x].points ELSE 0) BY <1>1 DEF Figures
    <3> QED BY <3>1, <3>2, <3>3, LoyaltyPointsAssumption
  <2>2. CASE x # o
    <3>1. entry'[x] = entry[x] BY <2>2
    <3>2. h[x] = f[x] BY <1>1, <3>1 DEF Figures
    <3>3. f[x] \in Int BY <1>2
    <3> QED BY <3>2, <3>3
  <2> QED BY <2>1, <2>2
<1>4. SumFunction(h) <= SumFunction(f) BY <1>2, <1>3, SumLess, LoyaltyPointsAssumption
<1>5. SumFunction(f) \in Int /\ SumFunction(h) \in Int BY <1>2, SumIn, LoyaltyPointsAssumption
<1>6. adjust[c] \in Int BY DEF TypeInv, Tables
<1>7. CustomerPoints(c) = adjust[c] + SumFunction(f) BY <1>1 DEF CustomerPoints
<1>8. CustomerPoints(c)' = adjust[c] + SumFunction(h) BY <1>1 DEF CustomerPoints
<1> QED BY <1>4, <1>5, <1>6, <1>7, <1>8

LEMMA EarnRises ==
  ASSUME TypeInv, RisesSound, Calm, NEW s \in Slot, Solo(s), Settle(s) \/ Figure(s) \/ Prior(s)
  PROVE  RisesSound'
<1>1. PICK r, q : r = run[s] /\ q = run'[s] OBVIOUS
<1>2. /\ UNCHANGED <<case, copy, told>> /\ r.pc \in {"settle", "figure", "prior"}
      /\ q.pc \in {"figure", "prior", "upsert", "idle", "names", "recheck"}
  <2>1. CASE Settle(s)
    <3>1. /\ UNCHANGED <<case, copy, told>> /\ r.pc = "settle" /\ Form(r)
          /\ \E c : q = [r EXCEPT !.pc = "figure", !.who = c]
      BY <1>1, <2>1, SettleDoes, BusyRun
    <3>2. q.pc = "figure" BY <3>1 DEF Form
    <3> QED BY <3>1, <3>2
  <2>2. CASE Figure(s)
    <3>1. /\ UNCHANGED <<case, copy, told>> /\ r.pc = "figure" /\ Form(r)
          /\ \E n : q = [r EXCEPT !.pc = "prior", !.points = n]
      BY <1>1, <2>2, FigureDoes, BusyRun
    <3>2. q.pc = "prior" BY <3>1 DEF Form
    <3> QED BY <3>1, <3>2
  <2>3. CASE Prior(s)
    <3>1. /\ UNCHANGED <<case, copy, told>> /\ r.pc = "prior" /\ Form(r)
          /\ q = Onward(s) \/ \E c : q = [r EXCEPT !.pc = "upsert", !.was = c]
      BY <1>1, <2>3, PriorDoes, BusyRun
    <3>2. q.pc \in {"upsert", "idle", "names", "recheck"} BY <3>1, RefreshingIs DEF Form
    <3> QED BY <3>1, <3>2
  <2> QED BY <2>1, <2>2, <2>3
<1>3. Unrisen(run[s])' BY <1>1, <1>2, UnrisenElsewhere DEF Refreshes
<1> QED BY <1>1, <1>2, <1>3, RiseIdle

\* Before a request with nothing to refresh, every copy is right.
LEMMA CopiesRight ==
  ASSUME Refreshed, Calm, NEW s \in Slot, \A x \in Slot : x # s => ~Busy(x),
         run[s].pc \notin Refreshes, NEW c \in Customer
  PROVE  copy[c].tier = TierOf(CustomerPoints(c))
<1>1. \A x \in Slot : ~Pending(run[x], c) BY DEF Pending, Busy, Refreshes
<1>2. CopyRight(c) BY <1>1 DEF Refreshed
<1> QED BY <1>2 DEF CopyRight

LEMMA UpsertRises ==
  ASSUME TypeInv, TypeInv', Refreshed, RisesSound, Calm, NEW s \in Slot, Solo(s), Upsert(s)
  PROVE  RisesSound'
<1>1. PICK o, who, was, todo, points :
         /\ o = run[s].order /\ who = run[s].who /\ was = run[s].was /\ points = run[s].points
         /\ todo = ToRefresh(run[s].who, run[s].was)
  OBVIOUS
<1>2. /\ run[s].pc = "upsert" /\ EarnRun(s, run[s])
      /\ entry'[o] = [customer |-> who, points |-> points]
      /\ \A x \in Order : x # o => entry'[x] = entry[x]
      /\ run'[s] = Refreshing(s, todo) /\ todo # <<>> /\ todo \in Seq(TodoRec)
      /\ UNCHANGED <<case, adjust, copy, told>>
  BY <1>1, UpsertDoes
<1>3. \A i \in DOMAIN todo : todo[i].mail \/ todo[i].customer \in {was} \ {None, who}
  BY <1>1, UpsertDoes
<1>4. run'[s].pc = "sum" /\ run'[s].todo = todo BY <1>2, RefreshingIs
<1>5. o \in Order BY <1>1, <1>2 DEF EarnRun, Placed
<1>6. ASSUME NEW i \in DOMAIN todo
      PROVE  todo[i].mail \/ TierOf(CustomerPoints(todo[i].customer)') <= copy'[todo[i].customer].tier
  <2>1. PICK c : c = todo[i].customer OBVIOUS
  <2> SUFFICES ASSUME ~todo[i].mail PROVE TierOf(CustomerPoints(c)') <= copy'[c].tier
    BY <2>1
  <2>2. c # who BY <1>3, <2>1
  <2>3. todo[i] \in TodoRec BY <1>2
  <2>4. c \in Customer BY <2>1, <2>3 DEF TodoRec
  <2>5. CustomerPoints(c)' <= CustomerPoints(c)
    <3>1. entry'[o].customer # c /\ adjust' = adjust BY <1>2, <2>2
    <3> QED BY <1>2, <1>5, <2>4, <3>1, RowTaken
  <2>6. CustomerPoints(c) \in Int BY <2>4, FiguresIn
  <2>7. CustomerPoints(c)' \in Int
    <3>1. Figures(c)' \in [Order -> Int]
      <4>1. \A x \in Order : entry'[x].points \in Int
        BY LoyaltyPointsAssumption DEF TypeInv, Tables, RowRec
      <4> QED BY <4>1 DEF Figures
    <3>2. SumFunction(Figures(c)') \in Int
      <4>1. PICK h : h = Figures(c)' OBVIOUS
      <4>2. SumFunction(h) \in Int BY <3>1, <4>1, SumIn, LoyaltyPointsAssumption
      <4> QED BY <4>1, <4>2
    <3>3. CustomerPoints(c)' = adjust'[c] + SumFunction(Figures(c)') BY DEF CustomerPoints
    <3>4. adjust'[c] \in Int BY <2>4 DEF TypeInv, Tables
    <3> QED BY <3>2, <3>3, <3>4
  <2>8. PICK p, n : p = CustomerPoints(c)' /\ n = CustomerPoints(c) OBVIOUS
  <2>9. TierOf(p) <= TierOf(n) BY <2>5, <2>6, <2>7, <2>8, TierRises
  <2>10. copy[c].tier = TierOf(n)
    <3>1. \A x \in Slot : x # s => ~Busy(x) BY DEF Solo
    <3>2. run[s].pc \notin Refreshes BY <1>2 DEF Refreshes
    <3> QED BY <2>4, <2>8, <3>1, <3>2, CopiesRight
  <2> QED BY <1>2, <2>8, <2>9, <2>10
<1>7. Unrisen(run[s])' BY <1>4, <1>6 DEF Unrisen, TierOf
<1>8. run[s].pc \notin {"untag", "tag", "mail"} BY <1>2
<1> QED BY <1>2, <1>7, <1>8, RiseIdle

\* A refresh that goes on with its customer and writes neither copy nor mail.
LEMMA RiseOn ==
  ASSUME TypeInv, RisesSound, Calm, NEW s \in Slot, Solo(s),
         Sum(s) \/ Look(s) \/ Untag(s) \/ AddTag(s)
  PROVE  RisesSound'
<1>1. PICK r, q : r = run[s] /\ q = run'[s] OBVIOUS
<1>2. Unrisen(r) BY <1>1 DEF RisesSound
<1>3. CASE Sum(s)
  <2>1. /\ Form(r) /\ r.pc = "sum" /\ \E n : q = [r EXCEPT !.pc = "look", !.sum = n]
        /\ UNCHANGED <<case, entry, adjust, copy, told>>
    BY <1>1, <1>3, SumDoes DEF RefreshRun
  <2>2. q.todo = r.todo BY <2>1 DEF Form
  <2>3. r.pc \in Refreshes BY <2>1 DEF Refreshes
  <2>4. Unrisen(run[s])' BY <1>1, <1>2, <2>1, <2>2, <2>3, UnrisenOn
  <2> QED BY <1>1, <2>1, <2>4, RiseIdle
<1>4. CASE Look(s)
  <2>1. PICK n, had : n = copy[Who(s)].tier /\ had = tags[Who(s)] OBVIOUS
  <2>2. /\ RefreshRun(s) /\ r.pc = "look" /\ UNCHANGED <<case, entry, adjust, copy, told>>
        /\ \/ run'[s] = Refreshing(s, Tail(run[s].todo))
           \/ q = [r EXCEPT !.pc = "publish", !.was = n, !.had = had]
    BY <1>1, <1>4, <2>1, LookDoes
  <2>3. r.pc \in Refreshes BY <2>2 DEF Refreshes
  <2>4. CASE run'[s] = Refreshing(s, Tail(run[s].todo))
    <3>1. Unrisen(run[s])' BY <1>1, <1>2, <2>2, <2>3, <2>4, UnrisenTail
    <3> QED BY <1>1, <2>2, <3>1, RiseIdle
  <2>5. CASE q = [r EXCEPT !.pc = "publish", !.was = n, !.had = had]
    <3>1. Form(r) BY <1>1, <2>2 DEF RefreshRun
    <3>2. q.todo = r.todo BY <2>5, <3>1 DEF Form
    <3>3. Unrisen(run[s])' BY <1>1, <1>2, <2>2, <2>3, <3>2, UnrisenOn
    <3> QED BY <1>1, <2>2, <3>3, RiseIdle
  <2> QED BY <2>2, <2>4, <2>5
<1>5. CASE Untag(s) \/ AddTag(s)
  <2>1. PICK pc \in {"tag", "mail"} :
           /\ UNCHANGED <<case, entry, adjust, copy, told>> /\ Form(r) /\ r.pc \in {"untag", "tag"}
           /\ q = [r EXCEPT !.pc = pc]
    BY <1>1, <1>5, UntagDoes, AddTagDoes DEF RefreshRun
  <2>2. q = [pc |-> pc, order |-> r.order, load |-> r.load, who |-> r.who, points |-> r.points,
             todo |-> r.todo, sum |-> r.sum, was |-> r.was, had |-> r.had, names |-> r.names]
    BY <2>1 DEF Form
  <2>3. r.pc \in Refreshes BY <2>1 DEF Refreshes
  <2>4. Unrisen(run[s])' BY <1>1, <1>2, <2>1, <2>2, <2>3, UnrisenOn
  <2>5. ASSUME NEW c \in Customer, told[c] = copy[c].tier \/ Telling(run[s], c)
        PROVE  told'[c] = copy'[c].tier \/ Telling(run'[s], c)
    <3>1. CASE told[c] = copy[c].tier BY <2>1, <3>1
    <3>2. CASE Telling(r, c) BY <1>1, <2>1, <2>2, <3>2 DEF Telling, Whom
    <3> QED BY <1>1, <2>5, <3>1, <3>2
  <2> QED BY <2>1, <2>4, <2>5, RiseStep
<1> QED BY <1>3, <1>4, <1>5

LEMMA PublishRises ==
  ASSUME TypeInv, Refreshed, ToldSound, RisesSound, Calm, NEW s \in Slot, Solo(s), Publish(s)
  PROVE  RisesSound'
<1>1. PICK c, t, r, q : c = Who(s) /\ t = NewTier(s) /\ r = run[s] /\ q = run'[s] OBVIOUS
<1>2. /\ r.pc = "publish" /\ RefreshRun(s) /\ q = [r EXCEPT !.pc = "untag"]
      /\ copy'[c] = [points |-> r.sum, tier |-> t]
      /\ \A x \in Customer : x # c => copy'[x] = copy[x]
      /\ told'[c] = IF told[c] > t THEN t ELSE told[c]
      /\ \A x \in Customer : x # c => told'[x] = told[x]
      /\ UNCHANGED <<case, entry, adjust>>
  BY <1>1, PublishDoes
<1>3. Form(r) /\ c \in Customer /\ t \in Tier BY <1>1, <1>2 DEF RefreshRun
<1>4. Whom(r) = c /\ t = TierOf(r.sum) BY <1>1 DEF Whom, Who, NewTier
<1>5. /\ Whom(q) = c /\ q.todo = r.todo /\ q.sum = r.sum /\ q.was = r.was /\ q.pc = "untag"
  <2>1. q = [pc |-> "untag", order |-> r.order, load |-> r.load, who |-> r.who, points |-> r.points,
             todo |-> r.todo, sum |-> r.sum, was |-> r.was, had |-> r.had, names |-> r.names]
    BY <1>2, <1>3 DEF Form
  <2> QED BY <1>4, <2>1 DEF Whom
<1>6. r.sum = CustomerPoints(c)
  <2>1. CopyRun(r) BY <1>1 DEF Refreshed
  <2> QED BY <2>1, <1>2, <1>4 DEF CopyRun
<1>7. Unrisen(r) BY <1>1 DEF RisesSound
<1>8. r.was = copy[c].tier
  <2>1. ~Allowed("overlap") BY DEF Calm, Only, Allowed
  <2>2. ToldRun(r) BY <1>1, <2>1 DEF ToldSound
  <2> QED BY <1>2, <1>4, <2>2 DEF ToldRun
<1>9. told[c] = copy[c].tier
  <2>1. ~Telling(r, c) BY <1>2 DEF Telling
  <2>2. \A x \in Slot : x # s => ~Telling(run[x], c) BY DEF Solo, Busy, Telling
  <2> QED BY <1>1, <1>3, <2>1, <2>2 DEF RisesSound
<1>10. r.todo \in Seq(TodoRec) /\ 1 \in DOMAIN r.todo /\ r.todo[1] = Head(r.todo) /\ r.todo[1].customer = c
  <2>1. r.todo \in Seq(TodoRec) /\ r.todo # <<>> BY <1>1, <1>2 DEF RefreshRun
  <2> QED BY <1>4, <2>1 DEF Whom
<1>11. /\ told[c] \in Int /\ t \in Int /\ told'[c] \in Int
       /\ \A x \in Customer : copy[x].tier \in Int
  <2>1. Len(Floors) \in Nat BY LoyaltyPointsAssumption
  <2>2. Tier \subseteq Int BY <2>1 DEF Tier
  <2>3. told[c] \in Int /\ t \in Int /\ \A x \in Customer : copy[x].tier \in Int
    BY <1>3, <2>2 DEF TypeInv, Tables
  <2> QED BY <1>2, <2>3
<1>12. told'[c] = t \/ Telling(q, c)
  <2>1. CASE t <= told[c] BY <1>2, <1>11, <2>1
  <2>2. CASE ~(t <= told[c])
    <3>1. Head(r.todo).mail
      <4>1. r.todo[1].mail \/ TierOf(CustomerPoints(c)) <= copy[c].tier
        BY <1>2, <1>7, <1>10 DEF Unrisen, Refreshes
      <4> QED BY <1>4, <1>6, <1>9, <1>10, <2>2, <4>1
    <3>2. t > q.was BY <1>5, <1>8, <1>9, <1>11, <2>2
    <3>3. TierOf(q.sum) > q.was BY <1>4, <1>5, <3>2
    <3> QED BY <1>5, <3>1, <3>3 DEF Telling
  <2> QED BY <2>1, <2>2
<1>13. ASSUME NEW x \in Customer, told[x] = copy[x].tier \/ Telling(run[s], x)
       PROVE  told'[x] = copy'[x].tier \/ Telling(run'[s], x)
  <2>1. CASE x = c
    <3>1. copy'[c].tier = t BY <1>2
    <3> QED BY <1>1, <1>12, <2>1, <3>1
  <2>2. CASE x # c
    <3>1. ~Telling(r, x) BY <1>2 DEF Telling
    <3>2. told[x] = copy[x].tier BY <1>1, <1>13, <3>1
    <3> QED BY <1>2, <2>2, <3>2
  <2> QED BY <2>1, <2>2
<1>14. ASSUME NEW i \in DOMAIN q.todo
       PROVE  q.todo[i].mail \/ TierOf(CustomerPoints(q.todo[i].customer)') <= copy'[q.todo[i].customer].tier
  <2>1. PICK x : x = q.todo[i].customer OBVIOUS
  <2>2. CustomerPoints(x)' = CustomerPoints(x) BY <1>2, SameFigures
  <2>3. x \in Customer
    <3>1. q.todo[i] \in TodoRec BY <1>5, <1>10
    <3> QED BY <2>1, <3>1 DEF TodoRec
  <2>4. CASE x = c
    <3>1. TierOf(CustomerPoints(x)') = t /\ copy'[x].tier = t BY <1>2, <1>4, <1>6, <2>2, <2>4
    <3>2. t <= t BY <1>11
    <3> QED BY <2>1, <3>1, <3>2
  <2>5. CASE x # c
    <3>1. q.todo[i].mail \/ TierOf(CustomerPoints(x)) <= copy[x].tier
      BY <1>2, <1>5, <1>7, <2>1 DEF Unrisen, Refreshes
    <3>2. copy'[x] = copy[x] BY <1>2, <2>3, <2>5
    <3> QED BY <2>1, <2>2, <3>1, <3>2
  <2> QED BY <2>4, <2>5
<1>15. Unrisen(run[s])' BY <1>1, <1>14 DEF Unrisen, TierOf
<1> QED BY <1>2, <1>13, <1>15, RiseStep

LEMMA MailRises ==
  ASSUME TypeInv, Refreshed, RisesSound, Calm, NEW s \in Slot, Solo(s), Mail(s)
  PROVE  RisesSound'
<1>1. PICK c, t, r : c = Who(s) /\ t = NewTier(s) /\ r = run[s] OBVIOUS
<1>2. /\ r.pc = "mail" /\ RefreshRun(s) /\ run'[s] = Refreshing(s, Tail(run[s].todo))
      /\ \A x \in Customer : x # c => told'[x] = told[x]
      /\ UNCHANGED <<case, entry, adjust, copy>>
  BY <1>1, MailDoes
<1>3. c \in Customer /\ Whom(r) = c /\ t = TierOf(r.sum) BY <1>1, <1>2 DEF RefreshRun, Whom, Who, NewTier
<1>4. told' = IF Rises(s) THEN [told EXCEPT ![c] = t] ELSE told BY <1>1 DEF Mail
<1>5. told \in [Customer -> Tier] BY DEF TypeInv, Tables
<1>6. copy[c].tier = t
  <2>1. CopyRun(r) BY <1>1 DEF Refreshed
  <2>2. copy[c] = [points |-> r.sum, tier |-> TierOf(r.sum)] BY <1>2, <1>3, <2>1 DEF CopyRun
  <2> QED BY <1>3, <2>2
<1>7. ASSUME NEW x \in Customer, told[x] = copy[x].tier \/ Telling(run[s], x)
      PROVE  told'[x] = copy'[x].tier \/ Telling(run'[s], x)
  <2>1. CASE x # c
    <3>1. ~Telling(r, x) BY <1>3, <2>1 DEF Telling
    <3>2. told[x] = copy[x].tier BY <1>1, <1>7, <3>1
    <3> QED BY <1>2, <2>1, <3>2
  <2>2. CASE x = c
    <3>1. CASE Rises(s) BY <1>2, <1>3, <1>4, <1>5, <1>6, <2>2, <3>1
    <3>2. CASE ~Rises(s)
      <4>1. ~Telling(run[s], c) BY <1>1, <3>2 DEF Telling, Rises, NewTier
      <4>2. told' = told BY <1>4, <3>2
      <4> QED BY <1>2, <1>7, <2>2, <4>1, <4>2
    <3> QED BY <3>1, <3>2
  <2> QED BY <2>1, <2>2
<1>8. Unrisen(run[s])'
  <2>1. Unrisen(run[s]) BY DEF RisesSound
  <2>2. run[s].pc \in Refreshes BY <1>1, <1>2 DEF Refreshes
  <2> QED BY <1>2, <2>1, <2>2, UnrisenTail
<1> QED BY <1>2, <1>7, <1>8, RiseStep

LEMMA SweepRises ==
  ASSUME TypeInv, TypeInv', Refreshed, RisesSound, Calm, Solo(Sweep), SweepStart
  PROVE  RisesSound'
<1>1. /\ CanStart(Sweep) /\ run'[Sweep].pc \in {"names", "sum"} /\ Sweep \in Slot
      /\ UNCHANGED <<case, entry, adjust, copy, told>>
  BY SweepStartDoes, Slots
<1>2. PICK q : q = run'[Sweep] OBVIOUS
<1>3. run[Sweep].pc = "idle" BY <1>1 DEF CanStart, Busy
<1>4. ASSUME q.pc \in Refreshes, NEW i \in DOMAIN q.todo
      PROVE  TierOf(CustomerPoints(q.todo[i].customer)') <= copy'[q.todo[i].customer].tier
  <2>1. PICK c : c = q.todo[i].customer OBVIOUS
  <2>2. c \in Customer
    <3>1. q.todo \in Seq(TodoRec)
      <4>1. q.pc = "sum" BY <1>1, <1>2, <1>4 DEF Refreshes
      <4>2. RunOK(Sweep, q) BY <1>2, SweepStartDoes
      <4> QED BY <4>1, <4>2 DEF RunOK, Idle
    <3>2. q.todo[i] \in TodoRec BY <1>4, <3>1
    <3> QED BY <2>1, <3>2 DEF TodoRec
  <2>3. copy[c].tier = TierOf(CustomerPoints(c))
    <3>1. \A x \in Slot : x # Sweep => ~Busy(x) BY DEF Solo
    <3>2. run[Sweep].pc \notin Refreshes BY <1>3 DEF Refreshes
    <3> QED BY <1>1, <2>2, <3>1, <3>2, CopiesRight
  <2>4. CustomerPoints(c)' = CustomerPoints(c) BY <1>1, SameFigures
  <2>5. copy[c].tier \in Int
    <3>1. Len(Floors) \in Nat BY LoyaltyPointsAssumption
    <3> QED BY <2>2, <3>1 DEF TypeInv, Tables, Tier
  <2> QED BY <1>1, <2>1, <2>3, <2>4, <2>5
<1>5. Unrisen(run[Sweep])' BY <1>2, <1>4 DEF Unrisen, TierOf, Refreshes
<1> QED BY <1>1, <1>3, <1>5, RiseIdle

LEMMA NextRises ==
  ASSUME TypeInv, Alone, Refreshed, ToldSound, RisesSound, [Next]_vars
  PROVE  RisesSound'
<1>1. case' = case /\ TypeInv' BY SameCase, NextTypes
<1>2. CASE ~Calm BY <1>1, <1>2 DEF RisesSound, Calm, Only
<1>3. CASE UNCHANGED <<case, entry, adjust, copy, told, run>>
  <2> SUFFICES ASSUME Calm
               PROVE  /\ \A s \in Slot : Unrisen(run[s])'
                      /\ \A c \in Customer : told'[c] = copy'[c].tier \/ \E s \in Slot : Telling(run[s], c)'
    BY <1>1 DEF RisesSound, Calm, Only
  <2>1. ASSUME NEW s \in Slot PROVE Unrisen(run[s])'
    <3>1. Unrisen(run[s]) BY DEF RisesSound
    <3>2. CASE run[s].pc \in Refreshes BY <1>3, <3>1, <3>2, UnrisenOn
    <3>3. CASE run[s].pc \notin Refreshes
      <4>1. run'[s].pc \notin Refreshes BY <1>3, <3>3
      <4> HIDE DEF Refreshes
      <4> QED BY <4>1, UnrisenElsewhere
    <3> QED BY <3>2, <3>3
  <2>2. ASSUME NEW c \in Customer PROVE told'[c] = copy'[c].tier \/ \E s \in Slot : Telling(run[s], c)'
    <3>1. told[c] = copy[c].tier \/ \E s \in Slot : Telling(run[s], c) BY DEF RisesSound
    <3>2. \A s \in Slot : Telling(run[s], c) => Telling(run[s], c)' BY <1>3 DEF Telling, Whom
    <3> QED BY <1>3, <3>1, <3>2
  <2> QED BY <2>1, <2>2
<1>4. CASE Calm /\ Next
  <2>0. Sweep \in Slot /\ Admin \in Slot /\ Job \in Slot /\ Order \subseteq Slot BY Slots
  <2>00. /\ ~Allowed("overlap") /\ ~Allowed("staff") /\ ~Allowed("fault")
         /\ ~Busy(Admin) /\ ~Busy(Job)
    BY <1>4 DEF Calm, Only, Allowed, Refreshed
  <2>1. ASSUME NEW o \in Order, OrderStep(o) \/ Recall(o) \/ \E i \in DOMAIN post[o] : Deliver(o, i)
        PROVE  UNCHANGED <<case, entry, adjust, copy, told, run>>
    BY <2>1 DEF OrderStep, Place, Refund, StoreRefund, RedeemNote, Redeliver, Move, Change, Recall, Deliver
  <2>2. ASSUME NEW o \in Order, Fire(o) PROVE RisesSound'
    <3>1. PICK r : r = Earning(o, timer[o]) OBVIOUS
    <3>2. OnlySlot(o) /\ run'[o] = r /\ CanStart(o) BY <2>0, <2>2, <3>1, RunChanges DEF Fire, TypeInv
    <3>3. run'[o].pc = "settle" /\ run[o].pc = "idle" BY <3>1, <3>2 DEF Earning, Start, CanStart, Busy
    <3>4. UNCHANGED <<case, copy, told>> BY <2>2 DEF Fire
    <3>5. Solo(o) BY <2>0, <2>00, <3>2, SoloStep
    <3>6. Unrisen(run[o])' BY <3>3, UnrisenElsewhere DEF Refreshes
    <3> QED BY <1>4, <2>0, <3>3, <3>4, <3>5, <3>6, RiseIdle
  <2>3. ~(\E c \in Customer : RefreshOne(c) \/ \E n \in {-1, 1} : Adjust(c, n))
    BY <2>00 DEF RefreshOne, Adjust
  <2>4. ~Backfill /\ ~AddAdjustment /\ ~WriteRow BY <2>00 DEF Backfill, AddAdjustment, WriteRow, Busy
  <2>5. CASE SweepStart \/ Names \/ Recheck
    <3>1. /\ OnlySlot(Sweep) /\ (Busy(Sweep) \/ CanStart(Sweep))
          /\ UNCHANGED <<case, copy, told>>
      <4>1. CASE SweepStart BY <4>1, SweepStartDoes
      <4>2. CASE Names BY <4>2, NamesDoes DEF Names
      <4>3. CASE Recheck BY <4>3, RecheckDoes DEF Recheck
      <4> QED BY <2>5, <4>1, <4>2, <4>3
    <3>2. Solo(Sweep) BY <2>0, <2>00, <2>5, <3>1, SoloStep, SweepStartDoes, NamesDoes, RecheckDoes
    <3>3. CASE SweepStart BY <1>1, <1>4, <3>2, <3>3, SweepRises
    <3>4. CASE Names \/ Recheck
      <4>1. run[Sweep].pc \in {"names", "recheck"} /\ run'[Sweep].pc \in {"recheck", "idle", "settle"}
        BY <3>4, NamesDoes, RecheckDoes
      <4>2. Unrisen(run[Sweep])' BY <4>1, UnrisenElsewhere DEF Refreshes
      <4> QED BY <1>4, <2>0, <3>1, <3>2, <4>1, <4>2, RiseIdle
    <3> QED BY <2>5, <3>3, <3>4
  <2>6. ASSUME NEW s \in Slot, Settle(s) \/ Figure(s) \/ Prior(s) \/ Upsert(s)
        PROVE  RisesSound'
    <3>1. OnlySlot(s) /\ Busy(s) BY <2>6, SettleDoes, FigureDoes, PriorDoes, UpsertDoes
    <3>2. Solo(s) BY <2>00, <3>1, SoloStep
    <3> QED BY <1>1, <1>4, <2>6, <3>2, EarnRises, UpsertRises
  <2>7. ASSUME NEW s \in Slot, Sum(s) \/ Look(s) \/ Publish(s) \/ Untag(s) \/ AddTag(s) \/ Mail(s)
        PROVE  RisesSound'
    <3>1. OnlySlot(s) /\ RefreshRun(s)
      BY <2>7, SumDoes, LookDoes, PublishDoes, UntagDoes, AddTagDoes, MailDoes
    <3>2. Busy(s) BY <3>1 DEF RefreshRun
    <3>3. Solo(s) BY <2>00, <3>1, <3>2, SoloStep
    <3> QED BY <1>4, <2>7, <3>3, RiseOn, PublishRises, MailRises
  <2>8. ~(\E s \in Slot : Fails(s)) /\ ~Restart BY <2>00 DEF Fails, Restart
  <2> QED BY <1>3, <1>4, Steps, <2>1, <2>2, <2>3, <2>4, <2>5, <2>6, <2>7, <2>8
<1>5. CASE UNCHANGED vars
  <2>1. UNCHANGED <<case, entry, adjust, copy, told, run>> BY <1>5 DEF vars
  <2> QED BY <1>3, <2>1
<1> QED BY <1>2, <1>4, <1>5

\* RisesTold, for any orders, customers and tiers: every rise is mailed, once.
THEOREM RisesToldHolds == Spec => RisesTold
<1> DEFINE Inv == IndInv /\ ToldSound /\ RisesSound
<1>1. Init => Inv
  <2> SUFFICES ASSUME Init PROVE Inv
    OBVIOUS
  <2>1. run = [s \in Slot |-> Idle] BY DEF Init
  <2>2. \A s \in Slot : run[s].pc = "idle" BY <2>1 DEF Idle
  <2>3. \A c \in Customer : told[c] = 0 /\ copy[c].tier = 0 BY DEF Init
  <2>4. ToldSound BY <2>2, <2>3 DEF ToldSound, ToldRun
  <2>5. \A s \in Slot : Unrisen(run[s]) BY <2>2 DEF Unrisen, Refreshes
  <2>6. RisesSound BY <2>3, <2>5 DEF RisesSound
  <2> QED BY <2>4, <2>6, InitAgrees
<1>2. Inv /\ [Next]_vars => Inv'
  BY NextAgrees, NextTold, NextRises DEF IndInv
<1>3. Inv => RiseIsTold
  <2> SUFFICES ASSUME Inv, Calm, Quiet, NEW c \in Customer PROVE told[c] = copy[c].tier
    BY DEF RiseIsTold, Calm
  <2>1. \A s \in Slot : ~Telling(run[s], c) BY DEF Quiet, Busy, Telling
  <2> QED BY <2>1 DEF RisesSound
<1>4. Spec => ToldOnce BY ToldOnceHolds
<1> HIDE DEF Inv
<1>5. Spec => []RiseIsTold BY <1>1, <1>2, <1>3, PTL DEF Spec
<1> QED BY <1>4, <1>5 DEF RisesTold

=============================================================================
