---------------------------- MODULE SerialProofs ----------------------------
(***************************************************************************)
(* Theorems about Serial, for any sets of stores, documents and passes and *)
(* any bound on edits and failures.                                        *)
(***************************************************************************)
EXTENDS Serial, TLAPS

USE ClassAssumption, BoundAssumption, NoneAssumption

TypeInv == TypeOK /\ StepData

\* Finish and Goto keep the types of the variables of a pass.
LEMMA FinishTypes ==
    ASSUME TypeInv, NEW p \in Pass, Finish(p)
    PROVE  /\ numbering' \subseteq Locked
           /\ pc' \in [Pass -> Step]
           /\ doc' \in [Pass -> Doc \cup {None}]
           /\ at' \in [Pass -> Store \cup {None}]
           /\ seen' \in [Pass -> Row \cup {None}]
           /\ got' \in [Pass -> Number \cup {None}]
           /\ StepData'
  BY DEF TypeInv, TypeOK, StepData, Finish, Step

\* A row written with a number is a row.
LEMMA SetRowTypes ==
    ASSUME TypeInv, NEW d \in Doc, NEW n \in Number, SetRow(d, n)
    PROVE  ledger' \in [Doc -> Row \cup {None}]
  BY DEF TypeInv, TypeOK, SetRow, Number, Row

\* The end of a re-issue keeps the types, whether or not the row moved.
LEMMA MoveTypes ==
    ASSUME TypeInv, NEW p \in Pass, pc[p] = "move", NEW updated \in BOOLEAN,
           AfterMove(p, updated), UNCHANGED ledger \/ SetRow(doc[p], got[p])
    PROVE  /\ ledger' \in [Doc -> Row \cup {None}]
           /\ printed' \in [Doc -> Number \cup {None}]
           /\ numbering' \subseteq Locked
           /\ pc' \in [Pass -> Step]
           /\ doc' \in [Pass -> Doc \cup {None}]
           /\ at' \in [Pass -> Store \cup {None}]
           /\ seen' \in [Pass -> Row \cup {None}]
           /\ got' \in [Pass -> Number \cup {None}]
           /\ StepData'
<1>0. doc[p] \in Doc /\ got[p] \in Number
  BY DEF TypeInv, TypeOK, StepData
<1>1. ledger' \in [Doc -> Row \cup {None}]
  BY <1>0, SetRowTypes DEF TypeInv, TypeOK
<1>2. CASE doc[p] \in Manual
  BY <1>0, <1>1, <1>2, FinishTypes DEF AfterMove, Reply, TypeInv, TypeOK
<1>3. CASE doc[p] \notin Manual
  BY <1>0, <1>1, <1>3 DEF AfterMove, Goto, TypeInv, TypeOK, StepData, Step
<1> QED BY <1>2, <1>3

\* The initial state is well typed.
LEMMA InitTypes == Init => TypeInv
  BY DEF Init, TypeInv, TypeOK, StepData, Step, Locked

\* Every step keeps the types.
LEMMA NextTypes == TypeInv /\ [Next]_vars => TypeInv'
<1> SUFFICES ASSUME TypeInv, [Next]_vars PROVE TypeInv'
  OBVIOUS
<1>1. ASSUME NEW p \in Pass, NEW d \in Doc, StartOrder(p, d) PROVE TypeInv'
  BY <1>1 DEF TypeInv, TypeOK, StepData, StartOrder, Start, Step, db, shop, Locked
<1>2. ASSUME NEW p \in Pass, NEW d \in Doc, StartDraft(p, d) PROVE TypeInv'
  BY <1>2 DEF TypeInv, TypeOK, StepData, StartDraft, Start, Step, db, shop, Locked
<1>3. ASSUME NEW p \in Pass, NEW d \in Doc, StartManual(p, d) PROVE TypeInv'
  BY <1>3 DEF TypeInv, TypeOK, StepData, StartManual, Start, Step, db, shop
<1>4. ASSUME NEW p \in Pass, NEW d \in Doc, StartNote(p, d) PROVE TypeInv'
  BY <1>4 DEF TypeInv, TypeOK, StepData, StartNote, Start, Step, db, shop
<1>5. ASSUME NEW p \in Pass, ReadMetafields(p) PROVE TypeInv'
  <2>1. CASE NotToMint(doc[p])
    BY <1>5, <2>1, FinishTypes DEF TypeInv, TypeOK, ReadMetafields, db, shop
  <2>2. CASE ~NotToMint(doc[p])
    BY <1>5, <2>2 DEF TypeInv, TypeOK, StepData, ReadMetafields, NotToMint, Goto, Step, db, shop
  <2> QED BY <2>1, <2>2
<1>6. ASSUME NEW p \in Pass, Lookup(p) PROVE TypeInv'
  <2>0. doc[p] \in Doc /\ ledger[doc[p]] \in Row \cup {None}
    BY <1>6 DEF Lookup, TypeInv, TypeOK, StepData
  <2>1. CASE Goto(p, "draw") /\ UNCHANGED <<printed, at, seen, got>>
    BY <1>6, <2>0, <2>1 DEF TypeInv, TypeOK, StepData, Lookup, Goto, Step, db
  <2>2. CASE Finish(p) /\ ledger[doc[p]] # None
    BY <1>6, <2>0, <2>2, FinishTypes
       DEF TypeInv, TypeOK, Lookup, Reply, NumberOf, Row, Number, db
  <2>3. CASE /\ Goto(p, "rewind") /\ ledger[doc[p]] # None
             /\ seen' = [seen EXCEPT ![p] = ledger[doc[p]]]
             /\ UNCHANGED <<printed, at, got>>
    BY <1>6, <2>0, <2>3 DEF TypeInv, TypeOK, StepData, Lookup, Goto, Step, db
  <2> QED BY <1>6, <2>1, <2>2, <2>3 DEF Lookup
<1>7. ASSUME NEW p \in Pass, Rewind(p) PROVE TypeInv'
  BY <1>7 DEF TypeInv, TypeOK, StepData, Rewind, RewindIfTip, Row, Goto, Step, shop
<1>8. ASSUME NEW p \in Pass, Redraw(p) PROVE TypeInv'
  BY <1>8 DEF TypeInv, TypeOK, StepData, Redraw, Allocate, Number, Goto, Step, shop
<1>9. ASSUME NEW p \in Pass, Move(p) PROVE TypeInv'
  <2>1. CASE AfterMove(p, TRUE) /\ SetRow(doc[p], got[p])
    BY <1>9, <2>1, MoveTypes DEF Move, TypeInv, TypeOK
  <2>2. CASE AfterMove(p, FALSE) /\ UNCHANGED ledger
    BY <1>9, <2>2, MoveTypes DEF Move, TypeInv, TypeOK
  <2> QED BY <1>9, <2>1, <2>2 DEF Move
<1>10. ASSUME NEW p \in Pass, Draw(p) PROVE TypeInv'
  BY <1>10 DEF TypeInv, TypeOK, StepData, Draw, Allocate, Number, Goto, Step, shop
<1>11. ASSUME NEW p \in Pass, Record(p) PROVE TypeInv'
  <2>0. pc[p] = "record" /\ doc[p] \in Doc /\ got[p] \in Number
    BY <1>11 DEF Record, TypeInv, TypeOK, StepData
  <2>1. CASE Goto(p, "handback") /\ UNCHANGED <<ledger, printed, at, seen, got>>
    BY <1>11, <2>0, <2>1 DEF TypeInv, TypeOK, StepData, Record, Goto, Step
  <2>2. CASE SetRow(doc[p], got[p]) /\ Finish(p) /\ Reply(doc[p], got[p])
    BY <1>11, <2>0, <2>2, FinishTypes, SetRowTypes DEF TypeInv, TypeOK, Record, Reply
  <2>3. CASE /\ SetRow(doc[p], got[p]) /\ Goto(p, "stamp")
             /\ UNCHANGED <<printed, at, seen, got>>
    BY <1>11, <2>0, <2>3, SetRowTypes DEF TypeInv, TypeOK, StepData, Record, Goto, Step
  <2> QED BY <1>11, <2>1, <2>2, <2>3 DEF Record
<1>12. ASSUME NEW p \in Pass, HandBack(p) PROVE TypeInv'
  <2>1. got[p].store \in Store /\ got[p].seq \in Nat \ {0}
    BY <1>12 DEF HandBack, TypeInv, StepData, Number
  <2>2. counter' \in [Store -> Nat]
    BY <1>12, <2>1 DEF TypeInv, TypeOK, HandBack, RewindIfTip
  <2> QED BY <1>12, <2>2 DEF TypeInv, TypeOK, StepData, HandBack, Goto, Step, shop
<1>13. ASSUME NEW p \in Pass, Winner(p) PROVE TypeInv'
  <2>1. Winners(p) \subseteq {e \in Doc : Recorded(e)}
    BY <1>13 DEF Winner, Winners, TypeInv, TypeOK, StepData, Doc
  <2>2. printed' \in [Doc -> Number \cup {None}]
    BY <1>13, <2>1 DEF Winner, Reply, NumberOf, Recorded, TypeInv, TypeOK, StepData, Row, Number
  <2> QED BY <1>13, <2>2, FinishTypes DEF Winner, TypeInv, TypeOK, db
<1>14. ASSUME NEW p \in Pass, Stamp(p) PROVE TypeInv'
  BY <1>14, FinishTypes DEF Stamp, Reply, TypeInv, TypeOK, StepData, db
<1>15. ASSUME NEW p \in Pass, CallFails(p) PROVE TypeInv'
  <2> DEFINE Skip(from, to) ==
        pc[p] = from /\ Goto(p, to) /\ UNCHANGED <<printed, at, seen, got>>
  <2>0. faults' \in 0..MaxFaults /\ UNCHANGED <<counter, ledger, place, edits>>
    BY <1>15 DEF CallFails, Fault, TypeInv, TypeOK, db
  <2>1. CASE Finish(p) /\ UNCHANGED printed
    BY <2>0, <2>1, FinishTypes DEF TypeInv, TypeOK
  <2>2. CASE Skip("lookup", "draw") \/ Skip("rewind", "redraw")
    BY <2>0, <2>2 DEF TypeInv, TypeOK, StepData, Goto, Step
  <2>3. CASE Skip("record", "handback") \/ Skip("handback", "winner")
    BY <2>0, <2>3 DEF TypeInv, TypeOK, StepData, Goto, Step
  <2>4. CASE pc[p] = "move" /\ AfterMove(p, FALSE)
    BY <2>0, <2>4, MoveTypes DEF TypeInv, TypeOK
  <2> QED BY <1>15, <2>1, <2>2, <2>3, <2>4 DEF CallFails
<1>16. ASSUME NEW p \in Pass, ReplyLost(p) PROVE TypeInv'
  <2>0. faults' \in 0..MaxFaults /\ UNCHANGED <<place, edits>>
    BY <1>16 DEF ReplyLost, Fault, TypeInv, TypeOK
  <2>1. CASE /\ pc[p] \in {"draw", "redraw"} /\ Finish(p)
             /\ counter' = [counter EXCEPT ![at[p]] = @ + 1]
             /\ UNCHANGED <<ledger, printed>>
    BY <2>0, <2>1, FinishTypes DEF TypeInv, TypeOK, StepData
  <2>2. CASE /\ pc[p] = "record" /\ SetRow(doc[p], got[p]) /\ Goto(p, "handback")
             /\ UNCHANGED <<counter, printed, at, seen, got>>
    BY <2>0, <2>2, SetRowTypes DEF TypeInv, TypeOK, StepData, Goto, Step
  <2>3. CASE /\ pc[p] = "move" /\ SetRow(doc[p], got[p]) /\ AfterMove(p, FALSE)
             /\ UNCHANGED counter
    BY <2>0, <2>3, MoveTypes DEF TypeInv, TypeOK
  <2> QED BY <1>16, <2>1, <2>2, <2>3 DEF ReplyLost
<1>17. CASE Restart
  BY <1>17 DEF Restart, Fault, TypeInv, TypeOK, StepData, Step, db, shop
<1>18. ASSUME NEW d \in Doc, NEW s \in Store, EnterStore(d, s) \/ CorrectStore(d, s)
       PROVE TypeInv'
  BY <1>18 DEF EnterStore, CorrectStore, Edit, TypeInv, TypeOK, StepData, db, job
<1>19. ASSUME NEW d \in Doc, Cancel(d) PROVE TypeInv'
  <2>1. ledger' \in [Doc -> Row \cup {None}]
    BY <1>19 DEF Cancel, Recorded, TypeInv, TypeOK, Row
  <2> QED BY <1>19, <2>1 DEF Cancel, Edit, TypeInv, TypeOK, StepData, shop, job
<1>20. CASE UNCHANGED vars
  BY <1>20 DEF vars, TypeInv, TypeOK, StepData
<1> QED
  BY <1>1, <1>2, <1>3, <1>4, <1>5, <1>6, <1>7, <1>8, <1>9, <1>10, <1>11, <1>12,
     <1>13, <1>14, <1>15, <1>16, <1>17, <1>18, <1>19, <1>20 DEF Next, PassStep

\* The state is always well typed, and a pass always knows the document, the
\* store, the row and the number its next call needs.
THEOREM TypeCorrect == Spec => [](TypeOK /\ StepData)
<1>1. Init => TypeInv
  BY InitTypes
<1>2. TypeInv /\ [Next]_vars => TypeInv'
  BY NextTypes
<1> QED BY <1>1, <1>2, PTL DEF Spec, TypeInv

--------------------
\* The steps that start a pass.
StartStep(p, d) ==
    StartOrder(p, d) \/ StartDraft(p, d) \/ StartManual(p, d) \/ StartNote(p, d)

\* A step starts a pass, ends one, restarts the process, or leaves every pass
\* at its document and every lock alone.
LEMMA LockSteps ==
    ASSUME [Next]_vars
    PROVE  \/ \E p \in Pass, d \in Doc : StartStep(p, d)
           \/ \E p \in Pass : Finish(p)
           \/ Restart
           \/ UNCHANGED <<doc, numbering>>
<1>1. ASSUME NEW p \in Pass, PassStep(p)
      PROVE  Finish(p) \/ UNCHANGED <<doc, numbering>>
  BY <1>1 DEF PassStep, ReadMetafields, Lookup, Rewind, Redraw, Move, AfterMove,
              Draw, Record, HandBack, Winner, Stamp, Goto
<1>2. ASSUME NEW p \in Pass, CallFails(p) \/ ReplyLost(p)
      PROVE  Finish(p) \/ UNCHANGED <<doc, numbering>>
  BY <1>2 DEF CallFails, ReplyLost, AfterMove, Goto
<1>3. ASSUME NEW d \in Doc, NEW s \in Store,
             EnterStore(d, s) \/ CorrectStore(d, s)
      PROVE  UNCHANGED <<doc, numbering>>
  BY <1>3 DEF EnterStore, CorrectStore, job
<1>4. ASSUME NEW d \in Doc, Cancel(d)
      PROVE  UNCHANGED <<doc, numbering>>
  BY <1>4 DEF Cancel, job
<1> QED BY <1>1, <1>2, <1>3, <1>4 DEF Next, StartStep, vars

\* No step breaks the lock.
LEMMA NextOnePass ==
    ASSUME TypeInv, OnePass, [Next]_vars PROVE OnePass'
<1>0. None \notin Locked
  BY DEF Locked, Doc
<1>1. ASSUME NEW p \in Pass, NEW d \in Doc, StartStep(p, d) PROVE OnePass'
  <2>1. /\ pc[p] = "idle" /\ doc[p] = None
        /\ doc' = [doc EXCEPT ![p] = d]
    BY <1>1 DEF StartStep, StartOrder, StartDraft, StartManual, StartNote, Start,
                TypeInv, StepData
  <2>2. d \in Locked => d \notin numbering
    BY <1>1 DEF StartStep, StartOrder, StartDraft, StartManual, StartNote, Locked
  <2>3. numbering' = numbering \cup ({d} \cap Locked)
    BY <1>1 DEF StartStep, StartOrder, StartDraft, StartManual, StartNote, Locked
  <2> QED BY <1>0, <2>1, <2>2, <2>3 DEF OnePass, TypeInv, TypeOK
<1>2. ASSUME NEW p \in Pass, Finish(p) PROVE OnePass'
  BY <1>0, <1>2 DEF Finish, OnePass, TypeInv, TypeOK
<1>3. CASE Restart
  BY <1>0, <1>3 DEF Restart, OnePass
<1>4. CASE UNCHANGED <<doc, numbering>>
  BY <1>4 DEF OnePass
<1> QED BY <1>1, <1>2, <1>3, <1>4, LockSteps

\* A document under a lock is numbered by one pass at a time and the lock is
\* held exactly while that pass lives, through failures and restarts.
THEOREM LockHolds == Spec => []OnePass
<1>1. Init => OnePass
  BY DEF Init, OnePass, Locked, Doc
<1>2. TypeInv /\ OnePass /\ [Next]_vars => OnePass'
  BY NextOnePass
<1> QED BY <1>1, <1>2, TypeCorrect, PTL DEF Spec, TypeInv

\* The state is well typed and no two passes work on a locked document.
THEOREM PassesSoundHolds == Spec => []PassesSound
BY TypeCorrect, LockHolds, PTL DEF PassesSound

\* printed changes only at the stamp of a pass or in the answer to the caller
\* of a hand-raised document or a note.
LEMMA PrintedSteps ==
    ASSUME TypeInv, [Next]_vars
    PROVE  \/ UNCHANGED printed
           \/ \E p \in Pass : Stamp(p)
           \/ \E p \in Pass :
                 /\ doc[p] \in Manual \cup Note
                 /\ \E n \in Number : Reply(doc[p], n)
<1> DEFINE Answers(p) == /\ doc[p] \in Manual \cup Note
                         /\ \E n \in Number : Reply(doc[p], n)
<1>0. \A d \in Doc : Recorded(d) => NumberOf(ledger[d]) \in Number
  BY DEF TypeInv, TypeOK, Recorded, NumberOf, Row, Number
<1>1. ASSUME NEW p \in Pass, NEW d \in Doc, StartStep(p, d) PROVE UNCHANGED printed
  BY <1>1 DEF StartStep, StartOrder, StartDraft, StartManual, StartNote, Start, shop
<1>2. ASSUME NEW p \in Pass, ReadMetafields(p) \/ Rewind(p) \/ Redraw(p) \/ Draw(p)
                             \/ HandBack(p)
      PROVE  UNCHANGED printed
  BY <1>2 DEF ReadMetafields, Rewind, Redraw, Draw, HandBack, shop
<1>3. ASSUME NEW p \in Pass, Lookup(p) PROVE UNCHANGED printed \/ Answers(p)
  <2>1. doc[p] \in Doc
    BY <1>3 DEF Lookup, TypeInv, TypeOK, StepData
  <2> QED BY <1>0, <1>3, <2>1 DEF Lookup, Recorded
<1>4. ASSUME NEW p \in Pass, Move(p) \/ Record(p) PROVE UNCHANGED printed \/ Answers(p)
  <2>1. got[p] \in Number
    BY <1>4 DEF Move, Record, TypeInv, StepData
  <2> QED BY <1>4, <2>1 DEF Move, AfterMove, Record
<1>5. ASSUME NEW p \in Pass, Winner(p) PROVE UNCHANGED printed \/ Answers(p)
  <2>1. doc[p] \in Doc /\ (\A e \in Winners(p) : e \in Doc /\ Recorded(e))
    BY <1>5 DEF Winner, Winners, Doc, TypeInv, TypeOK, StepData
  <2> QED BY <1>0, <1>5, <2>1 DEF Winner
<1>6. ASSUME NEW p \in Pass, CallFails(p) \/ ReplyLost(p) PROVE UNCHANGED printed
  BY <1>6 DEF CallFails, ReplyLost, AfterMove
<1>7. ASSUME NEW d \in Doc, NEW s \in Store, EnterStore(d, s) \/ CorrectStore(d, s)
      PROVE  UNCHANGED printed
  BY <1>7 DEF EnterStore, CorrectStore
<1>8. ASSUME NEW d \in Doc, Cancel(d) PROVE UNCHANGED printed
  BY <1>8 DEF Cancel, shop
<1>9. Restart => UNCHANGED printed
  BY DEF Restart, shop
<1> QED BY <1>1, <1>2, <1>3, <1>4, <1>5, <1>6, <1>7, <1>8, <1>9
        DEF Next, PassStep, StartStep, vars

\* A step leaves a pass alone, starts it, ends it, or takes it one call on; an
\* order goes on from its read only when it prints nothing.
LEMMA OrderSteps ==
    ASSUME TypeInv, [Next]_vars, NEW p \in Pass,
           doc'[p] \in Order, pc'[p] \notin {"idle", "meta"}
    PROVE  /\ doc[p] = doc'[p]
           /\ \/ pc[p] \notin {"idle", "meta"}
              \/ printed[doc[p]] = None /\ UNCHANGED printed
<1>0. pc'[p] # "idle" /\ doc'[p] # None
  BY DEF Doc
<1>1. ASSUME NEW q \in Pass, NEW d \in Doc, StartStep(q, d)
      PROVE  doc[p] = doc'[p] /\ pc[p] = pc'[p]
  <2>1. CASE q = p
    BY <1>1, <2>1 DEF StartStep, StartOrder, StartDraft, StartManual, StartNote,
                      Start, TypeInv, TypeOK
  <2>2. CASE q # p
    BY <1>1, <2>2 DEF StartStep, StartOrder, StartDraft, StartManual, StartNote,
                      Start, TypeInv, TypeOK
  <2> QED BY <2>1, <2>2
<1>2. ASSUME NEW q \in Pass, Finish(q)
      PROVE  doc[p] = doc'[p] /\ pc[p] = pc'[p]
  BY <1>0, <1>2 DEF Finish, TypeInv, TypeOK
<1>3. ASSUME NEW q \in Pass, NEW step \in Step, Goto(q, step), pc[q] \notin {"idle", "meta"}
      PROVE  doc[p] = doc'[p] /\ pc[p] \notin {"idle", "meta"}
  BY <1>3 DEF Goto, TypeInv, TypeOK
<1>4. ASSUME NEW q \in Pass, ReadMetafields(q), ~Finish(q)
      PROVE  /\ doc[p] = doc'[p]
             /\ \/ pc[p] \notin {"idle", "meta"}
                \/ printed[doc[p]] = None /\ UNCHANGED printed
  BY <1>4 DEF ReadMetafields, NotToMint, Goto, TypeInv, TypeOK, shop
<1>5. ASSUME NEW q \in Pass, PassStep(q), ~ReadMetafields(q), ~Finish(q)
      PROVE  pc[q] \notin {"idle", "meta"} /\ \E step \in Step : Goto(q, step)
  BY <1>5 DEF PassStep, Lookup, Rewind, Redraw, Move, AfterMove, Draw, Record,
              HandBack, Winner, Stamp, Step
<1>6. ASSUME NEW q \in Pass, CallFails(q) \/ ReplyLost(q), ~Finish(q)
      PROVE  pc[q] \notin {"idle", "meta"} /\ \E step \in Step : Goto(q, step)
  BY <1>6 DEF CallFails, ReplyLost, AfterMove, Step
<1>7. ASSUME NEW d \in Doc, NEW s \in Store,
             EnterStore(d, s) \/ CorrectStore(d, s)
      PROVE  UNCHANGED <<doc, pc>>
  BY <1>7 DEF EnterStore, CorrectStore, job
<1>8. ~Restart
  BY <1>0 DEF Restart
<1>9. ASSUME NEW q \in Pass, PassStep(q) \/ CallFails(q) \/ ReplyLost(q)
      PROVE  /\ doc[p] = doc'[p]
             /\ \/ pc[p] \notin {"idle", "meta"}
                \/ printed[doc[p]] = None /\ UNCHANGED printed
  <2>1. CASE Finish(q)
    BY <1>2, <2>1
  <2>2. CASE ReadMetafields(q) /\ ~Finish(q)
    BY <1>4, <2>2
  <2>3. CASE ~ReadMetafields(q) /\ ~Finish(q)
    <3>1. pc[q] \notin {"idle", "meta"} /\ \E step \in Step : Goto(q, step)
      BY <1>5, <1>6, <1>9, <2>3
    <3> QED BY <1>3, <3>1
  <2> QED BY <2>1, <2>2, <2>3
<1>10. ASSUME NEW d \in Doc, Cancel(d) PROVE UNCHANGED <<doc, pc>>
  BY <1>10 DEF Cancel, job
<1> QED BY <1>1, <1>7, <1>8, <1>9, <1>10 DEF Next, StartStep, vars

\* No step breaks OrderBlank.
LEMMA NextOrderBlank ==
    ASSUME TypeInv, OnePass, OrderBlank, [Next]_vars PROVE OrderBlank'
<1> SUFFICES ASSUME NEW p \in Pass, doc'[p] \in Order, pc'[p] \notin {"idle", "meta"}
             PROVE  printed'[doc'[p]] = None
  BY DEF OrderBlank
<1>1. doc[p] = doc'[p] /\ (printed[doc[p]] = None)
  BY OrderSteps DEF OrderBlank
<1>2. CASE UNCHANGED printed
  BY <1>1, <1>2
<1>3. ASSUME NEW q \in Pass, Stamp(q) PROVE printed'[doc'[p]] = None
  <2>1. q # p
    BY <1>3 DEF Stamp, Finish, TypeInv, TypeOK
  <2>2. doc[q] # doc[p]
    BY <1>1, <2>1 DEF OnePass, Locked
  <2> QED BY <1>1, <1>3, <2>2 DEF Stamp, Reply
<1>4. ASSUME NEW q \in Pass, doc[q] \in Manual \cup Note, NEW n \in Number, Reply(doc[q], n)
      PROVE  printed'[doc'[p]] = None
  BY <1>1, <1>4 DEF Reply
<1> QED BY <1>2, <1>3, <1>4, PrintedSteps

\* A step never replaces the number an order prints.
LEMMA NextPrintsOnce ==
    ASSUME TypeInv, OrderBlank, [Next]_vars,
           NEW d \in Order, printed[d] # None
    PROVE  printed'[d] = printed[d]
<1>1. CASE UNCHANGED printed
  BY <1>1
<1>2. ASSUME NEW q \in Pass, Stamp(q) PROVE printed'[d] = printed[d]
  <2>1. doc[q] # d
    BY <1>2 DEF Stamp, OrderBlank
  <2> QED BY <1>2, <2>1 DEF Stamp, Reply
<1>3. ASSUME NEW q \in Pass, doc[q] \in Manual \cup Note, NEW n \in Number, Reply(doc[q], n)
      PROVE  printed'[d] = printed[d]
  BY <1>3 DEF Reply
<1> QED BY <1>1, <1>2, <1>3, PrintedSteps

\* The number on an order is written once, whatever deliveries, corrections,
\* cancellations, failures and restarts happen.
THEOREM OrderPrintsOnceHolds == Spec => OrderPrintsOnce
<1>1. Init => OrderBlank
  BY DEF Init, OrderBlank
<1>2. TypeInv /\ OnePass /\ OrderBlank /\ [Next]_vars => OrderBlank'
  BY NextOrderBlank
<1>3. Spec => []OrderBlank
  BY <1>1, <1>2, TypeCorrect, LockHolds, PTL DEF Spec, TypeInv
<1>4. TypeInv /\ OrderBlank /\ [Next]_vars
      => [\A d \in Order : printed[d] # None => printed'[d] = printed[d]]_vars
  BY NextPrintsOnce
<1> QED BY <1>3, <1>4, TypeCorrect, PTL DEF Spec, TypeInv, OrderPrintsOnce

--------------------
\* A step after which only first mints were made is no lost answer, no
\* correction and no cancellation, and only first mints were made before it.
LEMMA NoLostReply ==
    ASSUME TypeInv, OnlyFirstMints', NEW p \in Pass PROVE ~ReplyLost(p)
<1>1. faults \in Nat
  BY DEF TypeInv, TypeOK
<1>2. ASSUME Fault("lostReply") PROVE FALSE
  BY <1>1, <1>2 DEF Fault, OnlyFirstMints
<1> QED BY <1>2 DEF ReplyLost

LEMMA NoEdit ==
    ASSUME TypeInv, OnlyFirstMints', NEW d \in Doc
    PROVE  ~Cancel(d) /\ \A s \in Store : ~CorrectStore(d, s)
<1>1. edits \in Nat
  BY DEF TypeInv, TypeOK
<1>2. ASSUME Edit PROVE FALSE
  BY <1>1, <1>2 DEF Edit, OnlyFirstMints
<1> QED BY <1>2 DEF Cancel, CorrectStore

\* The counts of edits and of failures never go down.
LEMMA CountSteps ==
    ASSUME TypeInv, [Next]_vars
    PROVE  /\ edits' = 0 => edits = 0
           /\ faults' = 0 => faults = 0
<1>0. edits \in Nat /\ faults \in Nat
  BY DEF TypeInv, TypeOK
<1>1. ASSUME NEW p \in Pass, NEW d \in Doc, StartStep(p, d)
      PROVE  UNCHANGED <<edits, faults>>
  BY <1>1 DEF StartStep, StartOrder, StartDraft, StartManual, StartNote, Start
<1>2. ASSUME NEW p \in Pass, PassStep(p) PROVE UNCHANGED <<edits, faults>>
  BY <1>2 DEF PassStep, ReadMetafields, Lookup, Rewind, Redraw, Move, Draw, Record,
              HandBack, Winner, Stamp
<1>3. ASSUME NEW p \in Pass, CallFails(p) \/ ReplyLost(p)
      PROVE  edits' = edits /\ faults' = faults + 1
  BY <1>3 DEF CallFails, ReplyLost, Fault
<1>4. ASSUME NEW d \in Doc, NEW s \in Store, EnterStore(d, s) \/ CorrectStore(d, s)
      PROVE  faults' = faults /\ edits' \in {edits, edits + 1}
  BY <1>4 DEF EnterStore, CorrectStore, Edit
<1>5. ASSUME NEW d \in Doc, Cancel(d) PROVE faults' = faults /\ edits' = edits + 1
  BY <1>5 DEF Cancel, Edit
<1>6. CASE Restart
  BY <1>0, <1>6 DEF Restart, Fault
<1>7. CASE UNCHANGED vars
  BY <1>7 DEF vars
<1> QED BY <1>0, <1>1, <1>2, <1>3, <1>4, <1>5, <1>6, <1>7 DEF Next, StartStep

LEMMA FirstMintsBefore ==
    ASSUME TypeInv, OnlyFirstMints', [Next]_vars PROVE OnlyFirstMints
  BY CountSteps DEF OnlyFirstMints

\* The conjuncts of FirstMintInv about numbers, without the exception for
\* re-issues, which first mints do not know.
NumbersApart ==
    /\ \A p, q \in Pass : InHand(p) /\ InHand(q) /\ got[p] = got[q] => p = q
    /\ \A p \in Pass, d \in Doc : InHand(p) /\ Recorded(d) => got[p] # NumberOf(ledger[d])

Covered ==
    /\ \A d \in Doc : Recorded(d) => ledger[d].seq <= counter[ledger[d].store]
    /\ \A p \in Pass : InHand(p) => got[p].seq <= counter[got[p].store]

\* The conjuncts of FirstMintInv about stores and rows.
Placed ==
    /\ \A p \in Pass :
          /\ pc[p] \notin {"rewind", "redraw", "move"}
          /\ pc[p] \notin {"idle", "meta"} => at[p] = place[doc[p]]
    /\ \A d \in Doc :
          Recorded(d) => ledger[d].status = "active" /\ ledger[d].store = place[d]
    /\ \A p \in Pass :
          pc[p] \in {"record", "handback", "winner", "stamp"} => got[p].store = at[p]

\* FirstMintInv is these three.
LEMMA FirstMintParts ==
    ASSUME TypeInv PROVE FirstMintInv <=> Placed /\ NumbersApart /\ Covered
<1>1. ASSUME Placed PROVE \A d \in Doc : ~Reissuing(d)
  BY <1>1 DEF Placed, Reissuing
<1>2. \A d \in Doc : Recorded(d) =>
         /\ ledger[d].seq \in Nat \ {0} /\ ledger[d].store \in Store
         /\ counter[ledger[d].store] \in Nat
  BY DEF TypeInv, TypeOK, Recorded, Row
<1>3. \A p \in Pass : InHand(p) =>
         got[p].seq \in Nat \ {0} /\ counter[got[p].store] \in Nat
  BY DEF TypeInv, TypeOK, StepData, InHand, Number
<1> QED
  BY <1>1, <1>2, <1>3
     DEF FirstMintInv, Placed, NumbersApart, Covered, NoSharedNumber, CounterCovers

\* Only the last database call of a mint writes a row, only for a document
\* that had none, and the written row is active at the store of the draw.
LEMMA LedgerSteps ==
    ASSUME TypeInv, Placed, OnlyFirstMints', [Next]_vars
    PROVE  \/ UNCHANGED ledger
           \/ \E p \in Pass : Record(p) /\ ~Conflict(p) /\ SetRow(doc[p], got[p])
<1>1. ASSUME NEW p \in Pass, NEW d \in Doc, StartStep(p, d) PROVE UNCHANGED ledger
  BY <1>1 DEF StartStep, StartOrder, StartDraft, StartManual, StartNote, Start, db
<1>2. ASSUME NEW p \in Pass, PassStep(p)
      PROVE  UNCHANGED ledger \/ (Record(p) /\ ~Conflict(p) /\ SetRow(doc[p], got[p]))
  BY <1>2 DEF PassStep, ReadMetafields, Lookup, Rewind, Redraw, Move, Placed, Draw,
              Record, HandBack, Winner, Stamp, db
<1>3. ASSUME NEW p \in Pass, CallFails(p) \/ ReplyLost(p) PROVE UNCHANGED ledger
  BY <1>3, NoLostReply DEF CallFails, db
<1>4. ASSUME NEW d \in Doc, NEW s \in Store, EnterStore(d, s) \/ CorrectStore(d, s)
      PROVE  UNCHANGED ledger
  BY <1>4 DEF EnterStore, CorrectStore, db
<1>5. ASSUME NEW d \in Doc, Cancel(d) PROVE FALSE
  BY <1>5, NoEdit
<1> QED BY <1>1, <1>2, <1>3, <1>4, <1>5 DEF Next, PassStep, StartStep, Restart, db, vars

\* A counter moves up at a draw, down at a hand-back, and at no other step.
LEMMA CounterSteps ==
    ASSUME TypeInv, Placed, OnlyFirstMints', [Next]_vars
    PROVE  \/ UNCHANGED counter
           \/ \E p \in Pass : Draw(p) \/ HandBack(p)
<1>1. ASSUME NEW p \in Pass, NEW d \in Doc, StartStep(p, d) PROVE UNCHANGED counter
  BY <1>1 DEF StartStep, StartOrder, StartDraft, StartManual, StartNote, Start, db
<1>2. ASSUME NEW p \in Pass, PassStep(p), ~Draw(p), ~HandBack(p)
      PROVE  UNCHANGED counter
  BY <1>2 DEF PassStep, ReadMetafields, Lookup, Rewind, Redraw, Move, Placed,
              Record, Winner, Stamp, db
<1>3. ASSUME NEW p \in Pass, CallFails(p) \/ ReplyLost(p) PROVE UNCHANGED counter
  BY <1>3, NoLostReply DEF CallFails, db
<1>4. ASSUME NEW d \in Doc, NEW s \in Store, EnterStore(d, s) \/ CorrectStore(d, s)
      PROVE  UNCHANGED counter
  BY <1>4 DEF EnterStore, CorrectStore, db
<1>5. ASSUME NEW d \in Doc, Cancel(d) PROVE UNCHANGED counter
  BY <1>5 DEF Cancel
<1> QED BY <1>1, <1>2, <1>3, <1>4, <1>5 DEF Next, StartStep, Restart, db, vars

\* A pass has a number in hand because it just drew it or had it before.
LEMMA HandSteps ==
    ASSUME TypeInv, Placed, OnlyFirstMints', [Next]_vars, NEW p \in Pass, InHand(p)'
    PROVE  Draw(p) \/ (InHand(p) /\ got'[p] = got[p])
<1>0. pc'[p] \in {"record", "move", "handback"}
  BY DEF InHand
<1> DEFINE Kept == InHand(p) /\ got'[p] = got[p]
<1>1. ASSUME NEW q \in Pass, NEW d \in Doc, StartStep(q, d) PROVE Kept
  BY <1>0, <1>1 DEF StartStep, StartOrder, StartDraft, StartManual, StartNote, Start,
                    TypeInv, TypeOK, InHand
<1>2. ASSUME NEW q \in Pass, Finish(q) PROVE Kept
  BY <1>0, <1>2 DEF Finish, TypeInv, TypeOK, InHand
<1>3. ASSUME NEW q \in Pass, ReadMetafields(q) \/ Lookup(q) \/ Record(q)
                             \/ HandBack(q) \/ CallFails(q), ~Finish(q)
      PROVE  Kept
  BY <1>0, <1>3 DEF ReadMetafields, Lookup, Record, HandBack, CallFails, AfterMove, Goto,
                    Placed, TypeInv, TypeOK, InHand
<1>4. ASSUME NEW q \in Pass, Draw(q) PROVE Draw(p) \/ Kept
  BY <1>0, <1>4 DEF Draw, Allocate, Goto, TypeInv, TypeOK, InHand
<1>5. ASSUME NEW q \in Pass, Rewind(q) \/ Redraw(q) \/ Move(q) \/ ReplyLost(q)
      PROVE  FALSE
  BY <1>5, NoLostReply DEF Rewind, Redraw, Move, Placed
<1>6. ASSUME NEW q \in Pass, Winner(q) \/ Stamp(q) PROVE Finish(q)
  BY <1>6 DEF Winner, Stamp
<1>7. ASSUME NEW d \in Doc, NEW s \in Store, EnterStore(d, s) \/ CorrectStore(d, s)
      PROVE  Kept
  BY <1>0, <1>7 DEF EnterStore, CorrectStore, job, InHand
<1>8. ASSUME NEW d \in Doc, Cancel(d) PROVE Kept
  BY <1>0, <1>8 DEF Cancel, job, InHand
<1>9. ~Restart
  BY <1>0 DEF Restart
<1>10. CASE UNCHANGED vars
  BY <1>0, <1>10 DEF vars, InHand
<1> QED BY <1>1, <1>2, <1>3, <1>4, <1>5, <1>6, <1>7, <1>8, <1>9, <1>10
        DEF Next, PassStep, StartStep

\* No step makes two passes, or a pass and a row, share a number, and the
\* counter stays at or above every number in use.
LEMMA NextNumbers ==
    ASSUME TypeInv, Placed, NumbersApart, Covered, OnlyFirstMints', [Next]_vars
    PROVE  NumbersApart' /\ Covered'
<1>0. /\ \A d \in Doc : Recorded(d) => NumberOf(ledger[d]) \in Number
      /\ \A p \in Pass : InHand(p) => got[p] \in Number
  BY DEF TypeInv, TypeOK, StepData, Recorded, NumberOf, Row, Number, InHand
<1>1. ASSUME NEW p \in Pass, Draw(p) PROVE NumbersApart' /\ Covered'
  <2>1. at[p] \in Store /\ counter[at[p]] \in Nat
    BY <1>1 DEF Draw, TypeInv, TypeOK, StepData
  <2>2. /\ counter' = [counter EXCEPT ![at[p]] = counter[at[p]] + 1]
        /\ got'[p] = [store |-> at[p], seq |-> counter[at[p]] + 1]
        /\ \A q \in Pass \ {p} : got'[q] = got[q] /\ pc'[q] = pc[q]
        /\ ~InHand(p) /\ UNCHANGED ledger
    BY <1>1 DEF Draw, Allocate, Goto, TypeInv, TypeOK, InHand
  <2>3. \A q \in Pass \ {p} : InHand(q)' => InHand(q) /\ got'[q] = got[q]
    BY <2>2 DEF InHand
  <2>4. \A q \in Pass \ {p} : InHand(q) => got[q] # got'[p]
    BY <1>0, <2>1, <2>2 DEF Covered, Number
  <2>5. \A d \in Doc : Recorded(d) => NumberOf(ledger[d]) # got'[p]
    BY <1>0, <2>1, <2>2 DEF Covered, Number, NumberOf
  <2>6. NumbersApart'
    BY <2>2, <2>3, <2>4, <2>5 DEF NumbersApart, Recorded, NumberOf
  <2>7. \A s \in Store : /\ counter[s] \in Nat /\ counter'[s] \in Nat
                         /\ counter'[s] >= counter[s]
    BY <2>1, <2>2 DEF TypeInv, TypeOK
  <2>a. \A n \in Number : n.seq <= counter[n.store] => n.seq <= counter'[n.store]
    BY <2>7 DEF Number
  <2>8. \A d \in Doc : Recorded(d) => ledger[d].seq <= counter'[ledger[d].store]
    BY <1>0, <2>a DEF Covered, NumberOf
  <2>9. \A q \in Pass \ {p} : InHand(q) => got[q].seq <= counter'[got[q].store]
    BY <1>0, <2>a DEF Covered
  <2>10. got'[p].seq <= counter'[got'[p].store]
    BY <2>1, <2>2 DEF TypeInv, TypeOK
  <2>11. Covered'
    BY <2>2, <2>3, <2>8, <2>9, <2>10 DEF Covered, Recorded
  <2> QED BY <2>6, <2>11
<1>2. ASSUME NEW p \in Pass, HandBack(p) PROVE NumbersApart' /\ Covered'
  <2>1. /\ InHand(p) /\ ~InHand(p)'
        /\ UNCHANGED <<ledger, got>>
        /\ RewindIfTip(got[p])
    BY <1>2 DEF HandBack, Goto, InHand, TypeInv, TypeOK
  <2>2. \A q \in Pass : InHand(q)' => InHand(q) /\ q # p
    BY <1>2, <2>1 DEF HandBack, Goto, InHand, TypeInv, TypeOK
  <2>3. NumbersApart'
    BY <2>1, <2>2 DEF NumbersApart, Recorded, NumberOf
  <2>4. \A n \in Number : n.seq <= counter[n.store] /\ n # got[p] => n.seq <= counter'[n.store]
    <3>1. got[p].store \in Store /\ got[p].seq \in Nat \ {0}
      BY <1>0, <2>1 DEF Number
    <3>2. SUFFICES ASSUME NEW n \in Number, n.seq <= counter[n.store], n # got[p]
                   PROVE  n.seq <= counter'[n.store]
      OBVIOUS
    <3>a. n.store \in Store /\ n.seq \in Nat \ {0} /\ counter[n.store] \in Nat
      BY DEF Number, TypeInv, TypeOK
    <3>b. /\ counter'[got[p].store] = IF counter[got[p].store] = got[p].seq
                                      THEN got[p].seq - 1 ELSE counter[got[p].store]
          /\ \A s \in Store \ {got[p].store} : counter'[s] = counter[s]
      BY <2>1, <3>1 DEF RewindIfTip, TypeInv, TypeOK
    <3>3. CASE n.store # got[p].store
      BY <3>2, <3>3, <3>a, <3>b
    <3>4. CASE n.store = got[p].store
      <4>1. n.seq # got[p].seq
        BY <1>0, <2>1, <3>2, <3>4 DEF Number
      <4> QED BY <3>1, <3>2, <3>4, <3>a, <3>b, <4>1
    <3> QED BY <3>3, <3>4
  <2>5. \A d \in Doc : Recorded(d) => ledger[d].seq <= counter'[ledger[d].store]
    BY <1>0, <2>1, <2>4 DEF Covered, NumbersApart, NumberOf
  <2>6. \A q \in Pass : InHand(q)' => got[q].seq <= counter'[got[q].store]
    BY <1>0, <2>1, <2>2, <2>4 DEF Covered, NumbersApart
  <2>7. Covered'
    BY <2>1, <2>5, <2>6 DEF Covered, Recorded
  <2> QED BY <2>3, <2>7
<1>3. ASSUME NEW p \in Pass, Record(p), ~Conflict(p), SetRow(doc[p], got[p])
      PROVE  NumbersApart' /\ Covered'
  <2>1. /\ InHand(p) /\ ~InHand(p)' /\ doc[p] \in Doc /\ UNCHANGED counter
        /\ \A q \in Pass \ {p} : got'[q] = got[q] /\ pc'[q] = pc[q]
    BY <1>3 DEF Record, Goto, Finish, InHand, TypeInv, TypeOK, StepData
  <2>2. \A q \in Pass : InHand(q)' => InHand(q) /\ got'[q] = got[q] /\ q # p
    BY <2>1 DEF InHand
  <2>3. \A d \in Doc : Recorded(d)' =>
           \/ d # doc[p] /\ Recorded(d) /\ ledger'[d] = ledger[d]
           \/ NumberOf(ledger'[d]) = got[p] /\ ledger'[d].seq = got[p].seq
                                            /\ ledger'[d].store = got[p].store
    BY <1>0, <1>3, <2>1 DEF SetRow, Recorded, NumberOf, Number, TypeInv, TypeOK
  <2>4. NumbersApart'
    BY <2>1, <2>2, <2>3 DEF NumbersApart, NumberOf
  <2>5. Covered'
    BY <2>1, <2>2, <2>3 DEF Covered
  <2> QED BY <2>4, <2>5
<1>4. CASE UNCHANGED <<counter, ledger>> /\ (\A p \in Pass : ~Draw(p))
  <2>1. \A p \in Pass : InHand(p)' => InHand(p) /\ got'[p] = got[p]
    BY <1>4, HandSteps
  <2> QED BY <1>4, <2>1 DEF NumbersApart, Covered, Recorded, NumberOf
<1> QED BY <1>1, <1>2, <1>3, <1>4, LedgerSteps, CounterSteps

\* What the next calls of a pass know about its store, when no store code is
\* ever corrected.
LEMMA PlaceSteps ==
    ASSUME OnlyFirstMints', [Next]_vars, TypeInv,
           NEW d \in Doc, place[d] # None
    PROVE  place'[d] = place[d]
<1>1. ASSUME NEW p \in Pass, NEW e \in Doc, StartStep(p, e) PROVE UNCHANGED place
  BY <1>1 DEF StartStep, StartOrder, StartDraft, StartManual, StartNote, Start, shop
<1>2. ASSUME NEW p \in Pass, PassStep(p) PROVE UNCHANGED place
  BY <1>2 DEF PassStep, ReadMetafields, Lookup, Rewind, Redraw, Move, Draw, Record,
              HandBack, Winner, Stamp, shop
<1>3. ASSUME NEW p \in Pass, CallFails(p) \/ ReplyLost(p) PROVE UNCHANGED place
  BY <1>3 DEF CallFails, ReplyLost
<1>4. ASSUME NEW e \in Doc, NEW s \in Store, EnterStore(e, s) \/ CorrectStore(e, s)
      PROVE  place'[d] = place[d]
  BY <1>4, NoEdit DEF EnterStore, TypeInv, TypeOK
<1>5. ASSUME NEW e \in Doc, Cancel(e) PROVE UNCHANGED place
  BY <1>5 DEF Cancel, shop
<1> QED BY <1>1, <1>2, <1>3, <1>4, <1>5 DEF Next, StartStep, Restart, shop, vars

\* No pass re-issues, the store of a pass is that of its document, and the
\* number it drew is of that store.
StepPlaced(p) ==
    /\ pc[p] \notin {"rewind", "redraw", "move"}
    /\ pc[p] \notin {"idle", "meta"} => place[doc[p]] # None /\ at[p] = place[doc[p]]
    /\ pc[p] \in {"record", "handback", "winner", "stamp"} => got[p].store = at[p]

LEMMA NextStepPlaced ==
    ASSUME TypeInv, Placed, OnlyFirstMints', [Next]_vars, NEW p \in Pass
    PROVE  /\ pc'[p] \notin {"rewind", "redraw", "move"}
           /\ pc'[p] \notin {"idle", "meta"} => at'[p] = place'[doc'[p]]
           /\ pc'[p] \in {"record", "handback", "winner", "stamp"} => got'[p].store = at'[p]
<1> DEFINE Good == StepPlaced(p)'
           Kept == UNCHANGED <<pc[p], doc[p], at[p], got[p]>>
<1> SUFFICES Good
  BY DEF StepPlaced
<1>0. StepPlaced(p)
  BY DEF StepPlaced, Placed, TypeInv, TypeOK, StepData
<1>a. pc[p] \notin {"idle", "meta"} => doc[p] \in Doc /\ place'[doc[p]] = place[doc[p]]
  BY <1>0, PlaceSteps DEF StepPlaced, TypeInv, TypeOK, StepData
<1>b. Kept => Good
  BY <1>0, <1>a DEF StepPlaced
<1>1. ASSUME NEW q \in Pass, NEW d \in Doc, StartStep(q, d) PROVE Good
  <2>1. CASE q = p
    BY <1>1, <2>1 DEF StartStep, StartOrder, StartDraft, StartManual, StartNote,
                      Start, shop, StepPlaced, TypeInv, TypeOK
  <2>2. CASE q # p
    <3>1. Kept
      BY <1>1, <2>2 DEF StartStep, StartOrder, StartDraft, StartManual, StartNote,
                        Start, TypeInv, TypeOK
    <3> QED BY <1>b, <3>1
  <2> QED BY <2>1, <2>2
<1>2. ASSUME NEW q \in Pass, Finish(q) PROVE Good
  <2>1. CASE q = p
    BY <1>2, <2>1 DEF Finish, StepPlaced, TypeInv, TypeOK
  <2>2. CASE q # p
    <3>1. Kept
      BY <1>2, <2>2 DEF Finish, TypeInv, TypeOK
    <3> QED BY <1>b, <3>1
  <2> QED BY <2>1, <2>2
<1>3. ASSUME NEW q \in Pass, q # p, PassStep(q) \/ CallFails(q) \/ ReplyLost(q), ~Finish(q)
      PROVE  Good
  <2>1. Kept
    BY <1>3 DEF PassStep, ReadMetafields, Lookup, Rewind, Redraw, Move, AfterMove,
                Allocate, Draw, Record, HandBack, Winner, Stamp, CallFails, ReplyLost,
                Goto, TypeInv, TypeOK
  <2> QED BY <1>b, <2>1
<1>4. CASE ReadMetafields(p) /\ ~Finish(p)
  BY <1>4 DEF ReadMetafields, NotToMint, Goto, StepPlaced, TypeInv, TypeOK, shop
<1>5. CASE Lookup(p) /\ ~Finish(p)
  <2>1. doc[p] \in Doc /\ at[p] = place[doc[p]]
    BY <1>5, <1>0, <1>a DEF Lookup, StepPlaced
  <2>2. ledger[doc[p]] = None
        \/ (ledger[doc[p]].status = "active" /\ ledger[doc[p]].store = at[p])
    BY <2>1 DEF Placed, Recorded
  <2>3. Goto(p, "draw") /\ UNCHANGED <<at, got>> /\ pc[p] = "lookup"
    BY <1>5, <2>2 DEF Lookup
  <2> QED BY <2>3, <1>0, <1>a DEF Goto, StepPlaced, TypeInv, TypeOK
<1>6. CASE Draw(p)
  BY <1>6, <1>0, <1>a DEF Draw, Allocate, Goto, StepPlaced, TypeInv, TypeOK
<1>7. CASE (Record(p) \/ HandBack(p)) /\ ~Finish(p)
  BY <1>7, <1>0, <1>a DEF Record, HandBack, Goto, StepPlaced, TypeInv, TypeOK
<1>8. CASE CallFails(p) /\ ~Finish(p)
  BY <1>8, <1>0, <1>a DEF CallFails, Goto, StepPlaced, TypeInv, TypeOK
<1>9. ~(Rewind(p) \/ Redraw(p) \/ Move(p) \/ ReplyLost(p))
  BY NoLostReply DEF Rewind, Redraw, Move, Placed
<1>10. CASE Restart
  BY <1>10 DEF Restart, StepPlaced
<1>11. ASSUME NEW d \in Doc, NEW s \in Store, EnterStore(d, s) \/ CorrectStore(d, s)
       PROVE  Good
  BY <1>11, <1>b DEF EnterStore, CorrectStore, job
<1>12. ASSUME NEW d \in Doc, Cancel(d) PROVE Good
  BY <1>12, <1>b DEF Cancel, job
<1>13. CASE UNCHANGED vars
  BY <1>13, <1>b DEF vars
<1>14. Winner(p) \/ Stamp(p) => Finish(p)
  BY DEF Winner, Stamp
<1>15. ASSUME NEW q \in Pass, PassStep(q) \/ CallFails(q) \/ ReplyLost(q) PROVE Good
  BY <1>2, <1>3, <1>4, <1>5, <1>6, <1>7, <1>8, <1>9, <1>14, <1>15 DEF PassStep
<1> QED BY <1>1, <1>10, <1>11, <1>12, <1>13, <1>15 DEF Next, StartStep

\* No step breaks Placed.
LEMMA NextPlaced ==
    ASSUME TypeInv, Placed, OnlyFirstMints', [Next]_vars PROVE Placed'
<1>1. ASSUME NEW d \in Doc, Recorded(d)'
      PROVE  ledger'[d].status = "active" /\ ledger'[d].store = place'[d]
  <2>1. CASE UNCHANGED ledger
    <3>1. ledger[d].status = "active" /\ ledger[d].store = place[d]
      BY <1>1, <2>1 DEF Placed, Recorded
    <3>2. place[d] # None
      BY <1>1, <2>1, <3>1 DEF TypeInv, TypeOK, Recorded, Row
    <3> QED BY <2>1, <3>1, <3>2, PlaceSteps
  <2>2. ASSUME NEW p \in Pass, Record(p), SetRow(doc[p], got[p])
        PROVE  ledger'[d].status = "active" /\ ledger'[d].store = place'[d]
    <3>1. pc[p] = "record" /\ doc[p] \in Doc /\ UNCHANGED place
      BY <2>2 DEF Record, TypeInv, TypeOK, StepData
    <3>2. got[p].store = place[doc[p]]
      BY <3>1 DEF Placed
    <3> QED BY <1>1, <2>2, <3>1, <3>2 DEF SetRow, Placed, Recorded, TypeInv, TypeOK
  <2> QED BY <2>1, <2>2, LedgerSteps
<1> QED BY <1>1, NextStepPlaced DEF Placed

\* The invariant of first mints is inductive.
LEMMA NextFirstMint ==
    ASSUME TypeInv, FirstMintInv, OnlyFirstMints', [Next]_vars PROVE FirstMintInv'
<1>1. Placed /\ NumbersApart /\ Covered
  BY FirstMintParts
<1>2. TypeInv' /\ Placed' /\ NumbersApart' /\ Covered'
  BY <1>1, NextTypes, NextPlaced, NextNumbers
<1>3. \A d \in Doc : ~Reissuing(d)'
  BY <1>2 DEF Placed, Reissuing
<1>4. \A d \in Doc : Recorded(d)' =>
         /\ ledger'[d].seq \in Nat \ {0} /\ ledger'[d].store \in Store
         /\ counter'[ledger'[d].store] \in Nat
  BY <1>2 DEF TypeInv, TypeOK, Recorded, Row
<1>5. \A p \in Pass : InHand(p)' =>
         got'[p].seq \in Nat \ {0} /\ counter'[got'[p].store] \in Nat
  BY <1>2 DEF TypeInv, TypeOK, StepData, InHand, Number
<1> QED
  BY <1>2, <1>3, <1>4, <1>5
     DEF FirstMintInv, Placed, NumbersApart, Covered, NoSharedNumber, CounterCovers

\* As long as nothing is corrected or cancelled and no answer is lost, no two
\* documents and no two passes ever have the same number, whatever calls fail,
\* however often the process restarts and wherever passes interleave.
THEOREM FirstMintsNeverShare == Spec => [](OnlyFirstMints => FirstMintInv)
<1>1. Init => FirstMintInv
  BY DEF Init, FirstMintInv, NoSharedNumber, CounterCovers, InHand, Recorded
<1>2. TypeInv /\ (OnlyFirstMints => FirstMintInv) /\ [Next]_vars
      => (OnlyFirstMints => FirstMintInv)'
  BY NextFirstMint, FirstMintsBefore
<1> QED BY <1>1, <1>2, TypeCorrect, PTL DEF Spec, TypeInv

\* Until then a recorded number stays with its document.
THEOREM FirstMintsPermanent == Spec => NumberIsPermanent
<1>1. ASSUME TypeInv, FirstMintInv, [Next]_vars, OnlyFirstMints',
             NEW d \in Doc, Recorded(d)
      PROVE  ledger'[d] = ledger[d]
  <2>1. Placed
    BY <1>1, FirstMintParts
  <2>2. ASSUME NEW p \in Pass, Record(p), ~Conflict(p), SetRow(doc[p], got[p])
        PROVE  ledger'[d] = ledger[d]
    BY <1>1, <2>2 DEF Conflict, SetRow, TypeInv, TypeOK
  <2> QED BY <1>1, <2>1, <2>2, LedgerSteps
<1>2. TypeInv /\ (OnlyFirstMints => FirstMintInv) /\ [Next]_vars
      => [OnlyFirstMints' => \A d \in Doc : Recorded(d) => ledger'[d] = ledger[d]]_vars
  BY <1>1, FirstMintsBefore
<1> QED BY <1>2, TypeCorrect, FirstMintsNeverShare, PTL DEF Spec, TypeInv, NumberIsPermanent

--------------------
\* Why the prints agree: two rows never have one number, a pass stamps what it
\* recorded, and a voucher is requested once and has no row until it answers.
RecordsApart ==
    \A d, e \in Doc :
        Recorded(d) /\ Recorded(e) /\ NumberOf(ledger[d]) = NumberOf(ledger[e]) => d = e

StampsRecorded ==
    \A p \in Pass : pc[p] = "stamp" =>
        Recorded(doc[p]) /\ NumberOf(ledger[doc[p]]) = got[p]

NotesOnce ==
    \A p \in Pass : doc[p] \in Note =>
        /\ pc[p] \in {"draw", "record"}
        /\ ~Recorded(doc[p])
        /\ \A q \in Pass : doc[q] = doc[p] => q = p

PrintInv == PrintedIsRecorded /\ RecordsApart /\ StampsRecorded /\ NotesOnce

\* While only first mints are made a recorded row stays, and a new one is the
\* row of the pass that records.
LEMMA RowSteps ==
    ASSUME TypeInv, Placed, OnlyFirstMints', [Next]_vars, NEW d \in Doc
    PROVE  /\ Recorded(d) => Recorded(d)' /\ ledger'[d] = ledger[d]
           /\ Recorded(d)' /\ ~Recorded(d) =>
                 \E p \in Pass : /\ Record(p) /\ ~Conflict(p)
                                 /\ SetRow(doc[p], got[p]) /\ doc[p] = d
<1>1. CASE UNCHANGED ledger
  BY <1>1 DEF Recorded
<1>2. ASSUME NEW p \in Pass, Record(p), ~Conflict(p), SetRow(doc[p], got[p])
      PROVE  /\ Recorded(d) => Recorded(d)' /\ ledger'[d] = ledger[d]
             /\ Recorded(d)' /\ ~Recorded(d) => doc[p] = d
  BY <1>2 DEF Conflict, SetRow, Recorded, TypeInv, TypeOK
<1> QED BY <1>1, <1>2, LedgerSteps

\* The row a pass records holds the number it drew.
LEMMA RecordedRow ==
    ASSUME TypeInv, NEW p \in Pass, pc[p] = "record", SetRow(doc[p], got[p])
    PROVE  ledger'[doc[p]] # None /\ NumberOf(ledger'[doc[p]]) = got[p]
<1>1. doc[p] \in Doc /\ got[p] \in Number
  BY DEF TypeInv, TypeOK, StepData
<1>2. ledger'[doc[p]] = [store |-> got[p].store, seq |-> got[p].seq, status |-> "active"]
  BY <1>1 DEF SetRow, TypeInv, TypeOK
<1>3. ledger'[doc[p]] \in Row
  BY <1>1, <1>2 DEF Number, Row
<1>4. NumberOf(ledger'[doc[p]]) = got[p]
  BY <1>1, <1>2 DEF NumberOf, Number
<1> QED BY <1>3, <1>4 DEF Recorded

\* A pass is about to stamp because it just recorded or was before.
LEMMA StampSteps ==
    ASSUME TypeInv, Placed, OnlyFirstMints', [Next]_vars, NEW p \in Pass,
           pc'[p] = "stamp"
    PROVE  /\ doc'[p] = doc[p] /\ got'[p] = got[p]
           /\ \/ pc[p] = "stamp"
              \/ pc[p] = "record" /\ SetRow(doc[p], got[p])
<1> DEFINE Kept == doc'[p] = doc[p] /\ got'[p] = got[p] /\ pc[p] = "stamp"
<1>1. ASSUME NEW q \in Pass, NEW d \in Doc, StartStep(q, d) PROVE Kept
  BY <1>1 DEF StartStep, StartOrder, StartDraft, StartManual, StartNote, Start,
              TypeInv, TypeOK
<1>2. ASSUME NEW q \in Pass, Finish(q) PROVE Kept
  BY <1>2 DEF Finish, TypeInv, TypeOK
<1>3. ASSUME NEW q \in Pass, ReadMetafields(q) \/ Lookup(q) \/ HandBack(q) \/ CallFails(q),
             ~Finish(q)
      PROVE  Kept
  BY <1>3 DEF ReadMetafields, Lookup, HandBack, CallFails, AfterMove, Goto, Placed,
              TypeInv, TypeOK
<1>4. ASSUME NEW q \in Pass, Draw(q) PROVE Kept
  BY <1>4 DEF Draw, Allocate, Goto, TypeInv, TypeOK
<1>5. ASSUME NEW q \in Pass, Record(q), ~Finish(q), q # p PROVE Kept
  BY <1>5 DEF Record, Goto, TypeInv, TypeOK
<1>6. ASSUME Record(p), ~Finish(p)
      PROVE  doc'[p] = doc[p] /\ got'[p] = got[p] /\ pc[p] = "record"
             /\ SetRow(doc[p], got[p])
  BY <1>6 DEF Record, Goto, TypeInv, TypeOK
<1>7. ASSUME NEW q \in Pass, Rewind(q) \/ Redraw(q) \/ Move(q) \/ ReplyLost(q)
      PROVE  FALSE
  BY <1>7, NoLostReply DEF Rewind, Redraw, Move, Placed
<1>8. ASSUME NEW q \in Pass, Winner(q) \/ Stamp(q) PROVE Finish(q)
  BY <1>8 DEF Winner, Stamp
<1>9. ASSUME NEW d \in Doc, NEW s \in Store, EnterStore(d, s) \/ CorrectStore(d, s)
      PROVE  Kept
  BY <1>9 DEF EnterStore, CorrectStore, job
<1>10. ASSUME NEW d \in Doc, Cancel(d) PROVE Kept
  BY <1>10 DEF Cancel, job
<1>11. ~Restart
  BY DEF Restart
<1>12. CASE UNCHANGED vars
  BY <1>12 DEF vars
<1> QED BY <1>1, <1>2, <1>3, <1>4, <1>5, <1>6, <1>7, <1>8, <1>9, <1>10, <1>11, <1>12
        DEF Next, PassStep, StartStep

\* Whatever is printed anew is the number of the document's row.
LEMMA PrintSteps ==
    ASSUME TypeInv, Placed, PrintInv, OnlyFirstMints', [Next]_vars
    PROVE  \/ UNCHANGED printed
           \/ \E p \in Pass : /\ ledger'[doc[p]] # None /\ doc[p] \in Doc
                              /\ Reply(doc[p], NumberOf(ledger'[doc[p]]))
<1> DEFINE True(p) == /\ ledger'[doc[p]] # None /\ doc[p] \in Doc
                      /\ Reply(doc[p], NumberOf(ledger'[doc[p]]))
<1>0. \A p \in Pass : pc[p] # "idle" => doc[p] \in Doc
  BY DEF TypeInv, TypeOK, StepData
<1>1. ASSUME NEW p \in Pass, NEW d \in Doc, StartStep(p, d) PROVE UNCHANGED printed
  BY <1>1 DEF StartStep, StartOrder, StartDraft, StartManual, StartNote, Start, shop
<1>2. ASSUME NEW p \in Pass, ReadMetafields(p) \/ Draw(p) \/ HandBack(p)
                             \/ CallFails(p)
      PROVE  UNCHANGED printed
  BY <1>2 DEF ReadMetafields, Draw, HandBack, CallFails, AfterMove, shop
<1>3. ASSUME NEW p \in Pass, Lookup(p) PROVE UNCHANGED printed \/ True(p)
  BY <1>0, <1>3 DEF Lookup, Recorded, db
<1>4. ASSUME NEW p \in Pass, Record(p) PROVE UNCHANGED printed \/ True(p)
  <2>1. UNCHANGED printed \/ (SetRow(doc[p], got[p]) /\ Reply(doc[p], got[p]))
    BY <1>4 DEF Record
  <2> QED BY <1>0, <1>4, <2>1, RecordedRow DEF Record
<1>5. ASSUME NEW p \in Pass, Winner(p) PROVE UNCHANGED printed \/ True(p)
  <2>1. pc[p] = "winner" /\ doc[p] \notin Note /\ UNCHANGED ledger
    BY <1>5 DEF Winner, PrintInv, NotesOnce, db
  <2>2. \A e \in Winners(p) : e = doc[p] /\ Recorded(e)
    BY <2>1 DEF Winners
  <2> QED BY <1>0, <1>5, <2>1, <2>2 DEF Winner, Recorded
<1>6. ASSUME NEW p \in Pass, Stamp(p) PROVE True(p)
  BY <1>0, <1>6 DEF Stamp, PrintInv, StampsRecorded, Recorded, db
<1>7. ASSUME NEW p \in Pass, Rewind(p) \/ Redraw(p) \/ Move(p) \/ ReplyLost(p)
      PROVE  FALSE
  BY <1>7, NoLostReply DEF Rewind, Redraw, Move, Placed
<1>8. ASSUME NEW d \in Doc, NEW s \in Store, EnterStore(d, s) \/ CorrectStore(d, s)
      PROVE  UNCHANGED printed
  BY <1>8 DEF EnterStore, CorrectStore
<1>9. ASSUME NEW d \in Doc, Cancel(d) PROVE UNCHANGED printed
  BY <1>9 DEF Cancel, shop
<1>10. Restart => UNCHANGED printed
  BY DEF Restart, shop
<1> QED BY <1>1, <1>2, <1>3, <1>4, <1>5, <1>6, <1>7, <1>8, <1>9, <1>10
        DEF Next, PassStep, StartStep, vars

\* While a voucher is being numbered its pass is at the draw or the record.
LEMMA NoteSteps ==
    ASSUME TypeInv, Placed, NumbersApart, NotesOnce, OwnWinner', [Next]_vars,
           NEW p \in Pass, doc[p] \in Note, doc'[p] = doc[p]
    PROVE  pc'[p] \in {"draw", "record"}
<1>0. /\ pc[p] \in {"draw", "record"} /\ ~Recorded(doc[p]) /\ doc[p] \in Doc
      /\ doc'[p] # None
  BY DEF NotesOnce, Doc
<1> DEFINE Good == pc'[p] \in {"draw", "record"}
<1>a. faults = 0 /\ faults' = 0
  BY CountSteps DEF OwnWinner
<1>1. ASSUME NEW q \in Pass, NEW d \in Doc, StartStep(q, d) PROVE Good
  BY <1>0, <1>1 DEF StartStep, StartOrder, StartDraft, StartManual, StartNote, Start,
                    TypeInv, TypeOK
<1>2. ASSUME NEW q \in Pass, Finish(q) PROVE Good
  BY <1>0, <1>2 DEF Finish, TypeInv, TypeOK
<1>3. ASSUME NEW q \in Pass, q # p, PassStep(q), ~Finish(q) PROVE Good
  BY <1>0, <1>3 DEF PassStep, ReadMetafields, Lookup, Rewind, Redraw, Move, AfterMove,
                    Draw, Record, HandBack, Winner, Stamp, Goto, TypeInv, TypeOK
<1>4. CASE PassStep(p) /\ ~Finish(p)
  <2>1. Draw(p) \/ Record(p)
    BY <1>0, <1>4 DEF PassStep, ReadMetafields, Lookup, Rewind, Redraw, Move, HandBack,
                      Winner, Stamp
  <2>2. ~(Record(p) /\ ~Finish(p))
    BY <1>0 DEF Record, Conflict, TakenByOther, NumbersApart, InHand
  <2> QED BY <1>4, <2>1, <2>2 DEF Draw, Goto, TypeInv, TypeOK
<1>5. ASSUME NEW q \in Pass, CallFails(q) \/ ReplyLost(q) PROVE FALSE
  BY <1>a, <1>5 DEF CallFails, ReplyLost, Fault
<1>6. ASSUME NEW d \in Doc, NEW s \in Store, EnterStore(d, s) \/ CorrectStore(d, s)
      PROVE  Good
  BY <1>0, <1>6 DEF EnterStore, CorrectStore
<1>7. ASSUME NEW d \in Doc, Cancel(d) PROVE Good
  BY <1>0, <1>7 DEF Cancel
<1>8. ~Restart
  BY <1>a DEF Restart, Fault
<1>9. CASE UNCHANGED vars
  BY <1>0, <1>9 DEF vars
<1> QED BY <1>1, <1>2, <1>3, <1>4, <1>5, <1>6, <1>7, <1>8, <1>9 DEF Next, StartStep

\* A voucher is numbered by one pass, which has not recorded it yet.
LEMMA NextNotesOnce ==
    ASSUME TypeInv, Placed, NumbersApart, NotesOnce, OwnWinner', [Next]_vars
    PROVE  NotesOnce'
<1>0. OnlyFirstMints' /\ Note \subseteq Doc /\ None \notin Note
  BY DEF OwnWinner, Doc
<1>1. ASSUME NEW q \in Pass, NEW d \in Doc, StartStep(q, d) PROVE NotesOnce'
  <2>1. /\ doc' = [doc EXCEPT ![q] = d] /\ UNCHANGED ledger
        /\ \A p \in Pass \ {q} : pc'[p] = pc[p]
    BY <1>1 DEF StartStep, StartOrder, StartDraft, StartManual, StartNote, Start, db,
                TypeInv, TypeOK
  <2>2. d \in Note => /\ pc'[q] = "draw" /\ ~Recorded(d)
                      /\ \A p \in Pass : doc[p] # d
    BY <1>1 DEF StartStep, StartOrder, StartDraft, StartManual, StartNote, Start,
                TypeInv, TypeOK
  <2> QED BY <2>1, <2>2 DEF NotesOnce, Recorded, TypeInv, TypeOK
<1>2. ASSUME \A p \in Pass : doc'[p] \in {doc[p], None} PROVE NotesOnce'
  <2> SUFFICES ASSUME NEW p \in Pass, doc'[p] \in Note
               PROVE  /\ pc'[p] \in {"draw", "record"}
                      /\ ledger'[doc'[p]] = None
                      /\ \A q \in Pass : doc'[q] = doc'[p] => q = p
    BY DEF NotesOnce, Recorded
  <2>1. doc'[p] = doc[p] /\ doc[p] \in Note
    BY <1>0, <1>2
  <2>2. pc'[p] \in {"draw", "record"}
    BY <2>1, NoteSteps
  <2>3. \A q \in Pass : doc'[q] = doc'[p] => q = p
    BY <1>0, <1>2, <2>1 DEF NotesOnce
  <2>4. ASSUME ledger'[doc[p]] # None PROVE FALSE
    <3>1. PICK d \in Doc : d = doc[p]
      BY <1>0, <2>1
    <3>a. Recorded(d)' /\ ~Recorded(d)
      BY <2>1, <2>4, <3>1 DEF NotesOnce, Recorded
    <3>2. PICK q \in Pass : Record(q) /\ ~Conflict(q) /\ doc[q] = doc[p]
      BY <1>0, <3>1, <3>a, RowSteps
    <3>3. q = p
      BY <2>1, <3>2 DEF NotesOnce
    <3>4. Finish(p)
      BY <2>1, <3>2, <3>3 DEF Record
    <3> QED BY <1>0, <2>1, <3>4 DEF Finish, TypeInv, TypeOK
  <2> QED BY <2>1, <2>2, <2>3, <2>4
<1>3. ASSUME NEW q \in Pass, Finish(q) PROVE \A p \in Pass : doc'[p] \in {doc[p], None}
  BY <1>3 DEF Finish, TypeInv, TypeOK
<1>4. Restart => \A p \in Pass : doc'[p] \in {doc[p], None}
  BY DEF Restart
<1> QED BY <1>1, <1>2, <1>3, <1>4, LockSteps

\* No step breaks PrintInv while only first mints are made and every winner
\* is the document's own.
LEMMA NextPrintInv ==
    ASSUME TypeInv, Placed, NumbersApart, PrintInv, OwnWinner', [Next]_vars
    PROVE  PrintInv'
<1>0. OnlyFirstMints'
  BY DEF OwnWinner
<1>1. RecordsApart'
  <2> SUFFICES ASSUME NEW d \in Doc, NEW e \in Doc, Recorded(d)', Recorded(e)',
                      NumberOf(ledger'[d]) = NumberOf(ledger'[e]), d # e
               PROVE  FALSE
    BY DEF RecordsApart, NumberOf
  <2>1. ASSUME NEW a \in Doc, NEW b \in Doc, a # b, Recorded(a)', ~Recorded(a),
               Recorded(b)'
        PROVE  NumberOf(ledger'[a]) # NumberOf(ledger'[b])
    <3>1. PICK p \in Pass : /\ Record(p) /\ ~Conflict(p)
                            /\ SetRow(doc[p], got[p]) /\ doc[p] = a
      BY <1>0, <2>1, RowSteps
    <3>2. NumberOf(ledger'[a]) = got[p]
      BY <3>1, RecordedRow DEF Record
    <3>3. ledger'[b] = ledger[b]
      BY <2>1, <3>1 DEF SetRow, TypeInv, TypeOK
    <3> QED BY <2>1, <3>1, <3>2, <3>3 DEF Conflict, TakenByOther, Recorded
  <2>2. Recorded(d) /\ Recorded(e)
    BY <2>1
  <2>3. ledger'[d] = ledger[d] /\ ledger'[e] = ledger[e]
    BY <1>0, <2>2, RowSteps
  <2> QED BY <2>2, <2>3 DEF PrintInv, RecordsApart
<1>2. StampsRecorded'
  <2> SUFFICES ASSUME NEW p \in Pass, pc'[p] = "stamp"
               PROVE  ledger'[doc'[p]] # None /\ NumberOf(ledger'[doc'[p]]) = got'[p]
    BY DEF StampsRecorded, NumberOf, Recorded
  <2>1. /\ doc'[p] = doc[p] /\ got'[p] = got[p] /\ doc[p] \in Doc
        /\ pc[p] = "stamp" \/ (pc[p] = "record" /\ SetRow(doc[p], got[p]))
    BY <1>0, StampSteps DEF TypeInv, TypeOK, StepData
  <2>2. CASE pc[p] = "stamp"
    <3>1. Recorded(doc[p]) /\ NumberOf(ledger[doc[p]]) = got[p]
      BY <2>2 DEF PrintInv, StampsRecorded
    <3>2. PICK d \in Doc : d = doc[p]
      BY <2>1
    <3>3. Recorded(d)' /\ ledger'[d] = ledger[d]
      BY <1>0, <3>1, <3>2, RowSteps
    <3> QED BY <2>1, <3>1, <3>2, <3>3 DEF Recorded
  <2>3. CASE pc[p] = "record" /\ SetRow(doc[p], got[p])
    BY <2>1, <2>3, RecordedRow DEF Recorded
  <2> QED BY <2>1, <2>2, <2>3
<1>3. PrintedIsRecorded'
  <2> SUFFICES ASSUME NEW d \in Doc, printed'[d] # None
               PROVE  Recorded(d)' /\ NumberOf(ledger'[d]) = printed'[d]
    BY DEF PrintedIsRecorded, NumberOf
  <2>1. CASE printed'[d] = printed[d]
    BY <1>0, <2>1, RowSteps DEF PrintInv, PrintedIsRecorded
  <2>2. CASE printed'[d] # printed[d]
    <3>1. PICK p \in Pass : /\ ledger'[doc[p]] # None /\ doc[p] \in Doc
                            /\ Reply(doc[p], NumberOf(ledger'[doc[p]]))
      BY <1>0, <2>2, PrintSteps
    <3>2. d = doc[p] /\ printed'[d] = NumberOf(ledger'[d])
      BY <2>2, <3>1 DEF Reply, TypeInv, TypeOK
    <3> QED BY <3>1, <3>2 DEF Recorded
  <2> QED BY <2>1, <2>2
<1>4. NotesOnce'
  BY NextNotesOnce DEF PrintInv
<1> QED BY <1>1, <1>2, <1>3, <1>4 DEF PrintInv

\* While only first mints are made and every winner is its own, PrintInv holds.
LEMMA PrintInvHolds == Spec => [](OwnWinner => PrintInv)
<1>1. Init => PrintInv
  BY DEF Init, PrintInv, PrintedIsRecorded, RecordsApart, StampsRecorded, NotesOnce,
         Recorded, Doc
<1>2. TypeInv /\ (OnlyFirstMints => FirstMintInv) /\ (OwnWinner => PrintInv)
      /\ [Next]_vars => (OwnWinner => PrintInv)'
  <2> SUFFICES ASSUME TypeInv, OnlyFirstMints => FirstMintInv, OwnWinner => PrintInv,
                      [Next]_vars, OwnWinner'
               PROVE  PrintInv'
    OBVIOUS
  <2>1. OnlyFirstMints'
    BY DEF OwnWinner
  <2>2. OwnWinner
    BY <2>1, FirstMintsBefore, CountSteps DEF OwnWinner
  <2> QED BY <2>1, <2>2, FirstMintsBefore, FirstMintParts, NextPrintInv
<1> QED BY <1>1, <1>2, TypeCorrect, FirstMintsNeverShare, PTL DEF Spec, TypeInv

\* While only first mints are made, every number in use is one document's, and
\* every document prints the number of its row and no other document's; a
\* failed INSERT of a voucher ends the second promise.
THEOREM FirstMintsAgreeHolds == Spec => []FirstMintsAgree
<1>1. PrintInv => PrintsAgree
  BY DEF PrintInv, PrintsAgree, PrintedIsRecorded, NoSharedPrint, RecordsApart
<1> QED BY <1>1, PrintInvHolds, FirstMintsNeverShare, PTL DEF FirstMintsAgree

--------------------
\* The refinement.  It is about a service in which every document is under a
\* lock or requested once, staff correct nothing and no call fails.
Gapless == Doc = Locked \cup Note /\ MaxEdits = 0 /\ MaxFaults = 0

\* What a pass is about to record has no row yet, so it never loses a race.
Fresh ==
    \A p \in Pass :
        /\ pc[p] \notin {"handback", "winner"}
        /\ pc[p] \in {"draw", "record"} => ~Recorded(doc[p])

\* One pass works on a document.
Alone == \A p, q \in Pass : doc[p] # None /\ doc[p] = doc[q] => p = q

LEMMA AloneOn ==
    ASSUME Gapless, TypeInv, OnePass, NotesOnce PROVE Alone
  BY DEF Gapless, TypeInv, TypeOK, OnePass, NotesOnce, Alone

LEMMA NoFailure ==
    ASSUME Gapless, TypeInv
    PROVE  /\ \A p \in Pass : ~CallFails(p) /\ ~ReplyLost(p)
           /\ \A d \in Doc : ~Cancel(d)
           /\ ~Restart
<1>1. ~(faults < MaxFaults) /\ ~(edits < MaxEdits)
  BY DEF Gapless, TypeInv, TypeOK
<1>2. ~Edit /\ ~Fault("fails") /\ ~Fault("lostReply") /\ ~Fault("restart")
  BY <1>1 DEF Edit, Fault
<1> QED BY <1>2 DEF CallFails, ReplyLost, Cancel, Restart

LEMMA NothingHappens ==
    ASSUME Gapless, TypeInv PROVE OnlyFirstMints /\ OwnWinner
  BY DEF Gapless, TypeInv, TypeOK, OnlyFirstMints, OwnWinner

LEMMA NothingAfter ==
    ASSUME Gapless, TypeInv' PROVE OnlyFirstMints'
  BY DEF Gapless, TypeInv, TypeOK, OnlyFirstMints

\* A pass that no step of another kind concerns: it holds no number, or keeps
\* what it has.
Apart(p) ==
    \/ UNCHANGED <<pc[p], doc[p], got[p]>>
    \/ ~InHand(p) /\ ~InHand(p)'

\* A step draws a number, records one, or neither draws, records nor lets go.
LEMMA SeriesSteps ==
    ASSUME Gapless, TypeInv, TypeInv', Placed, NumbersApart, Fresh, [Next]_vars
    PROVE  \/ \E p \in Pass : Draw(p)
           \/ \E p \in Pass : Record(p) /\ ~Conflict(p) /\ SetRow(doc[p], got[p])
           \/ UNCHANGED db /\ \A p \in Pass : Apart(p)
<1> DEFINE Still == UNCHANGED db /\ \A p \in Pass : Apart(p)
<1>1. ASSUME NEW q \in Pass, NEW d \in Doc, StartStep(q, d) PROVE Still
  <2>1. UNCHANGED <<db, got>> /\ pc[q] = "idle" /\ pc'[q] \in {"meta", "lookup", "draw"}
        /\ \A p \in Pass \ {q} : pc'[p] = pc[p] /\ doc'[p] = doc[p]
    BY <1>1 DEF StartStep, StartOrder, StartDraft, StartManual, StartNote, Start,
                TypeInv, TypeOK
  <2> QED BY <2>1 DEF Apart, InHand, db
<1>2. ASSUME NEW q \in Pass, ReadMetafields(q) \/ Lookup(q) \/ Stamp(q) PROVE Still
  <2>1. /\ UNCHANGED db /\ ~InHand(q)
        /\ pc'[q] \in {"idle", "lookup", "draw", "rewind"}
        /\ \A p \in Pass \ {q} : pc'[p] = pc[p] /\ doc'[p] = doc[p] /\ got'[p] = got[p]
    BY <1>2 DEF ReadMetafields, Lookup, Stamp, Goto, Finish, InHand, TypeInv, TypeOK
  <2> QED BY <2>1 DEF Apart, InHand
<1>3. ASSUME NEW q \in Pass, Record(q)
      PROVE  ~Conflict(q) /\ SetRow(doc[q], got[q])
  <2>1. pc[q] = "record"
    BY <1>3 DEF Record
  <2>2. ~Conflict(q)
    BY <2>1 DEF Conflict, TakenByOther, Fresh, NumbersApart, InHand
  <2> QED BY <1>3, <2>2 DEF Record
<1>4. ASSUME NEW q \in Pass, Rewind(q) \/ Redraw(q) \/ Move(q) \/ HandBack(q) \/ Winner(q)
      PROVE  FALSE
  BY <1>4 DEF Rewind, Redraw, Move, HandBack, Winner, Placed, Fresh
<1>5. /\ \A q \in Pass : ~CallFails(q) /\ ~ReplyLost(q)
      /\ \A d \in Doc : ~Cancel(d)
      /\ ~Restart
  BY NoFailure
<1>6. ASSUME NEW d \in Doc, NEW s \in Store, EnterStore(d, s) \/ CorrectStore(d, s)
      PROVE  Still
  BY <1>6 DEF EnterStore, CorrectStore, job, Apart
<1>9. CASE UNCHANGED vars
  BY <1>9 DEF vars, db, Apart
<1>10. ASSUME NEW q \in Pass, PassStep(q) PROVE Draw(q) \/ Record(q) \/ Still
  <2> HIDE DEF Still
  <2> QED BY <1>2, <1>4, <1>10 DEF PassStep
<1>11. ASSUME NEW q \in Pass, NEW d \in Doc,
              StartOrder(q, d) \/ StartDraft(q, d) \/ StartManual(q, d) \/ StartNote(q, d)
       PROVE  Still
  BY <1>1, <1>11 DEF StartStep
<1>12. (\E q \in Pass : Draw(q) \/ Record(q)) \/ Still
  BY <1>5, <1>6, <1>9, <1>10, <1>11 DEF Next
<1> QED BY <1>3, <1>12

\* Fresh is inductive: a pass reads that its document has no row before it
\* draws, and nobody else works on that document.
LEMMA NextFresh ==
    ASSUME Gapless, TypeInv, TypeInv', Placed, NumbersApart, Alone, Fresh, [Next]_vars
    PROVE  Fresh'
<1>0. OnlyFirstMints' /\ \A d \in Doc : d # None
  BY NothingAfter, NoneAssumption
<1> SUFFICES ASSUME NEW p \in Pass
             PROVE  /\ pc'[p] \notin {"handback", "winner"}
                    /\ pc'[p] \in {"draw", "record"} => ledger'[doc'[p]] = None
  BY DEF Fresh, Recorded
<1> DEFINE Goal == /\ pc'[p] \notin {"handback", "winner"}
                   /\ pc'[p] \in {"draw", "record"} => ledger'[doc'[p]] = None
<1>1. ASSUME NEW q \in Pass, Draw(q) PROVE Goal
  BY <1>1 DEF Draw, Goto, Fresh, Recorded, TypeInv, TypeOK
<1>2. ASSUME NEW q \in Pass, Record(q), ~Conflict(q), SetRow(doc[q], got[q]) PROVE Goal
  <2>1. /\ pc[q] = "record" /\ pc'[q] \in {"idle", "stamp"} /\ doc[q] \in Doc
        /\ \A r \in Pass \ {q} : pc'[r] = pc[r] /\ doc'[r] = doc[r]
    BY <1>2 DEF Record, Goto, Finish, TypeInv, TypeOK, StepData
  <2>2. CASE p # q
    <3>1. pc[p] \in {"draw", "record"} => doc[p] # doc[q] /\ doc[p] \in Doc
      BY <1>0, <2>1, <2>2 DEF Alone, TypeInv, TypeOK, StepData
    <3>2. pc[p] \in {"draw", "record"} => ledger'[doc[p]] = ledger[doc[p]]
      BY <1>2, <3>1 DEF SetRow, TypeInv, TypeOK
    <3> QED BY <2>1, <2>2, <3>2 DEF Fresh, Recorded
  <2> QED BY <2>1, <2>2
<1>3. CASE UNCHANGED db /\ \A q \in Pass : ~Draw(q) /\ ~Record(q)
  <2>1. pc'[p] \in {"idle", "meta", "lookup", "stamp"} \/ UNCHANGED <<pc[p], doc[p]>>
        \/ (pc'[p] = "draw" /\ doc'[p] \in Doc /\ ledger[doc'[p]] = None)
    <3> DEFINE To == pc'[p] \in {"idle", "meta", "lookup", "stamp"} \/ UNCHANGED <<pc[p], doc[p]>>
                     \/ (pc'[p] = "draw" /\ doc'[p] \in Doc /\ ledger[doc'[p]] = None)
    <3>1. ASSUME NEW q \in Pass, NEW d \in Doc, StartStep(q, d) PROVE To
      BY <3>1 DEF StartStep, StartOrder, StartDraft, StartManual, StartNote, Start,
                  Recorded, TypeInv, TypeOK
    <3>2. ASSUME NEW q \in Pass, ReadMetafields(q) \/ Stamp(q) PROVE To
      BY <3>2 DEF ReadMetafields, Stamp, Goto, Finish, TypeInv, TypeOK
    <3>3. ASSUME NEW q \in Pass, Lookup(q) PROVE To
      <4>1. doc[q] \in Doc /\ pc'[q] # "rewind"
        BY <1>0, <3>3, NextStepPlaced DEF Lookup, TypeInv, TypeOK, StepData
      <4> QED BY <3>3, <4>1 DEF Lookup, Goto, Finish, TypeInv, TypeOK
    <3>4. ASSUME NEW q \in Pass, Rewind(q) \/ Redraw(q) \/ Move(q) \/ HandBack(q) \/ Winner(q)
          PROVE  FALSE
      BY <3>4 DEF Rewind, Redraw, Move, HandBack, Winner, Placed, Fresh
    <3>8. ASSUME NEW d \in Doc, NEW s \in Store, EnterStore(d, s) \/ CorrectStore(d, s)
          PROVE  To
      BY <3>8 DEF EnterStore, CorrectStore, job
    <3>10. CASE UNCHANGED vars
      BY <3>10 DEF vars
    <3>11. ASSUME NEW q \in Pass, PassStep(q) PROVE To
      <4> HIDE DEF To
      <4> QED BY <1>3, <3>2, <3>3, <3>4, <3>11 DEF PassStep
    <3> QED BY <3>1, <3>8, <3>10, <3>11, NoFailure DEF Next, StartStep
  <2> QED BY <1>3, <2>1 DEF Fresh, Recorded, db
<1>4. (\E q \in Pass : Draw(q) \/ (Record(q) /\ ~Conflict(q) /\ SetRow(doc[q], got[q])))
      \/ (UNCHANGED db /\ \A q \in Pass : ~Draw(q) /\ ~Record(q))
  <2>1. ASSUME NEW q \in Pass, Record(q) PROVE ~Conflict(q) /\ SetRow(doc[q], got[q])
    BY <2>1 DEF Record, Conflict, TakenByOther, Fresh, NumbersApart, InHand
  <2> QED BY <2>1, SeriesSteps
<1> QED BY <1>1, <1>2, <1>3, <1>4

\* What the mapping gives a document, from its row and what its passes drew.
Drawn(d) == {got[p] : p \in {q \in Pass : doc[q] = d /\ InHand(q)}}
HeldFrom(row, drawn) ==
    IF row # None THEN NumberOf(row)
    ELSE IF drawn = {} THEN None ELSE CHOOSE n \in drawn : TRUE

LEMMA HeldIs ==
    ASSUME NEW d \in Doc
    PROVE  /\ HeldBy(d) = HeldFrom(ledger[d], Drawn(d))
           /\ HeldBy(d)' = HeldFrom(ledger'[d], Drawn(d)')
<1>1. HeldBy(d) = HeldFrom(ledger[d], Drawn(d))
  BY DEF HeldBy, HeldFrom, Drawn, Recorded
<1>2. HeldBy(d)' = HeldFrom(ledger'[d], Drawn(d)')
  BY DEF HeldBy, HeldFrom, Drawn, Recorded, NumberOf
<1> QED BY <1>1, <1>2

LEMMA HeldOne == \A n : HeldFrom(None, {n}) = n
  BY DEF HeldFrom

\* Every step is a step of the series or leaves it alone: the draw takes the
\* next number for a document without one, the recording keeps it.
LEMMA SeriesStep ==
    ASSUME Gapless, TypeInv, TypeInv', Placed, NumbersApart, Alone, Alone', Fresh,
           [Next]_vars
    PROVE  [Series!SNext]_(Series!svars)
<1> DEFINE Same == counter' = counter /\ \A d \in Doc : HeldBy(d)' = HeldBy(d)
<1>0. Same => UNCHANGED Series!svars
  BY DEF Series!svars
<1>1. ASSUME NEW p \in Pass, Draw(p) PROVE Series!SNext
  <2>1. /\ doc[p] \in Doc /\ at[p] \in Store /\ ~Recorded(doc[p])
        /\ doc' = doc /\ ledger' = ledger /\ ~InHand(p) /\ InHand(p)'
        /\ counter' = [counter EXCEPT ![at[p]] = @ + 1]
        /\ got'[p] = [store |-> at[p], seq |-> counter[at[p]] + 1]
        /\ \A q \in Pass \ {p} : pc'[q] = pc[q] /\ got'[q] = got[q]
    BY <1>1 DEF Draw, Allocate, Goto, Fresh, InHand, TypeInv, TypeOK, StepData
  <2>2. PICK d \in Doc : d = doc[p]
    BY <2>1
  <2>3. \A q \in Pass : doc[q] = d => q = p
    BY <2>1, <2>2, NoneAssumption DEF Alone
  <2>4. HeldBy(d) = None
    <3>1. Drawn(d) = {}
      BY <2>1, <2>3 DEF Drawn
    <3> QED BY <2>1, <2>2, <3>1, HeldIs DEF HeldFrom, Recorded
  <2>5. HeldBy(d)' = got'[p]
    <3>1. Drawn(d)' = {got'[p]} /\ ledger'[d] = None
      BY <2>1, <2>2, <2>3 DEF Drawn, Recorded
    <3> QED BY <3>1, HeldIs, HeldOne
  <2>6. ASSUME NEW e \in Doc, e # d PROVE HeldBy(e)' = HeldBy(e)
    <3>1. \A q \in Pass : doc[q] = e => q # p /\ InHand(q)' = InHand(q) /\ got'[q] = got[q]
      BY <2>1, <2>2, <2>6 DEF InHand
    <3>2. Drawn(e)' = Drawn(e)
      BY <2>1, <3>1 DEF Drawn
    <3> QED BY <2>1, <3>2, HeldIs
  <2>7. [e \in Doc |-> HeldBy(e)]' =
        [[e \in Doc |-> HeldBy(e)] EXCEPT ![d] = [store |-> at[p], seq |-> counter[at[p]] + 1]]
    BY <2>1, <2>5, <2>6
  <2>8. Series!Issue(d, at[p])
    BY <2>1, <2>4, <2>7 DEF Series!Issue
  <2> QED BY <2>1, <2>8 DEF Series!SNext
<1>2. ASSUME NEW p \in Pass, Record(p), ~Conflict(p), SetRow(doc[p], got[p]) PROVE Same
  <2>1. /\ pc[p] = "record" /\ doc[p] \in Doc /\ counter' = counter /\ InHand(p)
        /\ ~InHand(p)'
        /\ \A q \in Pass \ {p} : pc'[q] = pc[q] /\ got'[q] = got[q] /\ doc'[q] = doc[q]
    BY <1>2 DEF Record, Goto, Finish, InHand, TypeInv, TypeOK, StepData
  <2>2. PICK d \in Doc : d = doc[p]
    BY <2>1
  <2>3. HeldBy(d) = got[p]
    <3>1. Drawn(d) = {got[p]} /\ ledger[d] = None
      BY <1>2, <2>1, <2>2, NoneAssumption DEF Drawn, Conflict, Recorded, Alone
    <3> QED BY <3>1, HeldIs, HeldOne
  <2>4. ledger'[d] # None /\ NumberOf(ledger'[d]) = got[p]
    BY <1>2, <2>1, <2>2, RecordedRow
  <2>5. HeldBy(d)' = got[p]
    BY <2>4, HeldIs DEF HeldFrom
  <2>6. ASSUME NEW e \in Doc, e # d PROVE HeldBy(e)' = HeldBy(e)
    <3>1. ledger'[e] = ledger[e]
      BY <1>2, <2>2, <2>6 DEF SetRow, TypeInv, TypeOK
    <3>2. /\ \A q \in Pass \ {p} : /\ InHand(q)' = InHand(q)
                                    /\ got'[q] = got[q] /\ doc'[q] = doc[q]
          /\ doc[p] # e
      BY <2>1, <2>2, <2>6 DEF InHand
    <3>3. Drawn(e)' = Drawn(e)
      BY <2>1, <3>2 DEF Drawn
    <3> QED BY <3>1, <3>3, HeldIs
  <2> QED BY <2>1, <2>3, <2>5, <2>6
<1>3. ASSUME UNCHANGED db, \A p \in Pass : Apart(p) PROVE Same
  <2>1. ASSUME NEW d \in Doc PROVE HeldBy(d)' = HeldBy(d)
    <3>1. \A p \in Pass : (doc'[p] = d /\ InHand(p)') <=> (doc[p] = d /\ InHand(p))
      BY <1>3 DEF Apart, InHand
    <3>2. \A p \in Pass : InHand(p)' => got'[p] = got[p]
      BY <1>3 DEF Apart, InHand
    <3>3. Drawn(d)' = Drawn(d)
      BY <3>1, <3>2 DEF Drawn
    <3> QED BY <1>3, <3>3, HeldIs DEF db
  <2>2. counter' = counter
    BY <1>3 DEF db
  <2> QED BY <2>1, <2>2
<1> HIDE DEF Same
<1> QED BY <1>0, <1>1, <1>2, <1>3, SeriesSteps

\* Where every document is under a lock or requested once, nothing is corrected
\* and no call fails, the five calls of a mint implement the series: a document
\* takes the next number in one step, keeps it, and no number is skipped or
\* given twice.
THEOREM ImplementsSeriesHolds == ASSUME Gapless PROVE Spec => ImplementsSeries
<1>1. Init => Series!SInit /\ Fresh
  <2> SUFFICES ASSUME Init PROVE Series!SInit /\ Fresh
    OBVIOUS
  <2>1. \A d \in Doc : Drawn(d) = {} /\ ledger[d] = None
    BY DEF Init, Drawn, InHand
  <2>2. \A d \in Doc : HeldBy(d) = None
    BY <2>1, HeldIs DEF HeldFrom
  <2> QED BY <2>2 DEF Init, Series!SInit, Fresh
<1> DEFINE Inv == TypeInv /\ OnePass /\ (OnlyFirstMints => FirstMintInv)
                  /\ (OwnWinner => PrintInv)
<1>2. Spec => []Inv
  BY TypeCorrect, LockHolds, FirstMintsNeverShare, PrintInvHolds, PTL DEF TypeInv
<1>3. Inv => TypeInv /\ Placed /\ NumbersApart /\ Alone
  BY NothingHappens, FirstMintParts, AloneOn DEF PrintInv
<1>4. Inv /\ Inv' /\ Fresh /\ [Next]_vars => Fresh'
  BY <1>3, NextFresh
<1>5. Inv' => TypeInv' /\ Alone'
  BY <1>3, PTL
<1>6. Inv /\ Inv' /\ Fresh /\ [Next]_vars => [Series!SNext]_(Series!svars)
  BY <1>3, <1>5, SeriesStep
<1> QED BY <1>1, <1>2, <1>4, <1>6, PTL DEF Spec, ImplementsSeries, Series!SSpec

--------------------
\* Re-issues.  A document is plain as long as its row is active at its store
\* and its passes work with that store: no pass renumbers it.
Renumbering(p) == pc[p] \in {"rewind", "redraw", "move"}
PlainPass(p) == ~Renumbering(p) /\ (pc[p] \notin {"idle", "meta"} => at[p] = place[doc[p]])
PlainRow(d) == Recorded(d) => ledger[d].status = "active" /\ ledger[d].store = place[d]
Plain(d) == PlainRow(d) /\ \A p \in Pass : doc[p] = d => PlainPass(p)

\* Before the first edit every document is plain, after it all but the edited.
Settled ==
    /\ edits = 0 => \A d \in Doc : Plain(d)
    /\ edits = 1 => \E e \in Locked : \A d \in Doc \ {e} : Plain(d)

\* A number drawn is of the store of its pass.
AtStore == \A p \in Pass : pc[p] \in {"record", "handback", "winner"} => got[p].store = at[p]

\* What a pass renumbers has a row, and the number to reclaim is that row's.
Known ==
    \A p \in Pass : Renumbering(p) =>
        /\ Recorded(doc[p])
        /\ pc[p] = "rewind" => NumberOf(seen[p]) = NumberOf(ledger[doc[p]])

ReissueInv == Settled /\ AtStore /\ Known /\ RecordsApart /\ NoSharedNumber /\ CounterCovers

LEMMA CountsBefore ==
    ASSUME TypeInv, OneReissue', [Next]_vars
    PROVE  /\ OneReissue
           /\ \A p \in Pass : ~CallFails(p) /\ ~ReplyLost(p)
           /\ ~Restart
<1>0. faults \in Nat /\ edits \in Nat /\ faults' = 0 /\ edits' <= 1
  BY DEF TypeInv, TypeOK, OneReissue
<1>a. Correctable \cup Cancellable \subseteq Locked
  BY DEF OneReissue
<1>1. ~Fault("fails") /\ ~Fault("lostReply") /\ ~Fault("restart")
  BY <1>0 DEF Fault
<1>2. (\A p \in Pass : ~CallFails(p) /\ ~ReplyLost(p)) /\ ~Restart
  BY <1>1 DEF CallFails, ReplyLost, Restart
<1>3. faults = 0
  BY <1>0, CountSteps
<1>4. edits' = edits \/ edits' = edits + 1
  <2>1. ASSUME NEW p \in Pass, NEW d \in Doc, StartStep(p, d) PROVE edits' = edits
    BY <2>1 DEF StartStep, StartOrder, StartDraft, StartManual, StartNote, Start
  <2>2. ASSUME NEW p \in Pass, PassStep(p) PROVE edits' = edits
    BY <2>2 DEF PassStep, ReadMetafields, Lookup, Rewind, Redraw, Move, Draw, Record,
                HandBack, Winner, Stamp
  <2>3. ASSUME NEW d \in Doc, NEW s \in Store, EnterStore(d, s) \/ CorrectStore(d, s)
        PROVE  edits' \in {edits, edits + 1}
    BY <2>3 DEF EnterStore, CorrectStore, Edit
  <2>4. ASSUME NEW d \in Doc, Cancel(d) PROVE edits' = edits + 1
    BY <2>4 DEF Cancel, Edit
  <2>5. CASE UNCHANGED vars
    BY <2>5 DEF vars
  <2> QED BY <1>2, <2>1, <2>2, <2>3, <2>4, <2>5 DEF Next, StartStep
<1>5. edits <= 1
  BY <1>0, <1>4
<1> QED BY <1>2, <1>3, <1>5, <1>a DEF OneReissue

\* One document at most is renumbered, and by one pass.
LEMMA OneRenumbers ==
    ASSUME TypeInv, OnePass, Settled, OneReissue
    PROVE  /\ \A p \in Pass : Renumbering(p) => doc[p] \in Locked
           /\ \A p, q \in Pass : Renumbering(p) /\ Renumbering(q) => p = q
<1>1. \A p \in Pass : Renumbering(p) => doc[p] \in Doc /\ ~Plain(doc[p])
  BY DEF Renumbering, Plain, PlainPass, TypeInv, TypeOK, StepData
<1>2. edits \in {0, 1}
  BY DEF OneReissue, TypeInv, TypeOK
<1>3. CASE edits = 0
  BY <1>1, <1>3 DEF Settled
<1>4. CASE edits = 1
  <2>1. PICK e \in Locked : \A d \in Doc \ {e} : Plain(d)
    BY <1>4 DEF Settled
  <2>2. \A p \in Pass : Renumbering(p) => doc[p] = e
    BY <1>1, <2>1
  <2> QED BY <2>1, <2>2 DEF OnePass
<1> QED BY <1>2, <1>3, <1>4

\* Numbers and counters: a number is below a counter that has given it out.
Below(n, c) == n.seq <= c[n.store]

LEMMA AllocateBelow ==
    ASSUME TypeInv, NEW p \in Pass, at[p] \in Store, Allocate(p),
           NEW n \in Number, Below(n, counter)
    PROVE  Below(n, counter') /\ n # got'[p]
<1>1. /\ counter[at[p]] \in Nat /\ n.store \in Store /\ n.seq \in Nat /\ counter[n.store] \in Nat
      /\ counter'[at[p]] = counter[at[p]] + 1
      /\ n.store # at[p] => counter'[n.store] = counter[n.store]
      /\ got'[p] = [store |-> at[p], seq |-> counter[at[p]] + 1]
  BY DEF Allocate, TypeInv, TypeOK, Number
<1> QED BY <1>1 DEF Below

LEMMA AllocateTip ==
    ASSUME TypeInv, NEW p \in Pass, at[p] \in Store, Allocate(p)
    PROVE  /\ got'[p] \in Number /\ Below(got'[p], counter')
           /\ \A q \in Pass \ {p} : got'[q] = got[q]
<1>1. /\ counter[at[p]] \in Nat
      /\ counter'[at[p]] = counter[at[p]] + 1
      /\ got'[p] = [store |-> at[p], seq |-> counter[at[p]] + 1]
      /\ \A q \in Pass \ {p} : got'[q] = got[q]
  BY DEF Allocate, TypeInv, TypeOK
<1> QED BY <1>1 DEF Below, Number

LEMMA RewindBelow ==
    ASSUME TypeInv, NEW m \in Number, RewindIfTip(m),
           NEW n \in Number, Below(n, counter), n # m
    PROVE  Below(n, counter')
<1>1. /\ m.store \in Store /\ m.seq \in Nat \ {0} /\ n.store \in Store /\ n.seq \in Nat \ {0}
      /\ counter[n.store] \in Nat /\ counter[m.store] \in Nat
      /\ m = [store |-> m.store, seq |-> m.seq] /\ n = [store |-> n.store, seq |-> n.seq]
  BY DEF Number, TypeInv, TypeOK
<1>2. /\ counter'[m.store] = IF counter[m.store] = m.seq THEN m.seq - 1 ELSE counter[m.store]
      /\ n.store # m.store => counter'[n.store] = counter[n.store]
  BY <1>1 DEF RewindIfTip, TypeInv, TypeOK
<1>3. n.store = m.store => n.seq # m.seq
  BY <1>1
<1>4. CASE n.store # m.store
  BY <1>2, <1>4 DEF Below
<1>5. CASE n.store = m.store
  BY <1>1, <1>2, <1>3, <1>5 DEF Below
<1> QED BY <1>4, <1>5

LEMMA CoversIs ==
    /\ TypeInv => (CounterCovers <=>
          /\ \A d \in Doc : Recorded(d) /\ ~Reissuing(d) => Below(NumberOf(ledger[d]), counter)
          /\ \A p \in Pass : InHand(p) => Below(got[p], counter))
    /\ TypeInv' => (CounterCovers' <=>
          /\ \A d \in Doc : Recorded(d)' /\ ~Reissuing(d)' => Below(NumberOf(ledger'[d]), counter')
          /\ \A p \in Pass : InHand(p)' => Below(got'[p], counter'))
<1>1. ASSUME TypeInv
      PROVE  CounterCovers <=>
          /\ \A d \in Doc : Recorded(d) /\ ~Reissuing(d) => Below(NumberOf(ledger[d]), counter)
          /\ \A p \in Pass : InHand(p) => Below(got[p], counter)
  <2>1. \A d \in Doc : Recorded(d) => /\ ledger[d].seq \in Nat \ {0}
                                      /\ counter[ledger[d].store] \in Nat
    BY <1>1 DEF TypeInv, TypeOK, Recorded, Row
  <2>2. \A p \in Pass : InHand(p) => got[p].seq \in Nat \ {0} /\ counter[got[p].store] \in Nat
    BY <1>1 DEF TypeInv, TypeOK, StepData, InHand, Number
  <2> QED BY <2>1, <2>2 DEF CounterCovers, Below, NumberOf
<1>2. ASSUME TypeInv'
      PROVE  CounterCovers' <=>
          /\ \A d \in Doc : Recorded(d)' /\ ~Reissuing(d)' => Below(NumberOf(ledger'[d]), counter')
          /\ \A p \in Pass : InHand(p)' => Below(got'[p], counter')
  <2>1. \A d \in Doc : Recorded(d)' => /\ ledger'[d].seq \in Nat \ {0}
                                       /\ counter'[ledger'[d].store] \in Nat
    BY <1>2 DEF TypeInv, TypeOK, Recorded, Row
  <2>2. \A p \in Pass : InHand(p)' => got'[p].seq \in Nat \ {0} /\ counter'[got'[p].store] \in Nat
    BY <1>2 DEF TypeInv, TypeOK, StepData, InHand, Number
  <2> QED BY <2>1, <2>2 DEF CounterCovers, Below, NumberOf
<1> QED BY <1>1, <1>2

\* The numbers of rows and of passes are numbers.
LEMMA NumbersTyped ==
    ASSUME TypeInv
    PROVE  /\ \A d \in Doc : Recorded(d) => NumberOf(ledger[d]) \in Number
           /\ \A p \in Pass : InHand(p) => got[p] \in Number /\ doc[p] \in Doc
  BY DEF TypeInv, TypeOK, StepData, Recorded, NumberOf, Row, Number, InHand

Numbers == RecordsApart /\ NoSharedNumber /\ CounterCovers

\* A step that no number is touched by.
Silent ==
    /\ counter' = counter
    /\ \A d \in Doc : /\ Recorded(d)' <=> Recorded(d)
                      /\ Recorded(d) => NumberOf(ledger'[d]) = NumberOf(ledger[d])
    /\ \A p \in Pass :
          \/ UNCHANGED <<pc[p], doc[p], got[p]>>
          \/ /\ pc[p] \notin {"redraw", "move", "record", "handback"}
             /\ pc'[p] \notin {"redraw", "move", "record", "handback"}

LEMMA SilentNumbers ==
    ASSUME TypeInv, TypeInv', Numbers, Silent PROVE Numbers'
<1>1. \A p \in Pass : InHand(p)' => InHand(p) /\ got'[p] = got[p]
  BY DEF Silent, InHand
<1>2. \A d \in Doc : Reissuing(d) => Reissuing(d)'
  BY DEF Silent, Reissuing
<1>3. RecordsApart'
  BY DEF Numbers, RecordsApart, Silent, NumberOf
<1>4. NoSharedNumber'
  <2>1. ASSUME NEW p \in Pass, NEW d \in Doc, InHand(p)', Recorded(d)', ~Reissuing(d)'
        PROVE  got'[p] # NumberOf(ledger'[d])
    BY <1>1, <1>2, <2>1 DEF Numbers, NoSharedNumber, Silent
  <2>2. \A p, q \in Pass : InHand(p)' /\ InHand(q)' /\ got'[p] = got'[q] => p = q
    BY <1>1 DEF Numbers, NoSharedNumber
  <2> QED BY <2>1, <2>2 DEF NoSharedNumber, NumberOf
<1>5. CounterCovers'
  <2>1. ASSUME NEW d \in Doc, Recorded(d)', ~Reissuing(d)'
        PROVE  Below(NumberOf(ledger'[d]), counter')
    BY <1>2, <2>1, CoversIs DEF Numbers, Silent
  <2>2. ASSUME NEW p \in Pass, InHand(p)' PROVE Below(got'[p], counter')
    BY <1>1, <2>2, CoversIs DEF Numbers, Silent
  <2> QED BY <2>1, <2>2, CoversIs
<1> QED BY <1>3, <1>4, <1>5 DEF Numbers

\* A draw, of a first mint or of a re-issue, gives a number nobody has.
LEMMA AllocateNumbers ==
    ASSUME TypeInv, TypeInv', Numbers, NEW p \in Pass, Draw(p) \/ Redraw(p)
    PROVE  Numbers'
<1>1. /\ Allocate(p) /\ at[p] \in Store /\ ledger' = ledger /\ doc' = doc
      /\ ~InHand(p)
      /\ \A q \in Pass \ {p} : pc'[q] = pc[q]
      /\ pc[p] = "redraw" <=> pc'[p] = "move"
      /\ pc[p] # "move" /\ pc'[p] # "redraw"
  BY DEF Draw, Redraw, Goto, InHand, TypeInv, TypeOK, StepData
<1>2. /\ got'[p] \in Number /\ Below(got'[p], counter')
      /\ \A q \in Pass \ {p} : got'[q] = got[q]
  BY <1>1, AllocateTip
<1>3. \A n \in Number : Below(n, counter) => Below(n, counter') /\ n # got'[p]
  BY <1>1, AllocateBelow
<1>4. \A q \in Pass : InHand(q) => got[q] \in Number /\ Below(got[q], counter)
  BY NumbersTyped, CoversIs DEF Numbers
<1>5. \A d \in Doc : /\ Recorded(d)' <=> Recorded(d)
                     /\ Reissuing(d)' <=> Reissuing(d)
  BY <1>1 DEF Recorded, Reissuing
<1>6. \A d \in Doc : Recorded(d) /\ ~Reissuing(d) =>
          NumberOf(ledger[d]) \in Number /\ Below(NumberOf(ledger[d]), counter)
  BY NumbersTyped, CoversIs DEF Numbers
<1>7. \A q \in Pass \ {p} : InHand(q)' => InHand(q)
  BY <1>1 DEF InHand
<1>8. RecordsApart'
  BY <1>1 DEF Numbers, RecordsApart, Recorded, NumberOf
<1>9. NoSharedNumber'
  <2>1. \A q \in Pass \ {p} : InHand(q)' => got'[q] # got'[p]
    BY <1>2, <1>3, <1>4, <1>7
  <2>2. \A q, r \in Pass : InHand(q)' /\ InHand(r)' /\ got'[q] = got'[r] => q = r
    BY <1>2, <1>7, <2>1 DEF Numbers, NoSharedNumber
  <2>3. ASSUME NEW q \in Pass, NEW d \in Doc, InHand(q)', Recorded(d)', ~Reissuing(d)'
        PROVE  got'[q] # NumberOf(ledger'[d])
    <3>1. CASE q = p
      BY <1>1, <1>3, <1>5, <1>6, <2>3, <3>1
    <3>2. CASE q # p
      BY <1>1, <1>2, <1>5, <1>7, <2>3, <3>2 DEF Numbers, NoSharedNumber
    <3> QED BY <3>1, <3>2
  <2> QED BY <2>2, <2>3 DEF NoSharedNumber, NumberOf
<1>10. CounterCovers'
  <2>1. ASSUME NEW d \in Doc, Recorded(d)', ~Reissuing(d)'
        PROVE  Below(NumberOf(ledger'[d]), counter')
    BY <1>1, <1>3, <1>5, <1>6, <2>1
  <2>2. ASSUME NEW q \in Pass, InHand(q)' PROVE Below(got'[q], counter')
    BY <1>2, <1>3, <1>4, <1>7, <2>2
  <2> QED BY <2>1, <2>2, CoversIs
<1> QED BY <1>8, <1>9, <1>10 DEF Numbers

\* A lost race lets go of the number it drew: it was the tip, or stays unused.
LEMMA HandBackNumbers ==
    ASSUME TypeInv, TypeInv', Numbers, NEW p \in Pass, HandBack(p)
    PROVE  Numbers'
<1>1. /\ InHand(p) /\ ~InHand(p)' /\ UNCHANGED <<ledger, got, doc>> /\ RewindIfTip(got[p])
      /\ \A q \in Pass \ {p} : pc'[q] = pc[q]
      /\ pc[p] = "handback" /\ pc'[p] = "winner"
  BY DEF HandBack, Goto, InHand, TypeInv, TypeOK
<1>2. got[p] \in Number
  BY <1>1, NumbersTyped
<1>3. \A n \in Number : Below(n, counter) /\ n # got[p] => Below(n, counter')
  BY <1>1, <1>2, RewindBelow
<1>4. \A q \in Pass \ {p} : InHand(q) =>
          got[q] \in Number /\ Below(got[q], counter) /\ got[q] # got[p]
  BY <1>1, NumbersTyped, CoversIs DEF Numbers, NoSharedNumber
<1>5. \A d \in Doc : /\ Recorded(d)' <=> Recorded(d)
                     /\ Reissuing(d)' <=> Reissuing(d)
  BY <1>1 DEF Recorded, Reissuing
<1>6. \A d \in Doc : Recorded(d) /\ ~Reissuing(d) =>
          /\ NumberOf(ledger[d]) \in Number /\ Below(NumberOf(ledger[d]), counter)
          /\ NumberOf(ledger[d]) # got[p]
  BY <1>1, NumbersTyped, CoversIs DEF Numbers, NoSharedNumber
<1>7. \A q \in Pass : InHand(q)' => InHand(q) /\ q # p
  BY <1>1 DEF InHand
<1>8. RecordsApart' /\ NoSharedNumber'
  BY <1>1, <1>5, <1>7 DEF Numbers, RecordsApart, NoSharedNumber, NumberOf
<1>9. CounterCovers'
  <2>1. ASSUME NEW d \in Doc, Recorded(d)', ~Reissuing(d)'
        PROVE  Below(NumberOf(ledger'[d]), counter')
    BY <1>1, <1>3, <1>5, <1>6, <2>1
  <2>2. ASSUME NEW q \in Pass, InHand(q)' PROVE Below(got'[q], counter')
    BY <1>1, <1>3, <1>4, <1>7, <2>2
  <2> QED BY <2>1, <2>2, CoversIs
<1> QED BY <1>8, <1>9 DEF Numbers

\* The rewind of a re-issue gives back the number of the row that is to move.
LEMMA RewindNumbers ==
    ASSUME TypeInv, TypeInv', Numbers, Known, NEW p \in Pass, Rewind(p),
           \A q \in Pass : Renumbering(q) => q = p
    PROVE  Numbers'
<1> DEFINE n == NumberOf(ledger[doc[p]])
<1>1. /\ UNCHANGED <<ledger, got, doc>> /\ doc[p] \in Doc /\ Recorded(doc[p])
      /\ ~InHand(p) /\ ~InHand(p)' /\ pc[p] = "rewind" /\ pc'[p] = "redraw"
      /\ \A q \in Pass \ {p} : pc'[q] = pc[q]
      /\ NumberOf(seen[p]) = n /\ RewindIfTip(seen[p])
  BY DEF Rewind, Goto, InHand, Known, Renumbering, TypeInv, TypeOK, StepData
<1>2. n \in Number /\ RewindIfTip(n)
  <2>1. n \in Number
    BY <1>1, NumbersTyped
  <2>2. seen[p].store = n.store /\ seen[p].seq = n.seq
    BY <1>1 DEF NumberOf
  <2> QED BY <1>1, <2>1, <2>2 DEF RewindIfTip
<1>3. \A m \in Number : Below(m, counter) /\ m # n => Below(m, counter')
  BY <1>2, RewindBelow
<1>4. \A d \in Doc : /\ Recorded(d)' <=> Recorded(d)
                     /\ ~Reissuing(d)' => ~Reissuing(d) /\ d # doc[p]
  BY <1>1 DEF Recorded, Reissuing
<1>5. \A q \in Pass : InHand(q)' => InHand(q)
  BY <1>1 DEF InHand
<1>6. RecordsApart' /\ NoSharedNumber'
  BY <1>1, <1>4, <1>5 DEF Numbers, RecordsApart, NoSharedNumber, NumberOf
<1>7. ~Reissuing(doc[p])
  BY <1>1 DEF Reissuing, Renumbering
<1>8. CounterCovers'
  <2>1. ASSUME NEW d \in Doc, Recorded(d)', ~Reissuing(d)'
        PROVE  Below(NumberOf(ledger'[d]), counter')
    <3>1. Recorded(d) /\ ~Reissuing(d) /\ d # doc[p]
      BY <1>4, <2>1
    <3>2. NumberOf(ledger[d]) \in Number /\ Below(NumberOf(ledger[d]), counter)
      BY <3>1, NumbersTyped, CoversIs DEF Numbers
    <3>3. NumberOf(ledger[d]) # n
      BY <1>1, <3>1 DEF Numbers, RecordsApart
    <3> QED BY <1>1, <1>3, <3>2, <3>3
  <2>2. ASSUME NEW q \in Pass, InHand(q)' PROVE Below(got'[q], counter')
    <3>1. InHand(q) /\ got[q] \in Number /\ Below(got[q], counter)
      BY <1>5, <2>2, NumbersTyped, CoversIs DEF Numbers
    <3>2. got[q] # n
      BY <1>1, <1>7, <3>1 DEF Numbers, NoSharedNumber
    <3> QED BY <1>1, <1>3, <3>1, <3>2
  <2> QED BY <2>1, <2>2, CoversIs
<1> QED BY <1>6, <1>8 DEF Numbers

\* What a row takes, at the INSERT of a first mint or the move of a re-issue, is
\* the number the pass held alone.
LEMMA WriteNumbers ==
    ASSUME TypeInv, TypeInv', Numbers, NEW p \in Pass, InHand(p), ~InHand(p)',
           SetRow(doc[p], got[p]), ~TakenByOther(doc[p], got[p]), counter' = counter,
           pc'[p] \notin {"redraw", "move"},
           \A q \in Pass \ {p} : pc'[q] = pc[q] /\ got'[q] = got[q] /\ doc'[q] = doc[q]
    PROVE  Numbers'
<1>1. doc[p] \in Doc /\ got[p] \in Number
  BY NumbersTyped
<1>2. /\ ledger'[doc[p]] # None /\ NumberOf(ledger'[doc[p]]) = got[p]
      /\ \A d \in Doc \ {doc[p]} : ledger'[d] = ledger[d]
  <2>1. ledger'[doc[p]] = [store |-> got[p].store, seq |-> got[p].seq, status |-> "active"]
        /\ \A d \in Doc \ {doc[p]} : ledger'[d] = ledger[d]
    BY <1>1 DEF SetRow, TypeInv, TypeOK
  <2>2. ledger'[doc[p]] \in Row
    BY <1>1, <2>1 DEF Number, Row
  <2>3. NumberOf(ledger'[doc[p]]) = got[p]
    BY <1>1, <2>1 DEF NumberOf, Number
  <2> QED BY <2>1, <2>2, <2>3, NoneAssumption
<1>3. \A d \in Doc \ {doc[p]} : Recorded(d) => NumberOf(ledger[d]) # got[p]
  BY DEF TakenByOther
<1>4. \A q \in Pass : InHand(q)' => InHand(q) /\ q # p /\ got'[q] = got[q] /\ got[q] # got[p]
  BY DEF InHand, Numbers, NoSharedNumber
<1>5. \A d \in Doc \ {doc[p]} : /\ Recorded(d)' <=> Recorded(d)
                                /\ ~Reissuing(d)' => ~Reissuing(d)
  BY <1>2 DEF Recorded, Reissuing
<1>6. RecordsApart'
  BY <1>2, <1>3, <1>5 DEF Numbers, RecordsApart, NumberOf
<1>7. NoSharedNumber'
  <2>1. ASSUME NEW q \in Pass, NEW d \in Doc, InHand(q)', Recorded(d)', ~Reissuing(d)'
        PROVE  got'[q] # NumberOf(ledger'[d])
    <3>1. CASE d = doc[p]
      BY <1>2, <1>4, <2>1, <3>1
    <3>2. CASE d # doc[p]
      BY <1>2, <1>4, <1>5, <2>1, <3>2 DEF Numbers, NoSharedNumber
    <3> QED BY <3>1, <3>2
  <2>2. \A q, r \in Pass : InHand(q)' /\ InHand(r)' /\ got'[q] = got'[r] => q = r
    BY <1>4 DEF Numbers, NoSharedNumber
  <2> QED BY <2>1, <2>2 DEF NoSharedNumber, NumberOf
<1>8. CounterCovers'
  <2>1. ASSUME NEW d \in Doc, Recorded(d)', ~Reissuing(d)'
        PROVE  Below(NumberOf(ledger'[d]), counter')
    <3>1. CASE d = doc[p]
      <4>1. Below(got[p], counter)
        BY CoversIs DEF Numbers
      <4> QED BY <1>2, <3>1, <4>1
    <3>2. CASE d # doc[p]
      <4>1. Below(NumberOf(ledger[d]), counter)
        BY <1>5, <2>1, <3>2, CoversIs DEF Numbers
      <4> QED BY <1>2, <3>2, <4>1
    <3> QED BY <3>1, <3>2
  <2>2. ASSUME NEW q \in Pass, InHand(q)' PROVE Below(got'[q], counter')
    BY <1>4, <2>2, CoversIs DEF Numbers
  <2> QED BY <2>1, <2>2, CoversIs
<1> QED BY <1>6, <1>7, <1>8 DEF Numbers

\* The last call of either path: the row is written, or the INSERT conflicts
\* and the number stays in hand.  The move of a re-issue never conflicts.
LEMMA RecordNumbers ==
    ASSUME TypeInv, TypeInv', Numbers, NEW p \in Pass, Record(p)
    PROVE  Numbers'
<1>1. pc[p] = "record" /\ InHand(p) /\ doc[p] \in Doc /\ counter' = counter
  BY NumbersTyped DEF Record, InHand
<1>2. CASE Conflict(p)
  <2>1. /\ Goto(p, "handback") /\ UNCHANGED <<ledger, got, doc>> /\ pc'[p] = "handback"
        /\ \A q \in Pass \ {p} : pc'[q] = pc[q]
    BY <1>2 DEF Record, Goto, TypeInv, TypeOK
  <2>2. \A q \in Pass : InHand(q)' <=> InHand(q)
    BY <1>1, <2>1 DEF InHand
  <2>3. \A d \in Doc : /\ Recorded(d)' <=> Recorded(d)
                       /\ Reissuing(d)' <=> Reissuing(d)
    BY <1>1, <2>1 DEF Recorded, Reissuing
  <2>4. RecordsApart' /\ NoSharedNumber' /\ CounterCovers'
    BY <1>1, <2>1, <2>2, <2>3 DEF Numbers, RecordsApart, NoSharedNumber, CounterCovers, NumberOf
  <2> QED BY <2>4 DEF Numbers
<1>3. CASE ~Conflict(p)
  <2>1. /\ SetRow(doc[p], got[p]) /\ ~TakenByOther(doc[p], got[p])
        /\ pc'[p] \in {"idle", "stamp"}
        /\ \A q \in Pass \ {p} : pc'[q] = pc[q] /\ got'[q] = got[q] /\ doc'[q] = doc[q]
    BY <1>3 DEF Record, Conflict, Goto, Finish, TypeInv, TypeOK
  <2>2. ~InHand(p)'
    BY <2>1 DEF InHand
  <2> QED BY <1>1, <2>1, <2>2, WriteNumbers
<1> QED BY <1>2, <1>3

LEMMA MoveNumbers ==
    ASSUME TypeInv, TypeInv', Numbers, NEW p \in Pass, Move(p),
           \A q \in Pass : Renumbering(q) => q = p
    PROVE  Numbers' /\ SetRow(doc[p], got[p])
<1>1. pc[p] = "move" /\ InHand(p) /\ doc[p] \in Doc /\ counter' = counter
  BY NumbersTyped DEF Move, InHand
<1>2. ~TakenByOther(doc[p], got[p])
  <2>1. \A d \in Doc \ {doc[p]} : ~Reissuing(d)
    BY DEF Reissuing, Renumbering
  <2> QED BY <1>1, <2>1 DEF TakenByOther, Numbers, NoSharedNumber
<1>3. /\ SetRow(doc[p], got[p]) /\ pc'[p] \in {"idle", "stamp"}
      /\ \A q \in Pass \ {p} : pc'[q] = pc[q] /\ got'[q] = got[q] /\ doc'[q] = doc[q]
  BY <1>2 DEF Move, AfterMove, Goto, Finish, TypeInv, TypeOK
<1>4. ~InHand(p)'
  BY <1>3 DEF InHand
<1> QED BY <1>1, <1>2, <1>3, <1>4, WriteNumbers

\* Any other step of a service that does not fail touches no number.
LEMMA OtherSteps ==
    ASSUME TypeInv, OneReissue', [Next]_vars,
           \A p \in Pass : /\ ~Draw(p) /\ ~Redraw(p) /\ ~Rewind(p)
                           /\ ~Move(p) /\ ~Record(p) /\ ~HandBack(p)
    PROVE  Silent
<1>1. ASSUME NEW q \in Pass, NEW d \in Doc,
             StartOrder(q, d) \/ StartDraft(q, d) \/ StartManual(q, d) \/ StartNote(q, d)
      PROVE  Silent
  <2>1. /\ UNCHANGED <<counter, ledger, got>> /\ pc[q] = "idle"
        /\ pc'[q] \in {"meta", "lookup", "draw"}
        /\ \A p \in Pass \ {q} : pc'[p] = pc[p] /\ doc'[p] = doc[p]
    BY <1>1 DEF StartOrder, StartDraft, StartManual, StartNote, Start, db, TypeInv, TypeOK
  <2> QED BY <2>1 DEF Silent, Recorded, NumberOf
<1>2. ASSUME NEW q \in Pass, ReadMetafields(q) \/ Lookup(q) \/ Stamp(q) \/ Winner(q)
      PROVE  Silent
  <2>1. /\ UNCHANGED <<counter, ledger>> /\ pc[q] \in {"meta", "lookup", "stamp", "winner"}
        /\ pc'[q] \in {"idle", "lookup", "draw", "rewind"}
        /\ \A p \in Pass \ {q} : pc'[p] = pc[p] /\ doc'[p] = doc[p] /\ got'[p] = got[p]
    BY <1>2 DEF ReadMetafields, Lookup, Stamp, Winner, Goto, Finish, db, TypeInv, TypeOK
  <2> QED BY <2>1 DEF Silent, Recorded, NumberOf
<1>3. ASSUME NEW d \in Doc, NEW s \in Store, EnterStore(d, s) \/ CorrectStore(d, s)
      PROVE  Silent
  BY <1>3 DEF EnterStore, CorrectStore, db, job, Silent, Recorded, NumberOf
<1>4. ASSUME NEW d \in Doc, Cancel(d) PROVE Silent
  <2>1. /\ Recorded(d) /\ ledger[d] \in Row
        /\ ledger' = [ledger EXCEPT ![d].status = "cancelled"]
        /\ UNCHANGED <<counter, pc, doc, got>>
    BY <1>4 DEF Cancel, Recorded, job, TypeInv, TypeOK
  <2>2. /\ ledger'[d] \in Row /\ NumberOf(ledger'[d]) = NumberOf(ledger[d])
        /\ \A e \in Doc \ {d} : ledger'[e] = ledger[e]
    BY <2>1 DEF Row, NumberOf, TypeInv, TypeOK
  <2>3. \A e \in Doc : /\ Recorded(e)' <=> Recorded(e)
                       /\ NumberOf(ledger'[e]) = NumberOf(ledger[e])
    BY <2>1, <2>2, NoneAssumption DEF Recorded
  <2> QED BY <2>1, <2>3 DEF Silent
<1>5. CASE UNCHANGED vars
  BY <1>5 DEF vars, Silent, Recorded, NumberOf
<1>6. ASSUME NEW q \in Pass, PassStep(q) PROVE Silent
  BY <1>2, <1>6 DEF PassStep
<1>7. /\ \A p \in Pass : ~CallFails(p) /\ ~ReplyLost(p)
      /\ ~Restart
  BY CountsBefore
<1> QED BY <1>1, <1>3, <1>4, <1>5, <1>6, <1>7 DEF Next

\* No step makes two documents share a number or leaves the counter behind.
LEMMA NextNumbersReissue ==
    ASSUME TypeInv, TypeInv', OnePass, ReissueInv, OneReissue', [Next]_vars
    PROVE  Numbers'
<1>0. Numbers /\ Known /\ Settled /\ OneReissue
  BY CountsBefore DEF ReissueInv, Numbers
<1>a. \A p, q \in Pass : Renumbering(p) /\ Renumbering(q) => p = q
  BY <1>0, OneRenumbers
<1>1. ASSUME NEW p \in Pass, Draw(p) \/ Redraw(p) PROVE Numbers'
  BY <1>0, <1>1, AllocateNumbers
<1>2. ASSUME NEW p \in Pass, HandBack(p) PROVE Numbers'
  BY <1>0, <1>2, HandBackNumbers
<1>3. ASSUME NEW p \in Pass, Rewind(p) PROVE Numbers'
  BY <1>0, <1>a, <1>3, RewindNumbers DEF Rewind, Renumbering
<1>4. ASSUME NEW p \in Pass, Record(p) PROVE Numbers'
  BY <1>0, <1>4, RecordNumbers
<1>5. ASSUME NEW p \in Pass, Move(p) PROVE Numbers'
  BY <1>0, <1>a, <1>5, MoveNumbers DEF Move, Renumbering
<1>6. CASE Silent
  BY <1>0, <1>6, SilentNumbers
<1> QED BY <1>1, <1>2, <1>3, <1>4, <1>5, <1>6, OtherSteps

\* A number drawn stays one of the pass's store until it is recorded or let go.
LEMMA NextAtStore ==
    ASSUME TypeInv, AtStore, OneReissue', [Next]_vars PROVE AtStore'
<1> SUFFICES ASSUME NEW p \in Pass, pc'[p] \in {"record", "handback", "winner"}
             PROVE  got'[p].store = at'[p]
  BY DEF AtStore
<1> DEFINE Kept == at'[p] = at[p] /\ got'[p] = got[p] /\ pc[p] \in {"record", "handback", "winner"}
<1>1. ASSUME NEW q \in Pass, NEW d \in Doc,
             StartOrder(q, d) \/ StartDraft(q, d) \/ StartManual(q, d) \/ StartNote(q, d)
      PROVE  Kept
  BY <1>1 DEF StartOrder, StartDraft, StartManual, StartNote, Start, TypeInv, TypeOK
<1>2. ASSUME NEW q \in Pass, Finish(q) PROVE Kept
  BY <1>2 DEF Finish, TypeInv, TypeOK
<1>3. ASSUME NEW q \in Pass, ReadMetafields(q) \/ Lookup(q) \/ Rewind(q) \/ Move(q), ~Finish(q)
      PROVE  Kept
  BY <1>3 DEF ReadMetafields, Lookup, Rewind, Move, AfterMove, Goto, TypeInv, TypeOK
<1>4. ASSUME NEW q \in Pass, Record(q) \/ HandBack(q), ~Finish(q) PROVE Kept
  BY <1>4 DEF Record, HandBack, Goto, TypeInv, TypeOK
<1>5. ASSUME NEW q \in Pass, Draw(q) \/ Redraw(q) PROVE Kept \/ got'[p].store = at'[p]
  BY <1>5 DEF Draw, Redraw, Allocate, Goto, TypeInv, TypeOK
<1>6. \A q \in Pass : Winner(q) \/ Stamp(q) => Finish(q)
  BY DEF Winner, Stamp
<1>7. ASSUME NEW d \in Doc, NEW s \in Store, EnterStore(d, s) \/ CorrectStore(d, s) \/ Cancel(d)
      PROVE  Kept
  BY <1>7 DEF EnterStore, CorrectStore, Cancel, job
<1>8. ASSUME NEW d \in Doc, Cancel(d) PROVE Kept
  BY <1>8 DEF Cancel, job
<1>9. CASE UNCHANGED vars
  BY <1>9 DEF vars, AtStore
<1>10. ASSUME NEW q \in Pass, PassStep(q) PROVE Kept \/ got'[p].store = at'[p]
  BY <1>2, <1>3, <1>4, <1>5, <1>6, <1>10 DEF PassStep
<1>11. /\ \A q \in Pass : ~CallFails(q) /\ ~ReplyLost(q)
       /\ ~Restart
  BY CountsBefore
<1>12. Kept => got'[p].store = at'[p]
  BY DEF AtStore
<1> QED BY <1>1, <1>7, <1>8, <1>9, <1>10, <1>11, <1>12 DEF Next

\* Only a pass that works on a document puts another number in its row.
LEMMA RowKept ==
    ASSUME TypeInv, OneReissue', [Next]_vars, NEW d \in Doc, Recorded(d),
           \A q \in Pass : doc[q] = d => ~Record(q) /\ ~Move(q)
    PROVE  Recorded(d)' /\ NumberOf(ledger'[d]) = NumberOf(ledger[d])
<1> DEFINE Same == ledger'[d] = ledger[d]
<1>1. ASSUME NEW q \in Pass, NEW e \in Doc,
             StartOrder(q, e) \/ StartDraft(q, e) \/ StartManual(q, e) \/ StartNote(q, e)
      PROVE  Same
  BY <1>1 DEF StartOrder, StartDraft, StartManual, StartNote, Start, db
<1>2. ASSUME NEW q \in Pass, Record(q) \/ Move(q) PROVE Same
  BY <1>2 DEF Record, Move, SetRow, TypeInv, TypeOK
<1>3. ASSUME NEW q \in Pass, PassStep(q) PROVE Same
  BY <1>2, <1>3 DEF PassStep, ReadMetafields, Lookup, Rewind, Redraw, Draw, HandBack,
                    Winner, Stamp, db
<1>4. ASSUME NEW e \in Doc, NEW s \in Store, EnterStore(e, s) \/ CorrectStore(e, s)
      PROVE  Same
  BY <1>4 DEF EnterStore, CorrectStore, db
<1>5. ASSUME NEW e \in Doc, Cancel(e), e # d PROVE Same
  BY <1>5 DEF Cancel, TypeInv, TypeOK
<1>6. CASE UNCHANGED vars
  BY <1>6 DEF vars, Recorded
<1>7. CASE Cancel(d)
  <2>1. /\ ledger[d] \in Row
        /\ ledger' = [ledger EXCEPT ![d].status = "cancelled"]
    BY <1>7 DEF Cancel, Recorded, TypeInv, TypeOK
  <2>2. ledger'[d] \in Row /\ NumberOf(ledger'[d]) = NumberOf(ledger[d])
    BY <2>1 DEF Row, NumberOf, TypeInv, TypeOK
  <2> QED BY <2>2, NoneAssumption DEF Recorded
<1>8. /\ \A q \in Pass : ~CallFails(q) /\ ~ReplyLost(q)
      /\ ~Restart
  BY CountsBefore
<1>9. Same => Recorded(d)' /\ NumberOf(ledger'[d]) = NumberOf(ledger[d])
  BY DEF Recorded
<1> QED BY <1>1, <1>3, <1>4, <1>5, <1>6, <1>7, <1>8, <1>9 DEF Next

\* What a pass knows of the row it renumbers stays true: the lock keeps every
\* other pass away from it, and a cancellation changes the status alone.
LEMMA NextKnown ==
    ASSUME TypeInv, OnePass, ReissueInv, OneReissue', [Next]_vars PROVE Known'
<1>0. /\ Known
      /\ \A p \in Pass : Renumbering(p) => doc[p] \in Locked
      /\ \A q \in Pass : ~CallFails(q) /\ ~ReplyLost(q)
      /\ ~Restart
  BY CountsBefore, OneRenumbers DEF ReissueInv
<1> SUFFICES ASSUME NEW p \in Pass, Renumbering(p)'
             PROVE  /\ Recorded(doc[p])'
                    /\ pc'[p] = "rewind" => NumberOf(seen'[p]) = NumberOf(ledger'[doc'[p]])
  BY DEF Known
<1> DEFINE Good == /\ Recorded(doc[p])'
                   /\ pc'[p] = "rewind" => NumberOf(seen'[p]) = NumberOf(ledger'[doc'[p]])
           Kept == pc'[p] = pc[p] /\ doc'[p] = doc[p] /\ seen'[p] = seen[p]
<1>1. ASSUME Kept, \A q \in Pass : doc[q] = doc[p] => ~Record(q) /\ ~Move(q) PROVE Good
  <2>1. Renumbering(p) /\ doc[p] \in Doc
    BY <1>0, <1>1 DEF Renumbering, Locked, TypeInv, TypeOK, StepData
  <2>2. PICK d \in Doc : d = doc[p]
    BY <2>1
  <2>3. Recorded(d) /\ (pc[p] = "rewind" => NumberOf(seen[p]) = NumberOf(ledger[d]))
    BY <1>0, <2>1, <2>2 DEF Known
  <2>4. Recorded(d)' /\ NumberOf(ledger'[d]) = NumberOf(ledger[d])
    BY <1>1, <2>2, <2>3, RowKept
  <2>5. Recorded(doc[p])' <=> ledger'[doc'[p]] # None
    BY DEF Recorded
  <2>6. Recorded(d)' <=> ledger'[d] # None
    BY DEF Recorded
  <2> QED BY <1>1, <2>2, <2>3, <2>4, <2>5, <2>6
<1>2. ASSUME NEW q \in Pass, NEW d \in Doc,
             StartOrder(q, d) \/ StartDraft(q, d) \/ StartManual(q, d) \/ StartNote(q, d)
      PROVE  Good
  <2>1. Kept
    BY <1>2 DEF StartOrder, StartDraft, StartManual, StartNote, Start, Renumbering,
                TypeInv, TypeOK
  <2>2. \A r \in Pass : ~Record(r) /\ ~Move(r)
    <3>1. pc[q] = "idle" /\ pc'[q] # "idle"
      BY <1>2 DEF StartOrder, StartDraft, StartManual, StartNote, Start, TypeInv, TypeOK
    <3> QED BY <3>1 DEF Record, Move, AfterMove, Goto, Finish, TypeInv, TypeOK
  <2> QED BY <1>1, <2>1, <2>2
<1>3. ASSUME NEW q \in Pass, PassStep(q), q # p PROVE Good
  <2>1. Kept
    BY <1>3 DEF PassStep, ReadMetafields, Lookup, Rewind, Redraw, Move, AfterMove, Allocate,
                Draw, Record, HandBack, Winner, Stamp, Goto, Finish, TypeInv, TypeOK
  <2>3. ASSUME NEW r \in Pass, doc[r] = doc[p] PROVE ~Record(r) /\ ~Move(r)
    <3>1. r = p
      BY <1>0, <2>1, <2>3 DEF Renumbering, OnePass
    <3>2. pc[r] \in {"record", "move"} => ~(Record(r) \/ Move(r))
      BY <2>1, <3>1 DEF Record, Move, AfterMove, Goto, Finish, TypeInv, TypeOK
    <3> QED BY <3>2 DEF Record, Move
  <2> QED BY <1>1, <2>1, <2>3
<1>4. ASSUME PassStep(p) PROVE Good
  <2>1. CASE Lookup(p)
    BY <2>1 DEF Lookup, Goto, Finish, Renumbering, Recorded, db, TypeInv, TypeOK
  <2>2. CASE Rewind(p) \/ Redraw(p)
    BY <1>0, <2>2 DEF Rewind, Redraw, Goto, Known, Renumbering, Recorded, TypeInv, TypeOK
  <2>3. ~(ReadMetafields(p) \/ Move(p) \/ Draw(p) \/ Record(p) \/ HandBack(p) \/ Winner(p)
          \/ Stamp(p))
    BY DEF ReadMetafields, Move, AfterMove, Draw, Record, HandBack, Winner, Stamp, Goto,
           Finish, Renumbering, TypeInv, TypeOK
  <2> QED BY <1>4, <2>1, <2>2, <2>3 DEF PassStep
<1>5. ASSUME UNCHANGED <<pc, doc, seen>> PROVE Good
  <2>1. \A r \in Pass : ~Record(r) /\ ~Move(r)
    BY <1>5 DEF Record, Move, AfterMove, Goto, Finish, TypeInv, TypeOK
  <2> QED BY <1>1, <1>5, <2>1
<1>6. ASSUME NEW d \in Doc, NEW s \in Store, EnterStore(d, s) \/ CorrectStore(d, s)
      PROVE  UNCHANGED <<pc, doc, seen>>
  BY <1>6 DEF EnterStore, CorrectStore, job
<1>7. ASSUME NEW d \in Doc, Cancel(d) PROVE UNCHANGED <<pc, doc, seen>>
  BY <1>7 DEF Cancel, job
<1> QED BY <1>0, <1>2, <1>3, <1>4, <1>5, <1>6, <1>7 DEF Next, vars

\* A document nobody edits stays plain.
LEMMA PlainStays ==
    ASSUME TypeInv, AtStore, OneReissue', [Next]_vars, NEW d \in Doc, Plain(d),
           \A s \in Store : ~CorrectStore(d, s),
           ~Cancel(d)
    PROVE  Plain(d)'
<1> DEFINE PlaceStays == place[d] # None => place'[d] = place[d]
           RowStays == ledger'[d] = ledger[d]
           Marked == Recorded(d)' => /\ ledger'[d].status = "active"
                                     /\ ledger'[d].store = place[d]
                                     /\ place[d] # None
           PassStays(p) == doc'[p] = doc[p] /\ pc'[p] = pc[p] /\ at'[p] = at[p]
           AtPlace(p) == pc'[p] \notin {"idle", "meta"} => at'[p] = place[d] /\ at'[p] # None
           GoodPass(p) == doc'[p] = d => pc'[p] \notin {"rewind", "redraw", "move"} /\ AtPlace(p)
<1>0. /\ \A p \in Pass : ~CallFails(p) /\ ~ReplyLost(p)
      /\ ~Restart
  BY CountsBefore
<1>1. PlainRow(d) /\ \A p \in Pass : doc[p] = d => PlainPass(p)
  BY DEF Plain
<1>2. RowStays => Marked
  <2>1. Recorded(d) => ledger[d].store \in Store
    BY DEF Recorded, Row, TypeInv, TypeOK
  <2>2. Recorded(d)' <=> ledger'[d] # None
    BY DEF Recorded
  <2> QED BY <1>1, <2>1, <2>2 DEF PlainRow, Recorded
<1>3. ASSUME NEW p \in Pass, PassStays(p) PROVE GoodPass(p)
  <2>1. doc[p] = d /\ pc[p] \notin {"idle", "meta"} => at[p] = place[d] /\ at[p] # None
    BY <1>1 DEF PlainPass, TypeInv, TypeOK, StepData
  <2> QED BY <1>1, <1>3, <2>1 DEF PlainPass, Renumbering
<1>4. ASSUME PlaceStays, Marked, \A p \in Pass : GoodPass(p) PROVE Plain(d)'
  <2>1. PlainRow(d)' <=> (Recorded(d)' => ledger'[d].status = "active" /\ ledger'[d].store = place'[d])
    BY DEF PlainRow
  <2>2. ASSUME NEW p \in Pass, doc'[p] = d PROVE PlainPass(p)'
    BY <1>4, <2>2 DEF PlainPass, Renumbering
  <2> QED BY <1>4, <2>1, <2>2 DEF Plain
<1>5. ASSUME NEW q \in Pass, NEW e \in Doc,
             StartOrder(q, e) \/ StartDraft(q, e) \/ StartManual(q, e) \/ StartNote(q, e)
      PROVE  PlaceStays /\ RowStays /\ \A p \in Pass : GoodPass(p)
  <2>1. PlaceStays /\ RowStays
    BY <1>5 DEF StartOrder, StartDraft, StartManual, StartNote, Start, db, shop
  <2>2. \A p \in Pass \ {q} : PassStays(p)
    BY <1>5 DEF StartOrder, StartDraft, StartManual, StartNote, Start, TypeInv, TypeOK
  <2>3. GoodPass(q)
    <3>1. doc'[q] = e /\ pc'[q] \in {"meta", "lookup", "draw"}
      BY <1>5 DEF StartOrder, StartDraft, StartManual, StartNote, Start, TypeInv, TypeOK
    <3>2. pc'[q] = "meta" \/ (at'[q] = place[e] /\ place[e] # None)
      BY <1>5 DEF StartOrder, StartDraft, StartManual, StartNote, Start, TypeInv, TypeOK
    <3> QED BY <3>1, <3>2
  <2> QED BY <1>3, <2>1, <2>2, <2>3
<1>6. ASSUME NEW q \in Pass, PassStep(q)
      PROVE  UNCHANGED place /\ \A p \in Pass \ {q} : GoodPass(p)
  <2>1. UNCHANGED place
    BY <1>6 DEF PassStep, ReadMetafields, Lookup, Rewind, Redraw, Move, Draw, Record,
                HandBack, Winner, Stamp, shop
  <2>2. \A p \in Pass \ {q} : PassStays(p)
    BY <1>6 DEF PassStep, ReadMetafields, Lookup, Rewind, Redraw, Move, AfterMove, Allocate,
                Draw, Record, HandBack, Winner, Stamp, Goto, Finish, TypeInv, TypeOK
  <2> QED BY <1>3, <2>1, <2>2
<1>7. ASSUME NEW q \in Pass, PassStep(q), doc[q] # d PROVE RowStays /\ GoodPass(q)
  <2>1. RowStays
    BY <1>7 DEF PassStep, ReadMetafields, Lookup, Rewind, Redraw, Move, Draw, Record,
                HandBack, Winner, Stamp, SetRow, db, TypeInv, TypeOK
  <2>2. doc'[q] = doc[q] \/ pc'[q] = "idle"
    BY <1>7 DEF PassStep, ReadMetafields, Lookup, Rewind, Redraw, Move, AfterMove, Draw,
                Record, HandBack, Winner, Stamp, Goto, Finish, TypeInv, TypeOK
  <2> QED BY <1>7, <2>1, <2>2
<1>8. ASSUME NEW q \in Pass, PassStep(q), doc[q] = d PROVE Marked /\ GoodPass(q)
  <2>0. /\ pc[q] \notin {"rewind", "redraw", "move"} /\ d = doc[q]
        /\ pc[q] \notin {"idle", "meta"} => at[q] = place[d] /\ at[q] \in Store /\ at[q] # None
    BY <1>1, <1>8 DEF PlainPass, Renumbering, TypeInv, TypeOK, StepData
  <2>1. CASE ReadMetafields(q)
    BY <1>2, <2>0, <2>1 DEF ReadMetafields, NotToMint, Goto, Finish, db, TypeInv, TypeOK
  <2>2. CASE Lookup(q)
    <3>1. Recorded(d) => ledger[d].status = "active" /\ ledger[d].store = at[q]
      BY <1>1, <2>0, <2>2 DEF PlainRow, Lookup
    <3>2. /\ Finish(q) \/ (Goto(q, "draw") /\ UNCHANGED at)
          /\ UNCHANGED ledger
      BY <2>0, <2>2, <3>1 DEF Lookup, Recorded, db
    <3> QED BY <1>2, <2>0, <2>2, <3>2 DEF Lookup, Goto, Finish, TypeInv, TypeOK
  <2>3. CASE Draw(q) \/ HandBack(q)
    BY <1>2, <2>0, <2>3 DEF Draw, Allocate, HandBack, Goto, TypeInv, TypeOK
  <2>4. CASE Winner(q) \/ Stamp(q)
    BY <1>2, <2>4 DEF Winner, Stamp, Finish, db, TypeInv, TypeOK
  <2>5. CASE Record(q)
    <3>1. GoodPass(q)
      BY <2>0, <2>5 DEF Record, Goto, Finish, TypeInv, TypeOK
    <3>2. RowStays \/ SetRow(d, got[q])
      BY <2>0, <2>5 DEF Record
    <3>3. SetRow(d, got[q]) => ledger'[d].status = "active" /\ ledger'[d].store = got[q].store
      BY DEF SetRow, TypeInv, TypeOK
    <3>4. got[q].store = place[d] /\ place[d] # None
      BY <2>0, <2>5 DEF Record, AtStore
    <3> QED BY <1>2, <3>1, <3>2, <3>3, <3>4
  <2>6. ~(Rewind(q) \/ Redraw(q) \/ Move(q))
    BY <2>0 DEF Rewind, Redraw, Move
  <2> QED BY <1>8, <2>1, <2>2, <2>3, <2>4, <2>5, <2>6 DEF PassStep
<1>9. ASSUME NEW e \in Doc, NEW s \in Store, EnterStore(e, s) \/ CorrectStore(e, s)
      PROVE  PlaceStays /\ RowStays /\ \A p \in Pass : PassStays(p)
  BY <1>9 DEF EnterStore, CorrectStore, db, job, TypeInv, TypeOK
<1>10. ASSUME NEW e \in Doc, Cancel(e)
       PROVE  PlaceStays /\ RowStays /\ \A p \in Pass : PassStays(p)
  BY <1>10 DEF Cancel, shop, job, TypeInv, TypeOK
<1>11. CASE UNCHANGED vars
  BY <1>11, <1>2, <1>3, <1>4 DEF vars
<1>12. ASSUME NEW q \in Pass, PassStep(q) PROVE Plain(d)'
  BY <1>2, <1>4, <1>6, <1>7, <1>8, <1>12
<1> QED BY <1>0, <1>2, <1>3, <1>4, <1>5, <1>9, <1>10, <1>11, <1>12 DEF Next

\* One edit leaves every document plain but the edited, a locked one.
LEMMA NextSettled ==
    ASSUME TypeInv, ReissueInv, OneReissue', [Next]_vars PROVE Settled'
<1>0. /\ Settled /\ AtStore /\ OneReissue
      /\ edits \in Nat /\ edits' <= 1
  BY CountsBefore DEF ReissueInv, OneReissue, TypeInv, TypeOK
<1> DEFINE Edited(e) == Cancel(e) \/ \E s \in Store : CorrectStore(e, s)
<1>1. ASSUME NEW e \in Doc, Edited(e) PROVE Settled'
  <2>1. edits' = edits + 1 /\ e \in Locked
    BY <1>0, <1>1 DEF Cancel, CorrectStore, Edit, OneReissue
  <2>2. edits = 0 /\ edits' = 1
    BY <1>0, <2>1
  <2> DEFINE Touched(d) == ledger'[d] # ledger[d] \/ place'[d] # place[d]
  <2>a. \A d \in Doc : Recorded(d) => ledger[d] \in Row /\ ledger[d].status = "active"
    BY <1>0, <2>2 DEF Settled, Plain, PlainRow, Recorded, TypeInv, TypeOK
  <2>b. ASSUME NEW d \in Doc, Cancel(d) PROVE Touched(d)
    <3>1. ledger'[d] = [ledger[d] EXCEPT !.status = "cancelled"] /\ ledger[d] \in Row
      BY <2>a, <2>b DEF Cancel, TypeInv, TypeOK
    <3> QED BY <2>a, <2>b, <3>1 DEF Cancel, Row
  <2>c. ASSUME NEW d \in Doc, NEW s \in Store, CorrectStore(d, s) PROVE Touched(d)
    BY <2>c DEF CorrectStore, TypeInv, TypeOK
  <2>d. ASSUME NEW d \in Doc \ {e} PROVE ~Touched(d)
    BY <1>1, <2>d DEF Cancel, CorrectStore, db, shop, TypeInv, TypeOK
  <2>3. ASSUME NEW d \in Doc \ {e} PROVE ~Edited(d)
    BY <2>b, <2>c, <2>d, <2>3
  <2>4. \A d \in Doc \ {e} : Plain(d)'
    BY <1>0, <2>2, <2>3, PlainStays DEF Settled
  <2> QED BY <2>1, <2>2, <2>4 DEF Settled
<1>2. ASSUME \A e \in Doc : ~Edited(e) PROVE Settled'
  <2>1. \A d \in Doc : Plain(d) => Plain(d)'
    BY <1>0, <1>2, PlainStays
  <2>2. edits' = edits
    <3>1. ASSUME NEW p \in Pass, NEW d \in Doc,
                 StartOrder(p, d) \/ StartDraft(p, d) \/ StartManual(p, d) \/ StartNote(p, d)
          PROVE  edits' = edits
      BY <3>1 DEF StartOrder, StartDraft, StartManual, StartNote, Start
    <3>2. ASSUME NEW p \in Pass, PassStep(p) PROVE edits' = edits
      BY <3>2 DEF PassStep, ReadMetafields, Lookup, Rewind, Redraw, Move, Draw, Record,
                  HandBack, Winner, Stamp
    <3>3. ASSUME NEW d \in Doc, NEW s \in Store, EnterStore(d, s) PROVE edits' = edits
      BY <3>3 DEF EnterStore
    <3> QED BY <1>2, <3>1, <3>2, <3>3, CountsBefore DEF Next, vars
  <2> QED BY <1>0, <2>1, <2>2 DEF Settled
<1> QED BY <1>1, <1>2

\* A re-issue of a locked document, alone among first mints, leaves two
\* documents no common number and no number above its counter: the lock keeps
\* its pass alone, so the number it draws meets no other and its row moves.
THEOREM ReissueSafeHolds == Spec => []ReissueSafe
<1> DEFINE Inv == (TypeOK /\ StepData) /\ OnePass
<1>1. Spec => []Inv
  BY TypeCorrect, LockHolds, PTL
<1>2. Init => ReissueInv
  BY DEF Init, ReissueInv, Settled, AtStore, Known, Plain, PlainRow, PlainPass, Renumbering,
         RecordsApart, NoSharedNumber, CounterCovers, Recorded, InHand, Doc
<1>3. ASSUME Inv, Inv', OneReissue => ReissueInv, [Next]_vars
      PROVE  (OneReissue => ReissueInv)'
  <2> SUFFICES ASSUME OneReissue' PROVE ReissueInv'
    OBVIOUS
  <2>1. TypeInv /\ TypeInv' /\ OnePass
    BY <1>3 DEF TypeInv
  <2>2. ReissueInv
    BY <1>3, <2>1, CountsBefore
  <2>3. Settled' /\ AtStore' /\ Known' /\ Numbers'
    BY <1>3, <2>1, <2>2, NextSettled, NextAtStore, NextKnown, NextNumbersReissue DEF ReissueInv
  <2> QED BY <2>3 DEF ReissueInv, Numbers
<1>4. (OneReissue => ReissueInv) => ReissueSafe
  BY DEF ReissueInv, ReissueSafe
<1> QED BY <1>1, <1>2, <1>3, <1>4, PTL DEF Spec
=============================================================================
