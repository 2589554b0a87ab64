--------------------------- MODULE TerminalProofs ---------------------------
(***************************************************************************)
(* Theorems about Terminal, for any sets of transactions, requests and     *)
(* ticks, any kinds of requests and failures, and any bound on failures.   *)
(***************************************************************************)
EXTENDS Terminal, TLAPS

--------------------
(* Types *)

\* What a run works on at each of its steps.
JobData ==
    \A p \in Proc :
        /\ pc[p] = "insert" => job[p] \in Draft
        /\ pc[p] \in {"ask", "write", "complete", "cancelAsk", "cancelWrite",
                      "fail", "postback"} => job[p] \in Txn
        /\ pc[p] = "ask" => seen[p] \in RowRead

TypeInv == TypeOK /\ JobData

\* The initial state is well typed.
LEMMA InitTypes == Init => TypeInv
<1> SUFFICES ASSUME Init
             PROVE  TypeInv
  OBVIOUS
<1>1. rows \in [Tick -> [Txn -> RowRead \cup {None}]] BY DEF Init
<1>2. collected \in [Txn -> Nat] /\ failed \subseteq Faults /\ asked \subseteq Ops
  BY DEF Init
<1>3. TypeOK BY <1>1, <1>2 DEF Init, TypeOK, Status, Ref, Step
<1>4. JobData BY DEF Init, JobData
<1> QED BY <1>3, <1>4 DEF TypeInv

\* Return keeps the types of the variables of a run.
LEMMA ReturnTypes ==
  ASSUME TypeInv, NEW p \in Proc, Return(p)
  PROVE  /\ pc' \in [Proc -> Step \cup {"postback"}]
         /\ job' \in [Proc -> Txn \cup Draft \cup {None}]
         /\ seen' \in [Proc -> RowRead \cup {None}]
         /\ got' \in [Proc -> {"none", "PAID", "FAILED"}]
         /\ JobData'
  BY DEF TypeInv, TypeOK, JobData, Return, Step, Proc

\* The steps of the upload, of the customer and of a failing process.
LEMMA OutsideTypes ==
  ASSUME TypeInv,
         \/ \E t \in Txn : UploadStep(t)
         \/ \E t \in Txn, o \in Closed : Customer(t, o)
         \/ \E t \in Txn, r \in Ref : UploadRefused(t, r)
         \/ \E t \in Txn : UploadTimesOut(t) \/ UploadUnwritten(t)
  PROVE  TypeInv'
<1>1. CASE \E t \in Txn : UploadUnwritten(t)
  BY <1>1 DEF TypeInv, TypeOK, JobData, UploadUnwritten, Fault, table, local
<1>2. CASE ~\E t \in Txn : UploadUnwritten(t)
  BY <1>2 DEF TypeInv, TypeOK, JobData, UploadStep, UploadReaches, UploadAnswered,
              Customer, UploadRefused, UploadTimesOut, Fault, Write, Status, Ref,
              Closed, local, table, past
<1> QED BY <1>1, <1>2

LEMMA RestartTypes ==
  ASSUME TypeInv, Restart
  PROVE  TypeInv'
  BY DEF TypeInv, TypeOK, JobData, Restart, Fault, Step, Proc, table

LEMMA UnreachableTypes ==
  ASSUME TypeInv, NEW p \in Proc, Unreachable(p)
  PROVE  TypeInv'
<1>1. JobData' BY ReturnTypes DEF Unreachable
<1>2. TypeOK'
  BY ReturnTypes DEF TypeInv, TypeOK, Unreachable, Fault, table, Closed
<1> QED BY <1>1, <1>2 DEF TypeInv

\* What goes unnoticed keeps the types: the row, or the record, that is not
\* written.
LEMMA UnnoticedTypes ==
  ASSUME TypeInv, NEW p \in Proc, Unwritten(p) \/ Unrecorded(p)
  PROVE  TypeInv'
<1>1. CASE Return(p)
  BY <1>1, ReturnTypes DEF Unwritten, Unrecorded, TypeInv, TypeOK, Fault, table
<1>2. CASE Unwritten(p) /\ Goto(p, "complete") /\ UNCHANGED <<job, seen, got>>
  BY <1>2 DEF Unwritten, Goto, Fault, TypeInv, TypeOK, JobData, Step, table
<1> QED BY <1>1, <1>2 DEF Unwritten, Unrecorded

\* A row that was read is a row, whichever way it leads.
LEMMA LookTypes ==
  ASSUME TypeInv, NEW p \in Proc, NEW row \in RowRead, NEW t \in Txn,
         Look(p, row), job' = [job EXCEPT ![p] = t]
  PROVE  /\ pc' \in [Proc -> Step \cup {"postback"}]
         /\ job' \in [Proc -> Txn \cup Draft \cup {None}]
         /\ seen' \in [Proc -> RowRead \cup {None}]
         /\ JobData'
  BY DEF TypeInv, TypeOK, JobData, Look, Goto, Step

LEMMA RowTypes ==
  ASSUME TypeInv, NEW t \in Txn
  PROVE  RowOf(t) \in RowRead
  BY DEF TypeInv, TypeOK, RowOf, RowRead

\* The poller's steps keep the types.
LEMMA PollTypes ==
  ASSUME TypeInv, NEW k \in Tick, PollStep(k)
  PROVE  TypeInv'
<1> k \in Proc BY DEF Proc
<1>1. CASE Poll(k)
  <2>1. rows' \in [Tick -> [Txn -> RowRead \cup {None}]]
    BY <1>1, RowTypes DEF Poll, TypeInv, TypeOK
  <2> QED
    BY <1>1, <2>1 DEF Poll, Goto, TypeInv, TypeOK, JobData, Step, table, past
<1>2. ASSUME NEW t \in Txn, PollRow(k, t)
      PROVE  TypeInv'
  <2>1. rows' \in [Tick -> [Txn -> RowRead \cup {None}]]
    BY <1>2 DEF PollRow, TypeInv, TypeOK
  <2>2. rows[k][t] \in RowRead BY <1>2 DEF PollRow, TypeInv, TypeOK
  <2>3. CASE rows[k][t].ref = "none"
    BY <1>2, <2>1, <2>3 DEF PollRow, TypeInv, TypeOK, JobData, table, past
  <2>4. CASE rows[k][t].ref # "none"
    <3>1. Look(k, rows[k][t]) /\ job' = [job EXCEPT ![k] = t]
      BY <1>2, <2>4 DEF PollRow
    <3> QED
      BY <1>2, <2>1, <2>2, <3>1, LookTypes
      DEF PollRow, TypeInv, TypeOK, table, past
  <2> QED BY <2>3, <2>4
<1>3. CASE PollEnd(k)
  BY <1>3 DEF PollEnd, Goto, TypeInv, TypeOK, JobData, Step, table, local, past
<1> QED BY <1>1, <1>2, <1>3 DEF PollStep

\* What Pine's word is translated to.
LEMMA AnswerTypes ==
  ASSUME NEW t \in Txn
  PROVE  Answer(t) \in {"none", "PAID", "FAILED"}
  BY DEF Answer

\* A request that arrives keeps the types.
LEMMA RequestTypes ==
  ASSUME TypeInv, NEW p \in Request, RequestArrives(p)
  PROVE  TypeInv'
<1> p \in Proc BY DEF Proc
<1>1. ASSUME NEW d \in Draft, Push(p, d)
      PROVE  TypeInv'
  BY <1>1 DEF Push, Arrives, Goto, TypeInv, TypeOK, JobData, Step, table
<1>2. ASSUME NEW t \in Txn, Check(p, t)
      PROVE  TypeInv'
  <2>1. Look(p, RowOf(t)) /\ job' = [job EXCEPT ![p] = t] BY <1>2 DEF Check
  <2> QED
    BY <1>2, <2>1, RowTypes, LookTypes DEF Check, Arrives, TypeInv, TypeOK, table
<1>3. ASSUME NEW t \in Txn, Cancel(p, t)
      PROVE  TypeInv'
  BY <1>3 DEF Cancel, Arrives, Goto, TypeInv, TypeOK, JobData, Step, table
<1>4. ASSUME NEW t \in Txn, Postback(p, t)
      PROVE  TypeInv'
  BY <1>4, AnswerTypes
  DEF Postback, Arrives, Goto, TypeInv, TypeOK, JobData, Step, table
<1> QED BY <1>1, <1>2, <1>3, <1>4 DEF RequestArrives

\* A run that goes on keeps the types.
LEMMA RunTypes ==
  ASSUME TypeInv, NEW p \in Proc, RunStep(p)
  PROVE  TypeInv'
<1>1. ASSUME NEW t \in Txn, Insert(p, t)
      PROVE  TypeInv'
  <2>1. job[p] \in Draft BY <1>1 DEF Insert, TypeInv, JobData
  <2>2. JobData' BY <1>1, ReturnTypes DEF Insert
  <2>3. TypeOK'
    BY <1>1, <2>1, ReturnTypes DEF Insert, TypeInv, TypeOK, Status, past
  <2> QED BY <2>2, <2>3 DEF TypeInv
<1>2. CASE Ask(p)
  <2>1. CASE Return(p)
    BY <1>2, <2>1, ReturnTypes DEF Ask, TypeInv, TypeOK, table, past
  <2>2. CASE /\ got' = [got EXCEPT ![p] = Answer(job[p])]
             /\ Goto(p, "write")
             /\ UNCHANGED <<job, seen>>
    <3>1. job[p] \in Txn BY <1>2 DEF Ask, TypeInv, JobData
    <3> QED
      BY <1>2, <2>2, <3>1, AnswerTypes
      DEF Ask, Goto, TypeInv, TypeOK, JobData, Step, table, past
  <2> QED BY <1>2, <2>1, <2>2 DEF Ask
<1>3. CASE Settle(p)
  <2>1. job[p] \in Txn /\ got[p] \in {"none", "PAID", "FAILED"}
    BY <1>3 DEF Settle, TypeInv, TypeOK, JobData
  <2>2. status' \in [Txn -> Status]
    BY <1>3, <2>1 DEF Settle, Write, TypeInv, TypeOK, Status
  <2>3. CASE Return(p)
    BY <1>3, <2>2, <2>3, ReturnTypes DEF Settle, Write, TypeInv, TypeOK, past
  <2>4. CASE Goto(p, "complete") /\ UNCHANGED <<job, seen, got>>
    BY <1>3, <2>1, <2>2, <2>4
    DEF Settle, Write, Goto, TypeInv, TypeOK, JobData, Step, past
  <2> QED BY <1>3, <2>3, <2>4 DEF Settle
<1>4. CASE Complete(p)
  <2>1. collected' \in [Txn -> Nat]
    BY <1>4 DEF Complete, TypeInv, TypeOK, JobData
  <2> QED
    BY <1>4, <2>1, ReturnTypes DEF Complete, TypeInv, TypeOK, table, past
<1>5. CASE Fail(p)
  BY <1>5, ReturnTypes DEF Fail, Write, TypeInv, TypeOK, Status, past
<1>6. CASE CancelAsk(p)
  <2>1. pine' \in [Txn -> Closed \cup {"unheard", "waiting", "refused"}]
    BY <1>6 DEF CancelAsk, TypeInv, TypeOK, Closed
  <2>2. CASE Return(p)
    BY <1>6, <2>1, <2>2, ReturnTypes DEF CancelAsk, TypeInv, TypeOK, table, past
  <2>3. CASE Goto(p, "cancelWrite") /\ UNCHANGED <<job, seen, got>>
    BY <1>6, <2>1, <2>3
    DEF CancelAsk, Goto, TypeInv, TypeOK, JobData, Step, table, past
  <2> QED BY <1>6, <2>2, <2>3 DEF CancelAsk
<1>7. CASE CancelWrite(p)
  BY <1>7, ReturnTypes DEF CancelWrite, Write, TypeInv, TypeOK, Status, past
<1>8. CASE PostbackWrite(p)
  <2>1. job[p] \in Txn /\ got[p] \in {"none", "PAID", "FAILED"}
    BY <1>8 DEF PostbackWrite, TypeInv, TypeOK, JobData
  <2>2. status' \in [Txn -> Status] /\ ref' \in [Txn -> Ref]
    BY <1>8, <2>1 DEF PostbackWrite, Write, TypeInv, TypeOK, Status, Ref
  <2>3. CASE Return(p)
    BY <1>8, <2>2, <2>3, ReturnTypes
    DEF PostbackWrite, Write, TypeInv, TypeOK, past
  <2>4. CASE Goto(p, "complete") /\ UNCHANGED <<job, seen, got>>
    BY <1>8, <2>1, <2>2, <2>4
    DEF PostbackWrite, Write, Goto, TypeInv, TypeOK, JobData, Step, past
  <2> QED BY <1>8, <2>3, <2>4 DEF PostbackWrite
<1> QED BY <1>1, <1>2, <1>3, <1>4, <1>5, <1>6, <1>7, <1>8 DEF RunStep

\* Every step keeps the types.
LEMMA NextTypes == TypeInv /\ [Next]_vars => TypeInv'
<1> SUFFICES ASSUME TypeInv, [Next]_vars
             PROVE  TypeInv'
  OBVIOUS
<1>1. CASE UNCHANGED vars
  BY <1>1 DEF vars, TypeInv, TypeOK, JobData
<1>2. CASE Next
  BY <1>2, OutsideTypes, RestartTypes, UnreachableTypes, UnnoticedTypes, PollTypes,
     RequestTypes, RunTypes
  DEF Next, Failure
<1> QED BY <1>1, <1>2

\* The state is well typed, and a run always holds the row or the draft that
\* its next call needs.
THEOREM TerminalTypes == Spec => [](TypeOK /\ JobData)
<1>1. Init => TypeInv BY InitTypes
<1>2. TypeInv /\ [Next]_vars => TypeInv' BY NextTypes
<1> QED BY <1>1, <1>2, PTL DEF Spec, TypeInv

--------------------
(* No payment without Pine's approval *)

Over == {"declined", "cancelled", "refused"}

\* What every run can prove of the transaction it is about to write.  A row is
\* given a PTRID that is not positive only by a refused upload; what Pine
\* answered was true when it answered and never changes afterwards.
Evidence ==
    /\ PaidIsReal
    /\ \A t \in Txn : ref[t] = "bad" => pine[t] = "refused"
    /\ \A k \in Tick, t \in Txn :
          rows[k][t] # None /\ rows[k][t].ref = "bad" => pine[t] = "refused"
    /\ \A p \in Proc :
          /\ pc[p] \in {"write", "postback"} =>
                /\ got[p] = "PAID" => pine[job[p]] = "approved"
                /\ got[p] = "FAILED" => pine[job[p]] \in Over
          /\ pc[p] = "complete" => pine[job[p]] = "approved"
          /\ pc[p] = "fail" => pine[job[p]] = "refused"

\* What Pine has closed or refused stays as it is.
LEMMA PineFinal ==
  ASSUME TypeInv, [Next]_vars, NEW t \in Txn,
         pine[t] \in {"approved", "declined", "cancelled", "refused"}
  PROVE  pine'[t] = pine[t]
<1>1. CASE UNCHANGED vars BY <1>1 DEF vars
<1>2. ASSUME NEW u \in Txn, UploadStep(u)
      PROVE  pine'[t] = pine[t]
  BY <1>2 DEF UploadStep, UploadReaches, UploadAnswered, TypeInv, TypeOK
<1>3. ASSUME NEW u \in Txn, NEW o \in Closed, Customer(u, o)
      PROVE  pine'[t] = pine[t]
  BY <1>3 DEF Customer, TypeInv, TypeOK
<1>4. ASSUME NEW k \in Tick, PollStep(k)
      PROVE  pine'[t] = pine[t]
  BY <1>4 DEF PollStep, Poll, PollRow, PollEnd
<1>5. ASSUME NEW p \in Proc, RunStep(p)
      PROVE  pine'[t] = pine[t]
  BY <1>5 DEF RunStep, Insert, Ask, Settle, Complete, Fail, CancelAsk,
              CancelWrite, PostbackWrite, TypeInv, TypeOK
<1>6. ASSUME NEW p \in Request, RequestArrives(p)
      PROVE  pine'[t] = pine[t]
  BY <1>6 DEF RequestArrives, Push, Check, Cancel, Postback
<1>7. ASSUME Failure
      PROVE  pine'[t] = pine[t]
  BY <1>7 DEF Failure, UploadRefused, UploadTimesOut, UploadUnwritten, Unreachable,
              Unwritten, Unrecorded, Restart, TypeInv, TypeOK
<1> QED BY <1>1, <1>2, <1>3, <1>4, <1>5, <1>6, <1>7 DEF Next

\* A step gives a run new evidence, or leaves it what it had.
LEMMA RunEvidence ==
  ASSUME TypeInv, Evidence, Next, NEW p \in Proc
  PROVE  \/ pc'[p] \notin {"write", "postback", "complete", "fail"}
         \/ /\ pc'[p] = pc[p] /\ job'[p] = job[p] /\ got'[p] = got[p]
         \/ /\ pc'[p] = "complete" /\ pc[p] \in {"write", "postback"}
            /\ got[p] = "PAID" /\ job'[p] = job[p]
         \/ /\ pc'[p] \in {"write", "postback"}
            /\ job'[p] \in Txn /\ got'[p] = Answer(job'[p])
            /\ pine' = pine
         \/ /\ pc'[p] = "fail" /\ job'[p] \in Txn
            /\ pine[job'[p]] = "refused"
<1> DEFINE Same == pc'[p] = pc[p] /\ job'[p] = job[p] /\ got'[p] = got[p]
           Safe == pc'[p] \notin {"write", "postback", "complete", "fail"}
           Bad == /\ pc'[p] = "fail" /\ job'[p] \in Txn
                  /\ pine[job'[p]] = "refused"
           Told == /\ pc'[p] \in {"write", "postback"} /\ job'[p] \in Txn
                   /\ got'[p] = Answer(job'[p]) /\ pine' = pine
<1>1. ASSUME \/ \E t \in Txn : UploadStep(t)
             \/ \E t \in Txn, o \in Closed : Customer(t, o)
             \/ \E t \in Txn, r \in Ref : UploadRefused(t, r)
             \/ \E t \in Txn : UploadTimesOut(t) \/ UploadUnwritten(t)
      PROVE  Same
  BY <1>1 DEF UploadStep, UploadReaches, UploadAnswered, Customer,
              UploadRefused, UploadTimesOut, UploadUnwritten, local
<1>2. ASSUME NEW q \in Proc, Return(q)
      PROVE  Same \/ Safe
  BY <1>2 DEF Return, TypeInv, TypeOK
<1>3. ASSUME NEW q \in Proc, NEW step, Goto(q, step), UNCHANGED <<job, got>>
      PROVE  Same \/ (q = p /\ pc'[p] = step /\ job'[p] = job[p])
  BY <1>3 DEF Goto, TypeInv, TypeOK
<1>4. ASSUME NEW k \in Tick, PollStep(k)
      PROVE  Same \/ Safe \/ Bad
  <2> k \in Proc BY DEF Proc
  <2>1. CASE Poll(k) BY <1>3, <2>1 DEF Poll
  <2>2. ASSUME NEW t \in Txn, PollRow(k, t)
        PROVE  Same \/ Safe \/ Bad
    BY <2>2 DEF PollRow, Look, Goto, TypeInv, TypeOK, Evidence
  <2>3. CASE PollEnd(k) BY <1>3, <2>3 DEF PollEnd, local
  <2> QED BY <1>4, <2>1, <2>2, <2>3 DEF PollStep
<1>5. ASSUME NEW q \in Proc, RunStep(q)
      PROVE  \/ Same
             \/ Safe
             \/ /\ pc'[p] = "complete" /\ pc[p] \in {"write", "postback"}
                /\ got[p] = "PAID" /\ job'[p] = job[p]
             \/ Told
  <2>1. CASE (\E t \in Txn : Insert(q, t)) \/ Complete(q) \/ Fail(q) \/ CancelWrite(q)
    BY <1>2, <2>1 DEF Insert, Complete, Fail, CancelWrite
  <2>2. CASE Ask(q)
    <3>1. CASE Return(q) BY <1>2, <3>1
    <3>2. CASE /\ got' = [got EXCEPT ![q] = Answer(job[q])]
               /\ Goto(q, "write")
               /\ UNCHANGED <<job, seen>>
      BY <2>2, <3>2 DEF Ask, Goto, TypeInv, TypeOK, JobData
    <3> QED BY <2>2, <3>1, <3>2 DEF Ask
  <2>3. CASE Settle(q) BY <1>2, <1>3, <2>3 DEF Settle
  <2>4. CASE CancelAsk(q) BY <1>2, <1>3, <2>4 DEF CancelAsk
  <2>5. CASE PostbackWrite(q) BY <1>2, <1>3, <2>5 DEF PostbackWrite
  <2> QED BY <1>5, <2>1, <2>2, <2>3, <2>4, <2>5 DEF RunStep
<1>6. ASSUME NEW q \in Request, RequestArrives(q)
      PROVE  Same \/ Safe \/ Bad \/ Told
  <2> q \in Proc BY DEF Proc
  <2>1. ASSUME NEW d \in Draft, Push(q, d)
        PROVE  Same \/ Safe
    BY <2>1 DEF Push, Goto, TypeInv, TypeOK
  <2>2. ASSUME NEW t \in Txn, Check(q, t)
        PROVE  Same \/ Safe \/ Bad \/ Told
    BY <2>2 DEF Check, Look, RowOf, Goto, TypeInv, TypeOK, Evidence
  <2>3. ASSUME NEW t \in Txn, Cancel(q, t)
        PROVE  Same \/ Safe
    BY <2>3 DEF Cancel, Goto, TypeInv, TypeOK
  <2>4. ASSUME NEW t \in Txn, Postback(q, t)
        PROVE  Same \/ Safe \/ Bad \/ Told
    BY <2>4 DEF Postback, Goto, TypeInv, TypeOK
  <2> QED BY <1>6, <2>1, <2>2, <2>3, <2>4 DEF RequestArrives
<1>7. ASSUME NEW q \in Proc, Unreachable(q)
      PROVE  Same \/ Safe
  BY <1>2, <1>7 DEF Unreachable
<1>8. CASE Restart
  BY <1>8 DEF Restart, TypeInv, TypeOK
<1>9. ASSUME NEW q \in Proc, Unwritten(q) \/ Unrecorded(q)
      PROVE  \/ Same
             \/ Safe
             \/ /\ pc'[p] = "complete" /\ pc[p] \in {"write", "postback"}
                /\ got[p] = "PAID" /\ job'[p] = job[p]
  <2>1. CASE Return(q) BY <1>2, <2>1
  <2>2. CASE /\ pc[q] \in {"write", "postback"} /\ got[q] = "PAID"
             /\ Goto(q, "complete") /\ UNCHANGED <<job, seen, got>>
    BY <1>3, <2>2
  <2> QED BY <1>9, <2>1, <2>2 DEF Unwritten, Unrecorded
<1> QED BY <1>1, <1>4, <1>5, <1>6, <1>7, <1>8, <1>9 DEF Next, Failure

\* A row is PAID, or its payment recorded, by a run that had the evidence; it
\* is marked FAILED by a run that had the evidence of that, or by a refusal.
LEMMA TableSteps ==
  ASSUME TypeInv, Next, NEW t \in Txn
  PROVE  /\ status'[t] = "PAID" =>
               \/ status[t] = "PAID"
               \/ \E p \in Proc : /\ pc[p] \in {"write", "postback"}
                                  /\ job[p] = t /\ got[p] = "PAID"
         /\ status'[t] = "FAILED" =>
               \/ status[t] = "FAILED"
               \/ \E p \in Proc : /\ pc[p] \in {"write", "postback"}
                                  /\ job[p] = t /\ got[p] = "FAILED"
               \/ \E p \in Proc : pc[p] = "fail" /\ job[p] = t
               \/ pine[t] = "unheard"
         /\ collected'[t] > 0 =>
               \/ collected[t] > 0
               \/ \E p \in Proc : pc[p] = "complete" /\ job[p] = t
<1> DEFINE Quiet == status'[t] = status[t] /\ collected'[t] = collected[t]
<1> collected[t] \in Nat BY DEF TypeInv, TypeOK
<1>1. ASSUME NEW u \in Txn, UploadStep(u)
      PROVE  collected'[t] = collected[t]
             /\ (status'[t] = status[t] \/ status'[t] = "PUSHED_TO_TERMINAL")
  BY <1>1 DEF UploadStep, UploadReaches, UploadAnswered, Write, table, TypeInv, TypeOK
<1>2. ASSUME NEW u \in Txn, NEW o \in Closed, Customer(u, o)
      PROVE  Quiet
  BY <1>2 DEF Customer, table
<1>3. ASSUME NEW k \in Tick, PollStep(k)
      PROVE  Quiet
  BY <1>3 DEF PollStep, Poll, PollRow, PollEnd, table
<1>4. ASSUME NEW p \in Request, RequestArrives(p)
      PROVE  Quiet
  BY <1>4 DEF RequestArrives, Push, Check, Cancel, Postback, table
<1>5. ASSUME NEW u \in Txn, NEW r \in Ref, UploadRefused(u, r)
      PROVE  /\ collected'[t] = collected[t]
             /\ status'[t] = status[t] \/ (status'[t] = "FAILED" /\ pine[t] = "unheard")
  BY <1>5 DEF UploadRefused, Write, TypeInv, TypeOK
<1>6. ASSUME NEW u \in Txn, UploadTimesOut(u)
      PROVE  /\ collected'[t] = collected[t]
             /\ status'[t] = status[t] \/ status'[t] = "PINE_UNREACHABLE"
  BY <1>6 DEF UploadTimesOut, Write, TypeInv, TypeOK
<1>7. ASSUME \/ \E p \in Proc : Unreachable(p) \/ Unwritten(p) \/ Unrecorded(p)
             \/ \E u \in Txn : UploadUnwritten(u)
             \/ Restart
      PROVE  Quiet
  BY <1>7 DEF Unreachable, Unwritten, Unrecorded, UploadUnwritten, Restart, table
<1>8. ASSUME NEW p \in Proc,
             (\E u \in Txn : Insert(p, u)) \/ Ask(p) \/ CancelAsk(p) \/ CancelWrite(p)
      PROVE  /\ collected'[t] = collected[t]
             /\ status'[t] = status[t] \/ status'[t] \in {"PENDING", "CANCELLED"}
  BY <1>8 DEF Insert, Ask, CancelAsk, CancelWrite, Write, table, TypeInv, TypeOK
<1>9. ASSUME NEW p \in Proc, Settle(p) \/ PostbackWrite(p)
      PROVE  /\ collected'[t] = collected[t]
             /\ \/ status'[t] = status[t]
                \/ /\ pc[p] \in {"write", "postback"}
                   /\ job[p] = t /\ status'[t] = got[p]
  BY <1>9 DEF Settle, PostbackWrite, Write, TypeInv, TypeOK
<1>10. ASSUME NEW p \in Proc, Complete(p)
       PROVE  /\ status'[t] = status[t]
              /\ collected'[t] = collected[t] \/ (pc[p] = "complete" /\ job[p] = t)
  BY <1>10 DEF Complete, table, TypeInv, TypeOK
<1>11. ASSUME NEW p \in Proc, Fail(p)
       PROVE  /\ collected'[t] = collected[t]
              /\ \/ status'[t] = status[t]
                 \/ status'[t] = "FAILED" /\ pc[p] = "fail" /\ job[p] = t
  BY <1>11 DEF Fail, Write, TypeInv, TypeOK
<1> QED
  BY <1>1, <1>2, <1>3, <1>4, <1>5, <1>6, <1>7, <1>8, <1>9, <1>10, <1>11
  DEF Next, Failure, RunStep

\* What Pine's answer is translated to is true of the transaction.
LEMMA AnswerTrue ==
  ASSUME TypeInv, NEW t \in Txn
  PROVE  /\ Answer(t) = "PAID" => pine[t] = "approved"
         /\ Answer(t) = "FAILED" => pine[t] \in Over
<1>1. pine[t] \in {"approved", "declined", "cancelled", "unheard", "waiting", "refused"}
  BY DEF TypeInv, TypeOK, Closed
<1> QED BY <1>1 DEF Answer, Over

\* Only a refusal gives a row a PTRID that is not positive.
LEMMA BadSteps ==
  ASSUME TypeInv, Next, NEW t \in Txn, ref'[t] = "bad"
  PROVE  ref[t] = "bad" \/ pine'[t] = "refused"
<1>1. CASE (\E u \in Txn : UploadStep(u)) \/ (\E u \in Txn, o \in Closed : Customer(u, o))
  BY <1>1 DEF UploadStep, UploadReaches, UploadAnswered, Customer, table, TypeInv, TypeOK
<1>2. CASE (\E k \in Tick : PollStep(k)) \/ (\E p \in Request : RequestArrives(p))
  BY <1>2 DEF PollStep, Poll, PollRow, PollEnd, RequestArrives, Push, Check,
              Cancel, Postback, table
<1>3. CASE \E p \in Proc : RunStep(p)
  BY <1>3 DEF RunStep, Insert, Ask, Settle, Complete, Fail, CancelAsk,
              CancelWrite, PostbackWrite, table, TypeInv, TypeOK
<1>4. CASE Failure
  BY <1>4 DEF Failure, UploadRefused, UploadTimesOut, UploadUnwritten, Unreachable,
              Unwritten, Unrecorded, Restart, table, TypeInv, TypeOK
<1> QED BY <1>1, <1>2, <1>3, <1>4 DEF Next

\* A tick holds rows as they were when it began.
LEMMA RowSteps ==
  ASSUME TypeInv, Next, NEW k \in Tick, NEW t \in Txn,
         rows'[k][t] # None, rows'[k][t].ref = "bad"
  PROVE  (rows[k][t] # None /\ rows[k][t].ref = "bad") \/ ref[t] = "bad"
<1>1. CASE (\E u \in Txn : UploadStep(u)) \/ (\E u \in Txn, o \in Closed : Customer(u, o))
  BY <1>1 DEF UploadStep, UploadReaches, UploadAnswered, Customer, local
<1>2. ASSUME NEW j \in Tick, PollStep(j)
      PROVE  (rows[k][t] # None /\ rows[k][t].ref = "bad") \/ ref[t] = "bad"
  BY <1>2 DEF PollStep, Poll, PollRow, PollEnd, RowOf, local, TypeInv, TypeOK
<1>3. CASE \E p \in Request : RequestArrives(p)
  BY <1>3 DEF RequestArrives, Push, Check, Cancel, Postback
<1>4. CASE \E p \in Proc : RunStep(p)
  BY <1>4 DEF RunStep, Insert, Ask, Settle, Complete, Fail, CancelAsk,
              CancelWrite, PostbackWrite
<1>5. CASE Failure
  BY <1>5 DEF Failure, UploadRefused, UploadTimesOut, UploadUnwritten, Unreachable,
              Unwritten, Unrecorded, Restart, local
<1> QED BY <1>1, <1>2, <1>3, <1>4, <1>5 DEF Next

\* No step takes the evidence away.
LEMMA NextEvidence == TypeInv /\ Evidence /\ [Next]_vars => Evidence'
<1> SUFFICES ASSUME TypeInv, Evidence, [Next]_vars
             PROVE  Evidence'
  OBVIOUS
<1>1. CASE UNCHANGED vars
  BY <1>1 DEF vars, Evidence, PaidIsReal
<1>2. CASE Next
  <2>1. \A t \in Txn : pine[t] = "approved" => pine'[t] = "approved"
    BY PineFinal
  <2>2. \A t \in Txn : pine[t] \in Over => pine'[t] \in Over
    BY PineFinal DEF Over
  <2>3. \A t \in Txn : pine[t] = "refused" => pine'[t] = "refused"
    BY PineFinal
  <2>4. PaidIsReal'
    <3> SUFFICES ASSUME NEW t \in Txn, status'[t] = "PAID" \/ collected'[t] > 0
                 PROVE  pine'[t] = "approved"
      BY DEF PaidIsReal
    <3>1. pine[t] = "approved"
      BY <1>2, TableSteps DEF Evidence, PaidIsReal
    <3> QED BY <2>1, <3>1
  <2>5. ASSUME NEW t \in Txn, ref'[t] = "bad"
        PROVE  pine'[t] = "refused"
    BY <1>2, <2>3, <2>5, BadSteps DEF Evidence
  <2>6. ASSUME NEW k \in Tick, NEW t \in Txn, rows'[k][t] # None, rows'[k][t].ref = "bad"
        PROVE  pine'[t] = "refused"
    BY <1>2, <2>3, <2>6, RowSteps DEF Evidence
  <2>7. ASSUME NEW p \in Proc, pc'[p] \in {"write", "postback"}
        PROVE  /\ got'[p] = "PAID" => pine'[job'[p]] = "approved"
               /\ got'[p] = "FAILED" => pine'[job'[p]] \in Over
    <3>1. CASE pc'[p] = pc[p] /\ job'[p] = job[p] /\ got'[p] = got[p]
      BY <2>1, <2>2, <2>7, <3>1 DEF Evidence, TypeInv, JobData
    <3>2. CASE job'[p] \in Txn /\ got'[p] = Answer(job'[p]) /\ pine' = pine
      BY <3>2, AnswerTrue
    <3> QED BY <1>2, <2>7, <3>1, <3>2, RunEvidence
  <2>8. ASSUME NEW p \in Proc, pc'[p] = "complete"
        PROVE  pine'[job'[p]] = "approved"
    <3>1. job[p] \in Txn /\ job'[p] = job[p] /\ pine[job[p]] = "approved"
      BY <1>2, <2>8, RunEvidence DEF Evidence, TypeInv, JobData
    <3> QED BY <2>1, <3>1
  <2>9. ASSUME NEW p \in Proc, pc'[p] = "fail"
        PROVE  pine'[job'[p]] = "refused"
    <3>1. job'[p] \in Txn /\ pine[job'[p]] = "refused"
      BY <1>2, <2>9, RunEvidence DEF Evidence, TypeInv, JobData
    <3> QED BY <2>3, <3>1
  <2> QED BY <2>4, <2>5, <2>6, <2>7, <2>8, <2>9 DEF Evidence
<1> QED BY <1>1, <1>2

LEMMA InitEvidence == Init => Evidence
  BY DEF Init, Evidence, PaidIsReal

\* No row is PAID and no payment recorded unless Pine approved it, however
\* many requests, ticks, failures and restarts there are.
THEOREM PaidIsRealHolds == Spec => []PaidIsReal
<1>1. Init => TypeInv /\ Evidence BY InitTypes, InitEvidence
<1>2. TypeInv /\ Evidence /\ [Next]_vars => (TypeInv /\ Evidence)'
  BY NextTypes, NextEvidence
<1>3. TypeInv /\ Evidence => PaidIsReal BY DEF Evidence
<1> QED BY <1>1, <1>2, <1>3, PTL DEF Spec

\* The rows are well typed and never claim a payment that Pine did not take.
THEOREM RowsSoundHolds == Spec => []RowsSound
BY TerminalTypes, PaidIsRealHolds, PTL DEF RowsSound

\* A row that is PAID is never marked FAILED, whatever arrives late.
THEOREM PaidNeverFailsHolds == Spec => PaidNeverFails
<1>1. Init => TypeInv /\ Evidence BY InitTypes, InitEvidence
<1>2. TypeInv /\ Evidence /\ [Next]_vars => (TypeInv /\ Evidence)'
  BY NextTypes, NextEvidence
<1>3. TypeInv /\ Evidence /\ [Next]_vars =>
        [\A t \in Txn : status[t] = "PAID" => status'[t] # "FAILED"]_vars
  <2> SUFFICES ASSUME TypeInv, Evidence, Next, NEW t \in Txn, status[t] = "PAID"
               PROVE  status'[t] # "FAILED"
    OBVIOUS
  <2>1. pine[t] = "approved" BY DEF Evidence, PaidIsReal
  <2> QED BY <2>1, TableSteps DEF Evidence, Over
<1> QED BY <1>1, <1>2, <1>3, PTL DEF Spec, PaidNeverFails

--------------------
(* Payments counted once *)

\* The poller is the only one that learns of payments, and every UPDATE is made.
PollerOnly == asked \subseteq {"push", "cancel"} /\ "unwritten" \notin failed

\* Then no request asks about, settles or records a payment, and one tick at a
\* time does; a tick that is over holds no rows.
OneTick ==
    /\ \A p \in Request : pc[p] \in {"ready", "insert", "cancelAsk", "cancelWrite", "done"}
    /\ \A k \in Tick : /\ pc[k] \in {"ready", "list", "ask", "write", "complete", "fail"}
                       /\ pc[k] = "ready" => \A t \in Txn : rows[k][t] = None
                       /\ pc[k] # "ready" => isPolling
    /\ \A j, k \in Tick : pc[j] # "ready" /\ pc[k] # "ready" => j = k

\* A row with a PTRID has had its answer, so nothing will reopen it.
Answered ==
    /\ \A t \in Txn : ref[t] # "none" => upload[t] = "over"
    /\ \A t \in Txn : upload[t] # "none" => status[t] # "none"

\* A recorded payment is closed for good: its row is not polled again, ...
Recorded ==
    \A t \in Txn : collected[t] > 0 =>
        collected[t] = 1 /\ upload[t] = "over" /\ status[t] \notin Polled

\* ... what a tick still has to look at is not recorded, ...
Listed ==
    \A k \in Tick, t \in Txn : rows[k][t] # None =>
        /\ collected[t] = 0
        /\ rows[k][t].ref # "none" => upload[t] = "over"

\* ... nor is the payment it works on, which it has taken off its list.
InTick ==
    \A k \in Tick : pc[k] \in {"ask", "write", "complete", "fail"} =>
        /\ rows[k][job[k]] = None
        /\ collected[job[k]] = 0
        /\ upload[job[k]] = "over"
        /\ pc[k] = "write" => got[k] \in {"PAID", "FAILED"}
        /\ pc[k] = "complete" => status[job[k]] \notin Polled

CountInv == OneTick /\ Answered /\ Recorded /\ Listed /\ InTick

\* The kinds of requests and of failures only grow.
LEMMA PollerOnlyBefore ==
  ASSUME PollerOnly', [Next]_vars
  PROVE  /\ PollerOnly
         /\ \A p \in Request, t \in Txn : ~Check(p, t) /\ ~Postback(p, t)
         /\ \A p \in Proc : ~Unwritten(p)
         /\ \A t \in Txn : ~UploadUnwritten(t)
<1>1. ASSUME NEW p \in Request, RequestArrives(p)
      PROVE  asked \subseteq asked' /\ failed \subseteq failed'
  BY <1>1 DEF RequestArrives, Push, Check, Cancel, Postback, Arrives
<1>2. ASSUME NEW p \in Proc, RunStep(p)
      PROVE  asked \subseteq asked' /\ failed \subseteq failed'
  BY <1>2 DEF RunStep, Insert, Ask, Settle, Complete, Fail, CancelAsk,
              CancelWrite, PostbackWrite, past
<1>3. ASSUME NEW k \in Tick, PollStep(k)
      PROVE  asked \subseteq asked' /\ failed \subseteq failed'
  BY <1>3 DEF PollStep, Poll, PollRow, PollEnd, past
<1>4. ASSUME Failure
      PROVE  asked \subseteq asked' /\ failed \subseteq failed'
  BY <1>4 DEF Failure, UploadRefused, UploadTimesOut, UploadUnwritten, Unreachable,
              Unwritten, Unrecorded, Restart, Fault
<1>5. ASSUME (\E t \in Txn : UploadStep(t)) \/ (\E t \in Txn, o \in Closed : Customer(t, o))
      PROVE  asked \subseteq asked' /\ failed \subseteq failed'
  BY <1>5 DEF UploadStep, UploadReaches, UploadAnswered, Customer, past
<1>6. asked \subseteq asked' /\ failed \subseteq failed'
  BY <1>1, <1>2, <1>3, <1>4, <1>5 DEF Next, vars
<1>7. ASSUME NEW p \in Request, NEW t \in Txn
      PROVE  ~Check(p, t) /\ ~Postback(p, t)
  BY DEF Check, Postback, Arrives, PollerOnly
<1>8. /\ \A p \in Proc : ~Unwritten(p)
      /\ \A t \in Txn : ~UploadUnwritten(t)
  BY DEF Unwritten, UploadUnwritten, Fault, PollerOnly
<1> QED BY <1>6, <1>7, <1>8 DEF PollerOnly

\* A step that leaves the ticks alone and reopens no row whose upload is over.
TicksKept ==
    /\ UNCHANGED <<isPolling, rows, collected>>
    /\ \A k \in Tick : pc'[k] = pc[k] /\ job'[k] = job[k] /\ got'[k] = got[k]
    /\ \A p \in Request : pc'[p] \in {"ready", "insert", "cancelAsk", "cancelWrite", "done"}

RowKept(t) ==
    /\ upload[t] = "over" => upload'[t] = "over"
    /\ upload[t] = "over" /\ status[t] \notin Polled => status'[t] \notin Polled
    /\ ref'[t] # "none" => upload'[t] = "over"
    /\ upload'[t] # "none" => status'[t] # "none"

LEMMA KeptCounts ==
  ASSUME TypeInv, CountInv, TicksKept, \A t \in Txn : RowKept(t)
  PROVE  CountInv'
<1>1. OneTick' /\ Answered' /\ Recorded' /\ Listed'
  BY DEF CountInv, OneTick, Answered, Recorded, Listed, TicksKept, RowKept
<1>2. \A k \in Tick : pc[k] \in {"ask", "write", "complete", "fail"} => job[k] \in Txn
  BY DEF TypeInv, JobData, Proc
<1>3. InTick'
  BY <1>2 DEF CountInv, InTick, TicksKept, RowKept
<1> QED BY <1>1, <1>3 DEF CountInv

\* The upload, the customer and Pine.
LEMMA OutsideCounts ==
  ASSUME TypeInv, CountInv,
         \/ \E t \in Txn : UploadStep(t)
         \/ \E t \in Txn, o \in Closed : Customer(t, o)
         \/ \E t \in Txn, r \in Ref : UploadRefused(t, r)
         \/ \E t \in Txn : UploadTimesOut(t)
  PROVE  CountInv'
<1>1. TicksKept
  BY DEF UploadStep, UploadReaches, UploadAnswered, Customer, UploadRefused,
         UploadTimesOut, TicksKept, CountInv, OneTick, local, Proc
<1>2. ASSUME NEW t \in Txn, UploadReaches(t) \/ \E o \in Closed : Customer(t, o)
      PROVE  UNCHANGED <<upload, status, ref>>
  BY <1>2 DEF UploadReaches, Customer, table
<1>3. ASSUME NEW t \in Txn,
             UploadAnswered(t) \/ UploadTimesOut(t) \/ \E r \in Ref : UploadRefused(t, r)
      PROVE  /\ upload[t] = "sent" /\ upload'[t] = "over" /\ status'[t] # "none"
             /\ \A u \in Txn \ {t} : upload'[u] = upload[u] /\ status'[u] = status[u]
                                     /\ ref'[u] = ref[u]
  BY <1>3 DEF UploadAnswered, UploadTimesOut, UploadRefused, Write, TypeInv, TypeOK
<1>4. \A u \in Txn : RowKept(u)
  BY <1>2, <1>3 DEF UploadStep, RowKept, CountInv, Answered
<1> QED BY <1>1, <1>4, KeptCounts

\* A push or a cancellation arrives.
LEMMA ArrivalCounts ==
  ASSUME TypeInv, CountInv, NEW p \in Request,
         (\E d \in Draft : Push(p, d)) \/ (\E t \in Txn : Cancel(p, t))
  PROVE  CountInv'
<1>1. p \in Proc /\ p \notin Tick
  BY TerminalAssumption DEF Proc
<1>2. TicksKept
  BY <1>1 DEF Push, Cancel, Goto, TicksKept, CountInv, OneTick, TypeInv, TypeOK, Proc
<1>3. \A t \in Txn : RowKept(t)
  BY DEF Push, Cancel, RowKept, CountInv, Answered, table
<1> QED BY <1>2, <1>3, KeptCounts

\* The end of a request.
LEMMA RequestReturn ==
  ASSUME TypeInv, CountInv, NEW p \in Request, Return(p), UNCHANGED <<isPolling, rows, collected>>
  PROVE  TicksKept
<1>1. p \in Proc /\ p \notin Tick
  BY TerminalAssumption DEF Proc
<1> QED BY <1>1 DEF Return, TicksKept, CountInv, OneTick, TypeInv, TypeOK, Proc

\* The steps of a push and of a cancellation: they write rows that were never
\* recorded, or close them.
LEMMA RequestCounts ==
  ASSUME TypeInv, CountInv, NEW p \in Request,
         RunStep(p) \/ Unreachable(p) \/ Unrecorded(p)
  PROVE  CountInv'
<1>1. p \in Proc /\ p \notin Tick
  BY TerminalAssumption DEF Proc
<1>2. pc[p] \in {"ready", "insert", "cancelAsk", "cancelWrite", "done"}
  BY DEF CountInv, OneTick
<1>3. ASSUME NEW t \in Txn, Insert(p, t)
      PROVE  CountInv'
  <2>1. upload[t] = "none" /\ ref[t] = "none"
    BY <1>3 DEF Insert, CountInv, Answered
  <2>2. TicksKept
    BY <1>3, RequestReturn DEF Insert
  <2>3. \A u \in Txn : RowKept(u)
    BY <1>3, <2>1 DEF Insert, RowKept, CountInv, Answered, TypeInv, TypeOK
  <2> QED BY <2>2, <2>3, KeptCounts
<1>4. CASE CancelAsk(p)
  <2>1. TicksKept
    <3>1. CASE Return(p)
      BY <1>4, <3>1, RequestReturn DEF CancelAsk
    <3>2. CASE Goto(p, "cancelWrite") /\ UNCHANGED <<job, seen, got>>
      BY <1>1, <1>4, <3>2 DEF CancelAsk, Goto, TicksKept, CountInv, OneTick, TypeInv, TypeOK, Proc
    <3> QED BY <1>4, <3>1, <3>2 DEF CancelAsk
  <2>2. \A u \in Txn : RowKept(u)
    BY <1>4 DEF CancelAsk, RowKept, CountInv, Answered, table
  <2> QED BY <2>1, <2>2, KeptCounts
<1>5. CASE CancelWrite(p)
  <2>1. TicksKept
    BY <1>5, RequestReturn DEF CancelWrite
  <2>2. \A u \in Txn : RowKept(u)
    BY <1>5 DEF CancelWrite, Write, RowKept, CountInv, Answered, Polled, InProgress, TypeInv, TypeOK
  <2> QED BY <2>1, <2>2, KeptCounts
<1>6. CASE Unreachable(p)
  <2>1. TicksKept
    BY <1>6, RequestReturn DEF Unreachable
  <2>2. \A u \in Txn : RowKept(u)
    BY <1>6 DEF Unreachable, RowKept, CountInv, Answered, table
  <2> QED BY <2>1, <2>2, KeptCounts
<1>7. ~(\/ Ask(p) \/ Settle(p) \/ Complete(p) \/ Fail(p) \/ PostbackWrite(p)
        \/ Unrecorded(p))
  BY <1>2 DEF Ask, Settle, Complete, Fail, PostbackWrite, Unrecorded
<1> QED BY <1>3, <1>4, <1>5, <1>6, <1>7 DEF RunStep

\* A step of the tick that polls, beside ticks that are over.
TickStep(k) ==
    /\ \A j \in Tick \ {k} : pc[j] = "ready" /\ pc'[j] = "ready" /\ rows'[j] = rows[j]
    /\ \A p \in Request : pc'[p] = pc[p]
    /\ UNCHANGED <<upload, ref>>

\* What such a step has to show of its tick, of its list and of the table.
LEMMA TickCounts ==
  ASSUME TypeInv, CountInv, NEW k \in Tick, TickStep(k),
         pc'[k] \in {"ready", "list", "ask", "write", "complete", "fail"},
         pc'[k] = "ready" => \A t \in Txn : rows'[k][t] = None,
         pc'[k] # "ready" => isPolling',
         \A t \in Txn : upload[t] # "none" => status'[t] # "none",
         \A t \in Txn : collected'[t] > 0 =>
             collected'[t] = 1 /\ upload[t] = "over" /\ status'[t] \notin Polled,
         \A t \in Txn : rows'[k][t] # None =>
             collected'[t] = 0 /\ (rows'[k][t].ref # "none" => upload[t] = "over"),
         pc'[k] \in {"ask", "write", "complete", "fail"} =>
             /\ rows'[k][job'[k]] = None
             /\ collected'[job'[k]] = 0
             /\ upload[job'[k]] = "over"
             /\ pc'[k] = "write" => got'[k] \in {"PAID", "FAILED"}
             /\ pc'[k] = "complete" => status'[job'[k]] \notin Polled
  PROVE  CountInv'
<1>1. \A j \in Tick \ {k} : pc'[j] = "ready" /\ \A t \in Txn : rows'[j][t] = None
  BY DEF TickStep, CountInv, OneTick
<1>2. \A p \in Request : pc'[p] = pc[p] /\ UNCHANGED <<upload, ref>>
  BY DEF TickStep
<1>3. OneTick'
  BY <1>1, <1>2 DEF CountInv, OneTick
<1>4. Answered' /\ Recorded'
  BY <1>2 DEF CountInv, Answered, Recorded, TickStep
<1>5. Listed'
  BY <1>1 DEF Listed, TickStep
<1>6. InTick'
  BY <1>1 DEF InTick, TickStep
<1> QED BY <1>3, <1>4, <1>5, <1>6 DEF CountInv

\* A tick reads the rows still open, and takes them one by one.
LEMMA PollCounts ==
  ASSUME TypeInv, CountInv, NEW k \in Tick, PollStep(k)
  PROVE  CountInv'
<1>0. /\ k \in Proc /\ k \notin Request
      /\ \A j \in Tick : j \in Proc
      /\ \A p \in Request : p \in Proc
  BY TerminalAssumption DEF Proc
<1>a. \A j \in Tick \ {k} : pc[j] = "ready"
  BY DEF PollStep, Poll, PollRow, PollEnd, CountInv, OneTick
<1>b. TickStep(k)
  BY <1>0, <1>a DEF PollStep, Poll, PollRow, PollEnd, Look, Goto, TickStep, local, table,
                    TypeInv, TypeOK
<1>c. \A t \in Txn : /\ collected[t] \in Nat
                     /\ collected[t] > 0 =>
                          collected[t] = 1 /\ upload[t] = "over" /\ status[t] \notin Polled
                     /\ upload[t] # "none" => status[t] # "none"
                     /\ ref[t] # "none" => upload[t] = "over"
                     /\ rows[k][t] # None => /\ collected[t] = 0
                                             /\ rows[k][t].ref # "none" => upload[t] = "over"
  BY DEF CountInv, Recorded, Answered, Listed, TypeInv, TypeOK
<1>d. UNCHANGED <<status, collected>>
  BY DEF PollStep, Poll, PollRow, PollEnd, table
<1>1. CASE Poll(k)
  <2>1. /\ pc'[k] = "list" /\ isPolling'
        /\ \A t \in Txn : rows'[k][t] = IF status[t] \in Polled THEN RowOf(t) ELSE None
    BY <1>0, <1>1 DEF Poll, Goto, TypeInv, TypeOK
  <2>2. ASSUME NEW t \in Txn, rows'[k][t] # None
        PROVE  collected[t] = 0 /\ (rows'[k][t].ref # "none" => upload[t] = "over")
    <3>1. status[t] \in Polled /\ rows'[k][t] = RowOf(t)
      BY <2>1, <2>2
    <3>2. rows'[k][t].ref = ref[t]
      BY <3>1 DEF RowOf
    <3>3. collected[t] = 0
      BY <1>c, <3>1
    <3> QED BY <1>c, <3>2, <3>3
  <2> QED BY <1>b, <1>c, <1>d, <2>1, <2>2, TickCounts
<1>2. ASSUME NEW t \in Txn, PollRow(k, t)
      PROVE  CountInv'
  <2>1. /\ rows[k][t] # None /\ rows'[k][t] = None /\ isPolling'
        /\ \A u \in Txn \ {t} : rows'[k][u] = rows[k][u]
    BY <1>0, <1>2 DEF PollRow, CountInv, OneTick, TypeInv, TypeOK
  <2>2. \/ pc'[k] = "list"
        \/ pc'[k] \in {"ask", "fail"} /\ job'[k] = t /\ rows[k][t].ref # "none"
    BY <1>0, <1>2 DEF PollRow, Look, Goto, TypeInv, TypeOK
  <2>3. \A u \in Txn : rows'[k][u] # None =>
            collected[u] = 0 /\ (rows'[k][u].ref # "none" => upload[u] = "over")
    BY <1>c, <2>1
  <2> QED BY <1>b, <1>c, <1>d, <2>1, <2>2, <2>3, TickCounts
<1>3. CASE PollEnd(k)
  <2>1. pc'[k] = "ready" /\ \A t \in Txn : rows'[k][t] = None
    BY <1>0, <1>3 DEF PollEnd, Goto, local, TypeInv, TypeOK
  <2> QED BY <1>b, <1>c, <1>d, <2>1, TickCounts
<1> QED BY <1>1, <1>2, <1>3 DEF PollStep

\* A tick asks, settles and records the payment it has in hand: nobody else
\* records it meanwhile, and a recorded row is not polled again.
LEMMA TickRunCounts ==
  ASSUME TypeInv, CountInv, NEW k \in Tick,
         RunStep(k) \/ Unreachable(k) \/ Unrecorded(k)
  PROVE  CountInv'
<1>0. /\ k \in Proc /\ k \notin Request
      /\ \A j \in Tick : j \in Proc
      /\ \A p \in Request : p \in Proc
  BY TerminalAssumption DEF Proc
<1>a. pc[k] \in {"ready", "list", "ask", "write", "complete", "fail"}
  BY DEF CountInv, OneTick
<1>b. Ask(k) \/ Settle(k) \/ Complete(k) \/ Fail(k) \/ Unreachable(k) \/ Unrecorded(k)
  BY <1>a DEF RunStep, Insert, CancelAsk, CancelWrite, PostbackWrite
<1>c. pc[k] \in {"ask", "write", "complete", "fail"}
  BY <1>a, <1>b DEF Ask, Settle, Complete, Fail, Unreachable, Unrecorded
<1>d. PICK t \in Txn : t = job[k]
  BY <1>0, <1>c DEF TypeInv, JobData
<1>e. /\ rows[k][t] = None /\ collected[t] = 0 /\ upload[t] = "over"
      /\ pc[k] = "write" => got[k] \in {"PAID", "FAILED"}
      /\ pc[k] = "complete" => status[t] \notin Polled
      /\ isPolling
  BY <1>c, <1>d DEF CountInv, InTick, OneTick
<1>f. /\ \A j \in Tick \ {k} : pc[j] = "ready"
      /\ \A j \in Tick, u \in Txn : rows[j][u] # None =>
             collected[u] = 0 /\ (rows[j][u].ref # "none" => upload[u] = "over")
      /\ \A u \in Txn : /\ collected[u] > 0 =>
                             collected[u] = 1 /\ upload[u] = "over" /\ status[u] \notin Polled
                        /\ upload[u] # "none" => status[u] # "none"
  BY <1>c DEF CountInv, OneTick, Listed, Recorded, Answered
<1>g. UNCHANGED <<rows, upload, ref, isPolling>>
  BY <1>b DEF Ask, Settle, Complete, Fail, Unreachable, Unrecorded, Write, table
<1>h. \A q \in Proc \ {k} : pc'[q] = pc[q]
  BY <1>b DEF Ask, Settle, Complete, Fail, Unreachable, Unrecorded, Return, Goto, TypeInv, TypeOK
<1>i. TickStep(k)
  BY <1>0, <1>f, <1>g, <1>h DEF TickStep
<1>1. ASSUME Return(k)
      PROVE  pc'[k] = "list"
  BY <1>0, <1>1 DEF Return, TypeInv, TypeOK
<1>2. CASE Ask(k)
  <2>1. UNCHANGED <<status, collected>>
    BY <1>2 DEF Ask, table
  <2>2. CASE Return(k)
    BY <1>1, <1>e, <1>f, <1>g, <1>i, <2>1, <2>2, TickCounts
  <2>3. CASE /\ got' = [got EXCEPT ![k] = Answer(job[k])]
             /\ Answer(job[k]) # "none"
             /\ Goto(k, "write")
             /\ UNCHANGED <<job, seen>>
    <3>1. pc'[k] = "write" /\ job'[k] = t /\ got'[k] \in {"PAID", "FAILED"}
      BY <1>0, <1>d, <2>3, AnswerTypes DEF Goto, TypeInv, TypeOK
    <3> QED BY <1>e, <1>f, <1>g, <1>i, <2>1, <3>1, TickCounts
  <2> QED BY <1>2, <2>2, <2>3 DEF Ask
<1>3. CASE Settle(k)
  <2>1. /\ collected' = collected /\ got[k] \in {"PAID", "FAILED"}
        /\ status'[t] = got[k] /\ \A u \in Txn \ {t} : status'[u] = status[u]
    BY <1>3, <1>d, <1>e DEF Settle, Write, TypeInv, TypeOK
  <2>2. status'[t] \notin Polled /\ status'[t] # "none"
    BY <2>1 DEF Polled, InProgress
  <2>3. CASE Return(k)
    BY <1>1, <1>e, <1>f, <1>g, <1>i, <2>1, <2>2, <2>3, TickCounts
  <2>4. CASE Goto(k, "complete") /\ UNCHANGED <<job, seen, got>>
    <3>1. pc'[k] = "complete" /\ job'[k] = t
      BY <1>0, <1>d, <2>4 DEF Goto, TypeInv, TypeOK
    <3> QED BY <1>e, <1>f, <1>g, <1>i, <2>1, <2>2, <3>1, TickCounts
  <2> QED BY <1>3, <2>3, <2>4 DEF Settle
<1>4. CASE Complete(k)
  <2>1. /\ status' = status /\ status[t] \notin Polled
        /\ collected'[t] = 1 /\ \A u \in Txn \ {t} : collected'[u] = collected[u]
    BY <1>4, <1>d, <1>e DEF Complete, table, TypeInv, TypeOK
  <2>2. \A u \in Txn : rows[k][u] # None => u # t
    BY <1>e
  <2> QED BY <1>1, <1>4, <1>e, <1>f, <1>g, <1>i, <2>1, <2>2, TickCounts DEF Complete
<1>5. CASE Fail(k)
  <2>1. /\ collected' = collected
        /\ status'[t] = "FAILED" /\ \A u \in Txn \ {t} : status'[u] = status[u]
    BY <1>5, <1>d DEF Fail, Write, TypeInv, TypeOK
  <2> QED BY <1>1, <1>5, <1>e, <1>f, <1>g, <1>i, <2>1, TickCounts DEF Fail, Polled, InProgress
<1>6. CASE Unreachable(k) \/ Unrecorded(k)
  <2>1. UNCHANGED <<status, collected>>
    BY <1>6 DEF Unreachable, Unrecorded, table
  <2> QED BY <1>1, <1>6, <1>e, <1>f, <1>g, <1>i, <2>1, TickCounts DEF Unreachable, Unrecorded
<1> QED BY <1>b, <1>2, <1>3, <1>4, <1>5, <1>6

\* A restart forgets the lists; what a tick settled and did not record stays
\* unrecorded.
LEMMA RestartCounts ==
  ASSUME TypeInv, CountInv, Restart
  PROVE  CountInv'
<1>0. \A p \in Request : p \in Proc /\ p \notin Tick
  BY TerminalAssumption DEF Proc
<1>1. \A k \in Tick : pc'[k] = "ready" /\ \A t \in Txn : rows'[k][t] = None
  BY DEF Restart, Proc
<1>2. \A p \in Request : pc'[p] \in {"ready", "done"}
  BY <1>0 DEF Restart
<1>3. /\ UNCHANGED <<status, ref, collected>>
      /\ \A t \in Txn : /\ upload[t] = "over" => upload'[t] = "over"
                        /\ upload'[t] # "none" => upload[t] # "none"
  BY DEF Restart, table, TypeInv, TypeOK
<1>4. Answered' /\ Recorded'
  BY <1>3 DEF CountInv, Answered, Recorded
<1>5. OneTick'
  <2>1. \A j, k \in Tick : ~(pc'[j] # "ready" /\ pc'[k] # "ready")
    BY <1>1
  <2> QED BY <1>1, <1>2, <2>1 DEF OneTick
<1>6. Listed' /\ InTick'
  BY <1>1 DEF Listed, InTick
<1> QED BY <1>4, <1>5, <1>6 DEF CountInv

\* As long as the poller alone learns of payments and every UPDATE is made,
\* however its ticks, the cancellations, the other failures and the restarts
\* fall, none is recorded twice.
THEOREM PollerCountsOnceHolds == Spec => []PollerCountsOnce
<1>1. Spec => []TypeInv
  BY TerminalTypes, PTL DEF TypeInv
<1>2. Init => CountInv
  BY DEF Init, CountInv, OneTick, Answered, Recorded, Listed, InTick, Proc
<1>3. ASSUME TypeInv, PollerOnly => CountInv, [Next]_vars
      PROVE  (PollerOnly => CountInv)'
  <2> SUFFICES ASSUME PollerOnly' PROVE CountInv'
    OBVIOUS
  <2>1. /\ CountInv /\ \A p \in Request, t \in Txn : ~Check(p, t) /\ ~Postback(p, t)
        /\ \A p \in Proc : ~Unwritten(p)
        /\ \A t \in Txn : ~UploadUnwritten(t)
    BY <1>3, PollerOnlyBefore
  <2>2. CASE UNCHANGED vars
    BY <2>1, <2>2 DEF vars, CountInv, OneTick, Answered, Recorded, Listed, InTick
  <2>3. ASSUME NEW p \in Proc, RunStep(p) \/ Unreachable(p) \/ Unrecorded(p)
        PROVE  CountInv'
    BY <1>3, <2>1, <2>3, RequestCounts, TickRunCounts DEF Proc
  <2>4. ASSUME NEW p \in Request, RequestArrives(p)
        PROVE  CountInv'
    BY <1>3, <2>1, <2>4, ArrivalCounts DEF RequestArrives
  <2>5. CASE Failure
    <3>1. \/ \E t \in Txn, r \in Ref : UploadRefused(t, r)
          \/ \E t \in Txn : UploadTimesOut(t)
          \/ \E p \in Proc : Unreachable(p) \/ Unrecorded(p)
          \/ Restart
      BY <2>1, <2>5, Zenon DEF Failure
    <3>2. CASE \/ \E t \in Txn, r \in Ref : UploadRefused(t, r)
               \/ \E t \in Txn : UploadTimesOut(t)
      BY <1>3, <2>1, <3>2, OutsideCounts
    <3>3. CASE Restart BY <1>3, <2>1, <3>3, RestartCounts
    <3> QED BY <2>3, <3>1, <3>2, <3>3
  <2>6. CASE (\E t \in Txn : UploadStep(t)) \/ (\E t \in Txn, o \in Closed : Customer(t, o))
    BY <1>3, <2>1, <2>6, OutsideCounts
  <2>7. CASE \E k \in Tick : PollStep(k)
    BY <1>3, <2>1, <2>7, PollCounts
  <2> QED
    BY <1>3, <2>2, <2>3, <2>4, <2>5, <2>6, <2>7 DEF Next
<1>4. TypeInv /\ (PollerOnly => CountInv) => PollerCountsOnce
  BY DEF PollerOnly, CountInv, Recorded, PollerCountsOnce, CountedOnce, TypeInv, TypeOK
<1> QED BY <1>1, <1>2, <1>3, <1>4, PTL DEF Spec
=============================================================================
