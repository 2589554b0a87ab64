------------------------------ MODULE Terminal ------------------------------
(***************************************************************************)
(* Card payments on a counter terminal (src/integrations/pine): the rows   *)
(* of the transactions table, the requests that push, check and cancel a   *)
(* payment, Pine's postback and the 30 s poller.  Every awaited call is    *)
(* one action.  Pine itself and the customer are external: they are what   *)
(* the code is told, a transaction Pine may know nothing of, have waiting  *)
(* on the machine, or have closed.                                         *)
(***************************************************************************)
EXTENDS Naturals, FiniteSets

CONSTANTS
    Txn,       \* rows of transactions; one is the amount pushed once
    Draft,     \* draft orders
    Request,   \* HTTP requests, each served once
    Tick,      \* ticks of the poller's interval
    Ops,       \* what the requests of a run may be
    Faults,    \* the failures a run allows
    MaxFaults, \* bound: failures and restarts, each of another kind
    None       \* no row, no draft

ASSUME TerminalAssumption ==
    /\ Request \cap Tick = {}
    /\ None \notin Txn \cup Draft
    /\ Ops \subseteq {"push", "check", "cancel", "postback"}
    /\ Faults \subseteq {"timeout", "refused", "unreachable", "restart",
                      "unwritten", "unrecorded"}
    /\ MaxFaults \in Nat

VARIABLES
    status,    \* transactions.status, "none" before the INSERT
    ref,       \* pine_ref_id: "none", "bad" (PTRID <= 0) or "good"
    draftOf,   \* shopify_draft_id
    upload,    \* the unawaited UploadBilledTransaction: none, sent, over
    pine,      \* what Pine has of the transaction
    collected, \* runs of handlePaymentCompletion for the transaction
    isPolling, \* the poller's flag
    pc,        \* the call a request or a tick is about to make
    job,       \* the transaction (or, for a push, the draft) it works on
    seen,      \* the row as it read it
    got,       \* the status Pine's answer maps to
    rows,      \* the rows a tick has still to look at, as it read them
    failed,    \* the failures and restarts so far
    asked      \* the kinds of requests so far

table == <<status, ref, draftOf>>
local == <<job, seen, got, rows>>
past == <<failed, asked>>
vars == <<status, ref, draftOf, upload, pine, collected, isPolling, pc, job,
          seen, got, rows, failed, asked>>

Proc == Request \cup Tick
Status == {"none", "PENDING", "PUSHED_TO_TERMINAL", "PINE_UNREACHABLE",
           "PAID", "FAILED", "CANCELLED"}
Ref == {"none", "bad", "good"}
RowRead == [status : Status, ref : Ref]
Closed == {"approved", "declined", "cancelled"}
Step == {"ready", "done", "insert", "list", "ask", "write", "complete",
         "cancelAsk", "cancelWrite", "fail"}

\* The statuses a push counts as a payment in progress, and those the
\* poller asks Pine about.
InProgress == {"PENDING", "PUSHED_TO_TERMINAL"}
Polled == InProgress \cup {"PINE_UNREACHABLE"}
Active(d) == {t \in Txn : draftOf[t] = d /\ status[t] \in InProgress}
RowOf(t) == [status |-> status[t], ref |-> ref[t]]

Init ==
    /\ status = [t \in Txn |-> "none"]
    /\ ref = [t \in Txn |-> "none"]
    /\ draftOf = [t \in Txn |-> None]
    /\ upload = [t \in Txn |-> "none"]
    /\ pine = [t \in Txn |-> "unheard"]
    /\ collected = [t \in Txn |-> 0]
    /\ isPolling = FALSE
    /\ pc = [p \in Proc |-> "ready"]
    /\ job = [p \in Proc |-> None]
    /\ seen = [p \in Proc |-> None]
    /\ got = [p \in Proc |-> "none"]
    /\ rows = [k \in Tick |-> [t \in Txn |-> None]]
    /\ failed = {}
    /\ asked = {}

-----------------------------------------------------------------------------
\* Faulty Answer: every answer that is not a failure is taken for a payment.
AnswerPendingPaid(t) ==
    IF pine[t] \in {"declined", "cancelled"} THEN "FAILED" ELSE "PAID"

\* Faulty Answer: Pine's own word is stored.
AnswerRaw(t) == IF pine[t] \in {"waiting", "unheard"} THEN "none" ELSE pine[t]

\* getPineStatusResult: a transaction still on the machine changes nothing.
Answer(t) ==
    CASE pine[t] = "approved" -> "PAID"
      [] pine[t] \in {"waiting", "unheard"} -> "none"
      [] OTHER -> "FAILED"

Goto(p, step) == pc' = [pc EXCEPT ![p] = step]

\* The request is answered; a tick goes on with its next row.
Return(p) ==
    /\ pc' = [pc EXCEPT ![p] = IF p \in Tick THEN "list" ELSE "done"]
    /\ job' = [job EXCEPT ![p] = None]
    /\ seen' = [seen EXCEPT ![p] = None]
    /\ got' = [got EXCEPT ![p] = "none"]

Write(t, s) ==
    /\ status' = [status EXCEPT ![t] = s]
    /\ UNCHANGED draftOf

Fault(kind) ==
    /\ kind \in Faults \ failed
    /\ Cardinality(failed) < MaxFaults
    /\ failed' = failed \cup {kind}
    /\ UNCHANGED asked

\* A request of the given kind arrives.
Arrives(p, op) ==
    /\ op \in Ops
    /\ p \in Request
    /\ pc[p] = "ready"
    /\ asked' = asked \cup {op}
    /\ UNCHANGED failed

-----------------------------------------------------------------------------
\* pushDraftOrderToTerminal.  maybeSingle gives no row when it finds two, so
\* only exactly one payment in progress refuses the push.
Push(p, d) ==
    /\ Arrives(p, "push")
    /\ Cardinality(Active(d)) # 1
    /\ job' = [job EXCEPT ![p] = d]
    /\ Goto(p, "insert")
    /\ UNCHANGED <<table, upload, pine, collected, isPolling, seen, got, rows>>

\* The row is inserted, the upload sent and not waited for.
Insert(p, t) ==
    /\ pc[p] = "insert"
    /\ status[t] = "none"
    /\ status' = [status EXCEPT ![t] = "PENDING"]
    /\ draftOf' = [draftOf EXCEPT ![t] = job[p]]
    /\ upload' = [upload EXCEPT ![t] = "sent"]
    /\ Return(p)
    /\ UNCHANGED <<ref, pine, collected, isPolling, rows, past>>

\* Pine receives the upload and shows the amount on the machine.
UploadReaches(t) ==
    /\ upload[t] = "sent"
    /\ pine[t] = "unheard"
    /\ pine' = [pine EXCEPT ![t] = "waiting"]
    /\ UNCHANGED <<table, upload, collected, isPolling, pc, local, past>>

\* Its answer arrives: the row is written whatever its status is by now.
UploadAnswered(t) ==
    /\ upload[t] = "sent"
    /\ pine[t] # "unheard"
    /\ upload' = [upload EXCEPT ![t] = "over"]
    /\ ref' = [ref EXCEPT ![t] = "good"]
    /\ Write(t, "PUSHED_TO_TERMINAL")
    /\ UNCHANGED <<pine, collected, isPolling, pc, local, past>>

\* Pine refuses the upload, with no reference or with one that is not
\* positive.
UploadRefused(t, r) ==
    /\ Fault("refused")
    /\ upload[t] = "sent"
    /\ pine[t] = "unheard"
    /\ r \in {"none", "bad"}
    /\ pine' = [pine EXCEPT ![t] = "refused"]
    /\ upload' = [upload EXCEPT ![t] = "over"]
    /\ ref' = [ref EXCEPT ![t] = r]
    /\ Write(t, "FAILED")
    /\ UNCHANGED <<collected, isPolling, pc, local>>

\* No answer in 30 s, whether or not Pine received the upload.
UploadTimesOut(t) ==
    /\ Fault("timeout")
    /\ upload[t] = "sent"
    /\ upload' = [upload EXCEPT ![t] = "over"]
    /\ ref' = [ref EXCEPT ![t] = "none"]
    /\ Write(t, "PINE_UNREACHABLE")
    /\ UNCHANGED <<pine, collected, isPolling, pc, local>>

\* The customer pays, or does not in time: external.
Customer(t, outcome) ==
    /\ pine[t] = "waiting"
    /\ outcome \in {"approved", "declined"}
    /\ pine' = [pine EXCEPT ![t] = outcome]
    /\ UNCHANGED <<table, upload, collected, isPolling, pc, local, past>>

-----------------------------------------------------------------------------
\* Faulty Look: the test of the PTRID is the wrong way round.
LookReversed(p, row) ==
    /\ seen' = [seen EXCEPT ![p] = row]
    /\ Goto(p, IF row.ref = "bad" THEN "ask" ELSE "fail")

\* Where a row's reference number leads a check or a poll.
Look(p, row) ==
    /\ seen' = [seen EXCEPT ![p] = row]
    /\ Goto(p, IF row.ref = "bad" THEN "fail" ELSE "ask")

\* POST /api/check-status reads the row; without a PTRID there is nothing to
\* ask.
Check(p, t) ==
    /\ Arrives(p, "check")
    /\ status[t] # "none"
    /\ ref[t] # "none"
    /\ job' = [job EXCEPT ![p] = t]
    /\ Look(p, RowOf(t))
    /\ UNCHANGED <<table, upload, pine, collected, isPolling, got, rows>>

\* Faulty Poll: the flag is not looked at.
PollOverlapping(k) ==
    /\ pc[k] = "ready"
    /\ \E t \in Txn : status[t] \in Polled
    /\ isPolling' = TRUE
    /\ rows' = [rows EXCEPT ![k] =
                  [t \in Txn |-> IF status[t] \in Polled THEN RowOf(t)
                                                         ELSE None]]
    /\ Goto(k, "list")
    /\ UNCHANGED <<table, upload, pine, collected, job, seen, got, past>>

\* Faulty Poll: rows whose upload got no answer are not read, nor are the
\* ones already on the machine.
PollPendingOnly(k) ==
    /\ pc[k] = "ready"
    /\ ~isPolling
    /\ \E t \in Txn : status[t] = "PENDING"
    /\ isPolling' = TRUE
    /\ rows' = [rows EXCEPT ![k] =
                  [t \in Txn |-> IF status[t] = "PENDING" THEN RowOf(t)
                                                          ELSE None]]
    /\ Goto(k, "list")
    /\ UNCHANGED <<table, upload, pine, collected, job, seen, got, past>>

\* A tick of the poller: not while another one runs.
Poll(k) ==
    /\ pc[k] = "ready"
    /\ ~isPolling
    /\ \E t \in Txn : status[t] \in Polled
    /\ isPolling' = TRUE
    /\ rows' = [rows EXCEPT ![k] =
                  [t \in Txn |-> IF status[t] \in Polled THEN RowOf(t)
                                                         ELSE None]]
    /\ Goto(k, "list")
    /\ UNCHANGED <<table, upload, pine, collected, job, seen, got, past>>

\* The next row of the pass, as it was read; one without a PTRID is skipped.
PollRow(k, t) ==
    /\ pc[k] = "list"
    /\ rows[k][t] # None
    /\ rows' = [rows EXCEPT ![k][t] = None]
    /\ IF rows[k][t].ref = "none"
         THEN UNCHANGED <<job, seen, pc>>
         ELSE /\ job' = [job EXCEPT ![k] = t]
              /\ Look(k, rows[k][t])
    /\ UNCHANGED <<table, upload, pine, collected, isPolling, got, past>>

PollEnd(k) ==
    /\ pc[k] = "list"
    /\ \A t \in Txn : rows[k][t] = None
    /\ isPolling' = FALSE
    /\ Goto(k, "ready")
    /\ UNCHANGED <<table, upload, pine, collected, local, past>>

\* GetCloudBasedTxnStatus; the answer is compared with the status read.
Ask(p) ==
    /\ pc[p] = "ask"
    /\ LET a == Answer(job[p]) IN
         IF a \in {"none", seen[p].status}
           THEN Return(p)
           ELSE /\ got' = [got EXCEPT ![p] = a]
                /\ Goto(p, "write")
                /\ UNCHANGED <<job, seen>>
    /\ UNCHANGED <<table, upload, pine, collected, isPolling, rows, past>>

\* The UPDATE is by id only: whatever the row holds by now is replaced.
Settle(p) ==
    /\ pc[p] = "write"
    /\ Write(job[p], got[p])
    /\ IF got[p] = "PAID"
         THEN Goto(p, "complete") /\ UNCHANGED <<job, seen, got>>
         ELSE Return(p)
    /\ UNCHANGED <<upload, ref, pine, collected, isPolling, rows, past>>

\* handlePaymentCompletion.
Complete(p) ==
    /\ pc[p] = "complete"
    /\ collected' = [collected EXCEPT ![job[p]] = @ + 1]
    /\ Return(p)
    /\ UNCHANGED <<table, upload, pine, isPolling, rows, past>>

\* A row with a PTRID that is not positive is marked FAILED.
Fail(p) ==
    /\ pc[p] = "fail"
    /\ Write(job[p], "FAILED")
    /\ Return(p)
    /\ UNCHANGED <<upload, ref, pine, collected, isPolling, rows, past>>

\* POST /api/cancel-transaction reads the row; one Pine has no number for
\* is cancelled without asking.
Cancel(p, t) ==
    /\ Arrives(p, "cancel")
    /\ status[t] \notin {"none", "PAID", "CANCELLED"}
    /\ job' = [job EXCEPT ![p] = t]
    /\ Goto(p, IF ref[t] = "good" THEN "cancelAsk" ELSE "cancelWrite")
    /\ UNCHANGED <<table, upload, pine, collected, isPolling, seen, got, rows>>

\* CancelTransaction: Pine cancels what is still on the machine and rejects
\* the rest.
CancelAsk(p) ==
    /\ pc[p] = "cancelAsk"
    /\ IF pine[job[p]] = "waiting"
         THEN /\ pine' = [pine EXCEPT ![job[p]] = "cancelled"]
              /\ Goto(p, "cancelWrite")
              /\ UNCHANGED <<job, seen, got>>
         ELSE Return(p) /\ UNCHANGED pine
    /\ UNCHANGED <<table, upload, collected, isPolling, rows, past>>

CancelWrite(p) ==
    /\ pc[p] = "cancelWrite"
    /\ Write(job[p], "CANCELLED")
    /\ Return(p)
    /\ UNCHANGED <<upload, ref, pine, collected, isPolling, rows, past>>

\* POST /api/pine-postback: the row by its PTRID, else by its number while
\* it is in progress; one found neither way is only logged.
Postback(p, t) ==
    /\ Arrives(p, "postback")
    /\ pine[t] \in {"approved", "declined"}
    /\ IF ref[t] = "good" \/ status[t] \in InProgress
         THEN /\ job' = [job EXCEPT ![p] = t]
              /\ got' = [got EXCEPT ![p] = Answer(t)]
              /\ Goto(p, "postback")
         ELSE Goto(p, "done") /\ UNCHANGED <<job, got>>
    /\ UNCHANGED <<table, upload, pine, collected, isPolling, seen, rows>>

\* Its UPDATE, with the PTRID; a payment is completed even when the row was
\* already PAID.
PostbackWrite(p) ==
    /\ pc[p] = "postback"
    /\ Write(job[p], got[p])
    /\ ref' = [ref EXCEPT ![job[p]] = "good"]
    /\ IF got[p] = "PAID"
         THEN Goto(p, "complete") /\ UNCHANGED <<job, seen, got>>
         ELSE Return(p)
    /\ UNCHANGED <<upload, pine, collected, isPolling, rows, past>>

\* A call to Pine fails: the request is answered with an error, the tick goes
\* on.  Pine may have cancelled all the same.
Unreachable(p) ==
    /\ Fault("unreachable")
    /\ pc[p] \in {"ask", "cancelAsk"}
    /\ \/ UNCHANGED pine
       \/ /\ pc[p] = "cancelAsk"
          /\ pine[job[p]] = "waiting"
          /\ pine' = [pine EXCEPT ![job[p]] = "cancelled"]
    /\ Return(p)
    /\ UNCHANGED <<table, upload, collected, isPolling, rows>>

\* Nobody looks at the error of an UPDATE: the row stays as it is and the run
\* goes on, to record the payment it has heard of.
Unwritten(p) ==
    /\ Fault("unwritten")
    /\ pc[p] \in {"write", "fail", "cancelWrite", "postback"}
    /\ IF pc[p] \in {"write", "postback"} /\ got[p] = "PAID"
         THEN Goto(p, "complete") /\ UNCHANGED <<job, seen, got>>
         ELSE Return(p)
    /\ UNCHANGED <<table, upload, pine, collected, isPolling, rows>>

\* Nor at that of the upload's: the row stays without a PTRID.
UploadUnwritten(t) ==
    /\ Fault("unwritten")
    /\ upload[t] = "sent"
    /\ upload' = [upload EXCEPT ![t] = "over"]
    /\ UNCHANGED <<table, pine, collected, isPolling, pc, local>>

\* handlePaymentCompletion throws or gives up before it records the payment:
\* no deposit row, say.  The row is PAID by then.
Unrecorded(p) ==
    /\ Fault("unrecorded")
    /\ pc[p] = "complete"
    /\ Return(p)
    /\ UNCHANGED <<table, upload, pine, collected, isPolling, rows>>

\* The process stops and starts: the rows stay, the runs are gone.
Restart ==
    /\ Fault("restart")
    /\ pc' = [p \in Proc |-> IF p \in Tick \/ pc[p] = "ready" THEN "ready"
                                                              ELSE "done"]
    /\ job' = [p \in Proc |-> None]
    /\ seen' = [p \in Proc |-> None]
    /\ got' = [p \in Proc |-> "none"]
    /\ rows' = [k \in Tick |-> [t \in Txn |-> None]]
    /\ upload' = [t \in Txn |-> IF upload[t] = "sent" THEN "over"
                                                      ELSE upload[t]]
    /\ isPolling' = FALSE
    /\ UNCHANGED <<table, pine, collected>>

UploadStep(t) ==
    \/ UploadReaches(t)
    \/ UploadAnswered(t)

PollStep(k) ==
    \/ Poll(k)
    \/ \E t \in Txn : PollRow(k, t)
    \/ PollEnd(k)

\* A run goes on by itself once the call it waits for is answered.
RunStep(p) ==
    \/ \E t \in Txn : Insert(p, t)
    \/ Ask(p)
    \/ Settle(p)
    \/ Complete(p)
    \/ Fail(p)
    \/ CancelAsk(p)
    \/ CancelWrite(p)
    \/ PostbackWrite(p)

RequestArrives(p) ==
    \/ \E d \in Draft : Push(p, d)
    \/ \E t \in Txn : Check(p, t) \/ Cancel(p, t) \/ Postback(p, t)

Failure ==
    \/ \E t \in Txn, r \in Ref : UploadRefused(t, r)
    \/ \E t \in Txn : UploadTimesOut(t) \/ UploadUnwritten(t)
    \/ \E p \in Proc : Unreachable(p) \/ Unwritten(p) \/ Unrecorded(p)
    \/ Restart

Next ==
    \/ \E t \in Txn : UploadStep(t)
    \/ \E t \in Txn, o \in Closed : Customer(t, o)
    \/ \E k \in Tick : PollStep(k)
    \/ \E p \in Proc : RunStep(p)
    \/ \E p \in Request : RequestArrives(p)
    \/ Failure

Spec == Init /\ [][Next]_vars

\* The interval fires again and again and every call is answered; nobody has
\* to push, cancel or pay, and no failure has to happen.
FairSpec ==
    /\ Spec
    /\ \A t \in Txn : WF_vars(UploadStep(t))
    /\ WF_vars(\E k \in Tick : PollStep(k))
    /\ \A p \in Proc : WF_vars(RunStep(p))

-----------------------------------------------------------------------------
(* Properties *)

\* Every variable has its type.
TypeOK ==
    /\ status \in [Txn -> Status]
    /\ ref \in [Txn -> Ref]
    /\ draftOf \in [Txn -> Draft \cup {None}]
    /\ upload \in [Txn -> {"none", "sent", "over"}]
    /\ pine \in [Txn -> Closed \cup {"unheard", "waiting", "refused"}]
    /\ collected \in [Txn -> Nat]
    /\ isPolling \in BOOLEAN
    /\ pc \in [Proc -> Step \cup {"postback"}]
    /\ job \in [Proc -> Txn \cup Draft \cup {None}]
    /\ seen \in [Proc -> RowRead \cup {None}]
    /\ got \in [Proc -> {"none", "PAID", "FAILED"}]
    /\ rows \in [Tick -> [Txn -> RowRead \cup {None}]]
    /\ failed \subseteq Faults
    /\ asked \subseteq Ops

\* No row is PAID, no payment recorded on the draft, unless Pine approved the
\* transaction: however answers, postbacks, cancellations and failures
\* interleave.
PaidIsReal ==
    \A t \in Txn : status[t] = "PAID" \/ collected[t] > 0
                     => pine[t] = "approved"

\* The rows are well typed and never claim a payment Pine did not take.
RowsSound == TypeOK /\ PaidIsReal

\* A card payment is recorded on its draft at most once.
CountedOnce == \A t \in Txn : collected[t] <= 1

\* ... as long as it is the poller alone that learns of it and every UPDATE is
\* made, however its ticks, the cancellations, the other failures and the
\* restarts fall.  A row whose UPDATE to PAID failed is recorded again.
PollerCountsOnce ==
    asked \subseteq {"push", "cancel"} /\ "unwritten" \notin failed => CountedOnce

\* A transaction that was cancelled because "Pine had not received it"
\* (pine/index.js:337) is never one the customer was charged for.
CancelledNotCharged ==
    \A t \in Txn : status[t] = "CANCELLED" => pine[t] # "approved"

\* A payment that went through is never marked FAILED afterwards, by any
\* answer that comes late.
PaidNeverFails ==
    [][\A t \in Txn : status[t] = "PAID" => status'[t] # "FAILED"]_vars

\* Every payment Pine approved is recorded on its draft in the end, unless its
\* upload got no answer, an UPDATE or the recording failed, the process
\* stopped or staff cancelled it.
ChargeIsRecorded ==
    \A t \in Txn :
        pine[t] = "approved" ~>
            \/ collected[t] > 0
            \/ failed \cap {"timeout", "unwritten", "unrecorded", "restart"} # {}
            \/ "cancel" \in asked
=============================================================================
