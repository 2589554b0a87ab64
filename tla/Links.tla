-------------------------------- MODULE Links --------------------------------
(***************************************************************************)
(* GoKwik payment links of one draft: the rows of payment_links, the       *)
(* requests that make and cancel links, and the webhook GoKwik calls when  *)
(* a link is paid, cancelled or expired.  The callback names the draft,    *)
(* not the link.  GoKwik and the customer are external.  Names that Repair *)
(* has too carry a prefix here: the proofs extend both modules.            *)
(***************************************************************************)
EXTENDS Naturals, Sequences, FiniteSets

CONSTANTS
    Link,      \* links GoKwik may make for the draft, each with its amount
    Staff,     \* requests of the staff, each served once
    Faults,    \* the failures a run allows
    MaxFaults, \* bound: failures, each of another kind
    NoLink     \* no link

Kind == {"success", "cancelled", "expired"}
Callback == Link \X Kind \X {1, 2} \* bound: a callback comes twice at most
Proc == Staff \cup Callback

ASSUME LinksAssumption ==
    /\ Staff \cap Callback = {}
    /\ NoLink \notin Link /\ IsFiniteSet(Link)
    /\ Faults \subseteq {"redelivered", "insertFails", "unwritten", "unrecorded",
                      "restart"}
    /\ MaxFaults \in Nat

VARIABLES
    gokwik,   \* what GoKwik has of a link; "made" until it is sent out
    status,   \* payment_links.status, "none" without a row
    made,     \* the rows, oldest first (created_at)
    posted,   \* callbacks GoKwik has made, each with its number
    recorded, \* times the amount of a row was recorded on the draft
    pc,       \* the call a request or a callback is about to make
    job,      \* the link it works on
    apart,    \* no link was made while anything of another was open, and no
              \* callback came again before the first was handled
    failed    \* the failures so far

past == <<apart, failed>>
linksVars == <<gokwik, status, made, posted, recorded, pc, job, apart, failed>>

LinksInit ==
    /\ gokwik = [l \in Link |-> "none"]
    /\ status = [l \in Link |-> "none"]
    /\ made = <<>>
    /\ posted = {}
    /\ recorded = [l \in Link |-> 0]
    /\ pc = [p \in Proc |-> "ready"]
    /\ job = [p \in Proc |-> NoLink]
    /\ apart = TRUE
    /\ failed = {}

-----------------------------------------------------------------------------
Created == {l \in Link : status[l] = "created"}

\* Faulty Newest: a link that was cancelled counts as well.
NewestAnyStatus(l) == made # <<>> /\ made[Len(made)] = l

\* .eq('status', 'created').order('created_at', desc).limit(1)
Newest(l) ==
    /\ l \in Created
    /\ \E i \in DOMAIN made :
         /\ made[i] = l
         /\ \A j \in (i + 1)..Len(made) : made[j] \notin Created

\* Nothing of an earlier link is open, at GoKwik or in a callback.
AllSettled ==
    /\ Created = {}
    /\ \A l \in Link : gokwik[l] \notin {"made", "open"}
    /\ \A c \in posted : pc[c] = "done"

Return(p) ==
    /\ pc' = [pc EXCEPT ![p] = "done"]
    /\ job' = [job EXCEPT ![p] = NoLink]

CallNext(p, step, l) ==
    /\ pc' = [pc EXCEPT ![p] = step]
    /\ job' = [job EXCEPT ![p] = l]

Fault(kind) ==
    /\ kind \in Faults \ failed
    /\ Cardinality(failed) < MaxFaults
    /\ failed' = failed \cup {kind}

-----------------------------------------------------------------------------
\* POST /api/generate-payment-link and the send-link tag: GoKwik makes the
\* link ...
Generate(p, l) ==
    /\ p \in Staff
    /\ pc[p] = "ready"
    /\ gokwik[l] = "none"
    /\ apart' = (apart /\ AllSettled)
    /\ gokwik' = [gokwik EXCEPT ![l] = "made"]
    /\ CallNext(p, "insert", l)
    /\ UNCHANGED <<status, made, posted, recorded, failed>>

\* ... its row is inserted, and the link is sent to the customer.
Insert(p) ==
    /\ pc[p] = "insert"
    /\ status' = [status EXCEPT ![job[p]] = "created"]
    /\ made' = Append(made, job[p])
    /\ gokwik' = [gokwik EXCEPT ![job[p]] = "open"]
    /\ Return(p)
    /\ UNCHANGED <<posted, recorded, past>>

\* Nobody looks at the error of the insert: the link goes out without a row.
InsertFails(p) ==
    /\ Fault("insertFails")
    /\ pc[p] = "insert"
    /\ gokwik' = [gokwik EXCEPT ![job[p]] = "open"]
    /\ Return(p)
    /\ UNCHANGED <<status, made, posted, recorded, apart>>

\* POST /api/cancel-payment-link, by the id of the link.
CancelLink(p, l) ==
    /\ p \in Staff
    /\ pc[p] = "ready"
    /\ status[l] # "none"
    /\ CallNext(p, "cancelAsk", l)
    /\ UNCHANGED <<gokwik, status, made, posted, recorded, past>>

\* Faulty CancelActive: the row is cancelled before GoKwik is asked.
CancelActiveFirst(p, l) ==
    /\ p \in Staff
    /\ pc[p] = "ready"
    /\ Newest(l)
    /\ status' = [status EXCEPT ![l] = "cancelled"]
    /\ CallNext(p, "cancelAsk", l)
    /\ UNCHANGED <<gokwik, made, posted, recorded, past>>

\* POST /api/cancel-active-link, by the draft.
CancelActive(p, l) ==
    /\ p \in Staff
    /\ pc[p] = "ready"
    /\ Newest(l)
    /\ CallNext(p, "cancelAsk", l)
    /\ UNCHANGED <<gokwik, status, made, posted, recorded, past>>

\* GoKwik cancels a link that is open; for any other its client throws and
\* the row is left alone.
CancelAsk(p) ==
    /\ pc[p] = "cancelAsk"
    /\ IF gokwik[job[p]] = "open"
         THEN /\ gokwik' = [gokwik EXCEPT ![job[p]] = "cancelled"]
              /\ posted' = posted \cup {<<job[p], "cancelled", 1>>}
              /\ CallNext(p, "cancelWrite", job[p])
         ELSE Return(p) /\ UNCHANGED <<gokwik, posted>>
    /\ UNCHANGED <<status, made, recorded, past>>

CancelWrite(p) ==
    /\ pc[p] = "cancelWrite"
    /\ status' = [status EXCEPT ![job[p]] = "cancelled"]
    /\ Return(p)
    /\ UNCHANGED <<gokwik, made, posted, recorded, past>>

\* The customer pays, or the seven days pass: external.
Close(l, kind) ==
    /\ gokwik[l] = "open"
    /\ kind \in {"success", "expired"}
    /\ gokwik' = [gokwik EXCEPT ![l] = IF kind = "success" THEN "paid"
                                                           ELSE kind]
    /\ posted' = posted \cup {<<l, kind, 1>>}
    /\ UNCHANGED <<status, made, recorded, pc, job, past>>

\* The webhook, status success: the newest open row of the draft is taken
\* for the link that was paid; without one the payment is only logged.
Success(c) ==
    /\ c \in posted
    /\ pc[c] = "ready"
    /\ c[2] = "success"
    /\ \/ \E l \in Link : Newest(l) /\ CallNext(c, "paid", l)
       \/ Created = {} /\ Return(c)
    /\ UNCHANGED <<gokwik, status, made, posted, recorded, past>>

\* The row is found by the id of the link and marked, whatever it holds.
MarkPaid(c) ==
    /\ pc[c] = "paid"
    /\ status' = [status EXCEPT ![job[c]] = "success"]
    /\ CallNext(c, "record", job[c])
    /\ UNCHANGED <<gokwik, made, posted, recorded, past>>

\* handlePaymentCompletion with the amount of the row.
Record(c) ==
    /\ pc[c] = "record"
    /\ recorded' = [recorded EXCEPT ![job[c]] = @ + 1]
    /\ Return(c)
    /\ UNCHANGED <<gokwik, status, made, posted, past>>

\* Faulty Closed: rows of any status are closed.
ClosedAnyRow(c) ==
    /\ c \in posted
    /\ pc[c] = "ready"
    /\ c[2] # "success"
    /\ status' = [l \in Link |-> IF status[l] # "none" THEN c[2] ELSE "none"]
    /\ Return(c)
    /\ UNCHANGED <<gokwik, made, posted, recorded, past>>

\* Status cancelled or expired: every open row of the draft is closed.
Closed(c) ==
    /\ c \in posted
    /\ pc[c] = "ready"
    /\ c[2] # "success"
    /\ status' = [l \in Link |-> IF l \in Created THEN c[2] ELSE status[l]]
    /\ Return(c)
    /\ UNCHANGED <<gokwik, made, posted, recorded, past>>

\* Nobody looks at the error of an UPDATE either: the row stays as it is, and
\* the payment is recorded all the same.
Unwritten(p) ==
    /\ Fault("unwritten")
    /\ \/ pc[p] = "paid" /\ CallNext(p, "record", job[p])
       \/ pc[p] = "cancelWrite" /\ Return(p)
       \/ p \in posted /\ pc[p] = "ready" /\ p[2] # "success" /\ Return(p)
    /\ UNCHANGED <<gokwik, status, made, posted, recorded, apart>>

\* The read of the row fails, or handlePaymentCompletion throws or gives up: the
\* webhook was answered before, so the payment is only logged.
Unrecorded(c) ==
    /\ Fault("unrecorded")
    /\ c \in posted
    /\ c[2] = "success"
    /\ pc[c] \in {"ready", "record"}
    /\ Return(c)
    /\ UNCHANGED <<gokwik, status, made, posted, recorded, apart>>

\* GoKwik calls the webhook again, be it while the first call is handled.
Redeliver(l, kind) ==
    /\ Fault("redelivered")
    /\ <<l, kind, 1>> \in posted
    /\ posted' = posted \cup {<<l, kind, 2>>}
    /\ apart' = (apart /\ pc[<<l, kind, 1>>] = "done")
    /\ UNCHANGED <<gokwik, status, made, recorded, pc, job>>

\* The process stops and starts.  A link that was never sent out stays with
\* GoKwik alone.
LinksRestart ==
    /\ Fault("restart")
    /\ pc' = [p \in Proc |-> IF pc[p] = "ready" THEN "ready" ELSE "done"]
    /\ job' = [p \in Proc |-> NoLink]
    /\ UNCHANGED <<gokwik, status, made, posted, recorded, apart>>

RunStep(p) ==
    \/ Insert(p)
    \/ CancelAsk(p)
    \/ CancelWrite(p)
    \/ MarkPaid(p)
    \/ Record(p)

Webhook(c) == Success(c) \/ Closed(c)

LinksNext ==
    \/ \E p \in Staff, l \in Link :
         Generate(p, l) \/ CancelLink(p, l) \/ CancelActive(p, l)
    \/ \E p \in Proc : RunStep(p) \/ Unwritten(p)
    \/ \E l \in Link, kind \in Kind : Close(l, kind) \/ Redeliver(l, kind)
    \/ \E c \in Callback : Webhook(c) \/ Unrecorded(c)
    \/ \E p \in Staff : InsertFails(p)
    \/ LinksRestart

LinksSpec == LinksInit /\ [][LinksNext]_linksVars

\* GoKwik delivers each callback and every call is answered.
LinksFairSpec ==
    /\ LinksSpec
    /\ \A p \in Proc : WF_linksVars(RunStep(p))
    /\ \A c \in Callback : WF_linksVars(Webhook(c))

-----------------------------------------------------------------------------
(* Properties *)

\* Every variable has its type.
LinksTypeOK ==
    /\ gokwik \in [Link -> {"none", "made", "open", "paid", "cancelled",
                            "expired"}]
    /\ status \in [Link -> {"none", "created"} \cup Kind]
    /\ made \in Seq(Link)
    /\ posted \subseteq Callback
    /\ recorded \in [Link -> Nat]
    /\ pc \in [Proc -> {"ready", "done", "insert", "cancelAsk",
                        "cancelWrite", "paid", "record"}]
    /\ job \in [Proc -> Link \cup {NoLink}]
    /\ apart \in BOOLEAN
    /\ failed \subseteq Faults

\* The amount recorded on the draft is that of a link the customer paid
\* ("The handler takes the amount from our own payment_links row, which is
\* correct", docs/gokwik-webhook.md:20).
RightAmount == \A l \in Link : recorded[l] > 0 => gokwik[l] = "paid"

\* Links that do not overlap; a callback that comes twice comes again after the
\* first was handled, marked its row, and was of the only link there is.
Made == {l \in Link : gokwik[l] # "none"}
NoOverlap ==
    /\ apart
    /\ "redelivered" \in failed =>
          "unwritten" \notin failed /\ Cardinality(Made) <= 1

\* The callback does not say which link was paid; without overlap the code is
\* right about it all the same, whatever is cancelled, not written, lost or
\* restarted, and records it once.  Two calls of one callback that both find
\* the row before either marks it record it twice: the model has that, and
\* NoOverlap excludes it.
RightAmountOnce ==
    NoOverlap => RightAmount /\ \A l \in Link : recorded[l] <= 1

\* The variables, and what was recorded, are sound.
RecordsSound == LinksTypeOK /\ RightAmountOnce

\* A row marked paid is never marked anything else, by a late callback or by
\* a cancellation that crossed the payment.
SuccessStays ==
    [][NoOverlap' =>
          \A l \in Link : status[l] = "success" => status'[l] = "success"]_linksVars

\* The amount of every link the customer paid is recorded on the draft, unless
\* the row was never inserted or read, handlePaymentCompletion failed or the
\* process stopped.
LinkPaidIsRecorded ==
    \A l \in Link :
        gokwik[l] = "paid" ~>
            \/ recorded[l] > 0
            \/ ~NoOverlap
            \/ failed \cap {"insertFails", "unrecorded", "restart"} # {}
=============================================================================
