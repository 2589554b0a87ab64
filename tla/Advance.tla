------------------------------- MODULE Advance -------------------------------
(***************************************************************************)
(* The CAD (design) advance: money taken up front on a draft, spent later  *)
(* on the same draft (path A), or on another sale that names the order the *)
(* advance became (path B), or given back, or lapsed after a year          *)
(* (src/modules/adjustments/cad_advance_handlers.js, cad_advance_sweep.js, *)
(* the ledger of credit_instruments.js, the conversion of src/server.js).  *)
(*                                                                         *)
(* The status of an advance is kept three times: on the draft, on the      *)
(* order the draft became, and in a ledger row, first under the draft's    *)
(* name and then under the order's.  The four draft handlers run in the    *)
(* update chain of their draft; a conversion, a deletion and the daily     *)
(* sweep run beside it.                                                    *)
(*                                                                         *)
(* Amounts are left out: an installment leg either carries an advance or   *)
(* not, a refund gives all of it back.  So are the labels of legs,         *)
(* redeemed_against, the sheet log, reminders and the monthly digest.      *)
(***************************************************************************)
EXTENDS Naturals, FiniteSets

CONSTANTS Doc,       \* draft orders
          Advance,   \* those an advance may be taken on
          None,
          MaxLegs,   \* bound: legs of one advance on one document
          Case       \* bound: what else may happen, and how many events

(* What goes beyond one request after another, each prompt and successful. *)
Trouble == {"abandon",     \* a draft that absorbed an advance is deleted
            "again",       \* webhooks of a conversion are delivered twice
            "late",        \* webhooks come after other requests
            "hasty",       \* a draft is completed before the chain saw it
            "bought",      \* a piece is sold on the draft of a refunded advance
            "orderRefund", \* the advance is refunded on the order
            "stuck",       \* the sweep cannot convert a stale draft
            "reject",      \* Shopify rejects a value of the write that absorbs
            "fault",       \* a call fails or the process restarts
            "overlap"}     \* requests run at the same time

ASSUME AdvanceAssumption ==
    /\ Advance \subseteq Doc /\ None \notin Doc
    /\ MaxLegs \in Nat \ {0}
    /\ \A c \in Case : c.trouble \subseteq Trouble /\ c.events \in Nat

VARIABLES case,    \* the case of Case this behaviour is about
          doc,     \* [Doc -> the draft, and the order it became, in Shopify]
          row,     \* credit_instruments: [Advance -> [name -> row]]
          run,     \* [Slot -> the request under way there]
          hooks,   \* webhooks not yet handled
          events   \* events left

vars == <<case, doc, row, run, hooks, events>>

Hook == "hook"
Sweep == "sweep"
Slot == Doc \cup {Hook, Sweep}     \* a draft's own slot is its update chain
Idle == [pc |-> "idle"]
Busy(s) == run[s].pc # "idle"
Quiet == \A s \in Slot : ~Busy(s)
Allowed(t) == t \in case.trouble
Happens == events > 0 /\ events' = events - 1

Status == {"none", "open", "applied", "redeemed", "expired", "refunded"}
RowStatus == Status \cup {"deleted"}
Name == {"draft", "order"}         \* cadLedgerKey: the document's own name
NoLegs == [a \in Advance |-> 0]
NoRow == [status |-> "none", target |-> None, issued |-> FALSE]

Goto(s, pc) == run' = [run EXCEPT ![s].pc = pc]
Done(s) == run' = [run EXCEPT ![s] = Idle]

(* A request starts while another runs only if requests may overlap, and   *)
(* webhooks are heard of before anything else unless they may be late.     *)
CanStart(s) ==
    /\ ~Busy(s)
    /\ Allowed("overlap") \/ Quiet
    /\ s = Hook \/ Allowed("late") \/ hooks = {}

(* Staff leave documents alone while a request runs.                       *)
Untouched == Allowed("overlap") \/ Quiet

(* A write to a draft makes Shopify deliver again: the chain runs once     *)
(* more on the draft as it is then.  (Here a write of metafields alone is  *)
(* delivered too; Repair has it that none is.)  A write to a deleted draft *)
(* is lost.                                                                *)
Written(d, r) ==
    IF doc[d].state = "gone" THEN doc
    ELSE [doc EXCEPT ![d] = [r EXCEPT !.dirty = doc[d].state = "draft"]]
Write(d, r) == doc' = Written(d, r)

OnOrder(a, status) == doc' = [doc EXCEPT ![a].order = status]

(***************************************************************************)
(* credit_instruments.js.                                                  *)
(***************************************************************************)
UpsertIssued(a) ==
    row' = IF row[a]["draft"].status # "none" THEN row
           ELSE [row EXCEPT ![a]["draft"] = [status |-> "open", target |-> None, issued |-> TRUE]]

(* apply and redeem ask nothing of the row, and make one that is missing.  *)
Apply(a, name, d) == row' = [row EXCEPT ![a][name].status = "applied", ![a][name].target = d]

RedeemKnown(a, name, d) ==
    row' = IF row[a][name].status = "none" THEN row
           ELSE [row EXCEPT ![a][name].status = "redeemed", ![a][name].target = d]

Redeem(a, name, d) == row' = [row EXCEPT ![a][name].status = "redeemed", ![a][name].target = d]

Live == {"open", "applied"}

CloseInstrument(a, name, status) ==
    row' = IF row[a][name].status \in Live THEN [row EXCEPT ![a][name].status = status] ELSE row

(* A replayed conversion finds the order's name taken and moves nothing.   *)
\* Faulty Rekey: the row stays under the draft's name.
RekeyNot(a) == UNCHANGED row

Rekey(a) ==
    row' = IF row[a]["order"].status # "none" \/ row[a]["draft"].status = "none" THEN row
           ELSE [row EXCEPT ![a] = [order |-> row[a]["draft"], draft |-> NoRow]]

RevertApplied(d) ==
    row' = [a \in Advance |-> [n \in Name |->
              IF row[a][n].status = "applied" /\ row[a][n].target = d
              THEN [row[a][n] EXCEPT !.status = "open", !.target = None]
              ELSE row[a][n]]]

Init ==
    /\ case \in Case /\ events = case.events
    /\ doc = [d \in Doc |->
                [state |-> "draft", line |-> FALSE, piece |-> d \notin Advance, paid |-> FALSE,
                 refunded |-> FALSE, status |-> "none", order |-> "none", ref |-> None,
                 tag |-> {}, legs |-> NoLegs, age |-> "new", dirty |-> FALSE]]
    /\ row = [a \in Advance |-> [n \in Name |-> NoRow]]
    /\ run = [s \in Slot |-> Idle]
    /\ hooks = {}

(***************************************************************************)
(* Staff, customers and the calendar.                                      *)
(***************************************************************************)
Keep == UNCHANGED <<case, row, run, hooks>>

(* The CAD Advance line is put on the draft and its payment recorded.      *)
Take(a) ==
    /\ Happens /\ Untouched
    /\ doc[a].state = "draft" /\ ~doc[a].paid
    /\ Write(a, [doc[a] EXCEPT !.line = TRUE, !.paid = TRUE])
    /\ Keep

(* Path A: the customer buys on the draft of the advance.                  *)
AddPiece(a) ==
    /\ Happens /\ Untouched
    /\ doc[a].state = "draft" /\ doc[a].paid /\ ~doc[a].piece
    /\ Write(a, [doc[a] EXCEPT !.piece = TRUE])
    /\ Keep

(* Path B: staff type the advance's order into intake.advance_ref.         *)
Refer(d, a) ==
    /\ Happens /\ Untouched
    /\ d # a
    /\ doc[d].state = "draft" /\ doc[d].piece /\ doc[d].ref = None /\ doc[a].paid
    /\ Write(d, [doc[d] EXCEPT !.ref = a])
    /\ Keep

(* The whole advance is given back: amount_refunded.                       *)
PayBack(a) ==
    /\ Happens /\ Untouched
    /\ doc[a].paid /\ ~doc[a].refunded /\ doc[a].status \in Live
    /\ \/ doc[a].state = "draft"
       \/ doc[a].state = "order" /\ Allowed("orderRefund")
    /\ Write(a, [doc[a] EXCEPT !.refunded = TRUE])
    /\ Keep

Completed(d) == [doc EXCEPT ![d].state = "order", ![d].dirty = FALSE]
ToldCompleted(d) ==
    hooks \cup {[kind |-> "completed", d |-> d, tag |-> doc[d].tag, piece |-> doc[d].piece]}

Complete(d) ==
    /\ Happens /\ Untouched
    /\ doc[d].state = "draft" /\ (doc[d].piece \/ doc[d].line)
    /\ ~doc[d].dirty \/ Allowed("hasty")
    /\ doc[d].refunded /\ doc[d].piece => Allowed("bought")
    /\ doc' = Completed(d) /\ hooks' = ToldCompleted(d)
    /\ UNCHANGED <<case, row, run>>

Delete(d) ==
    /\ Happens /\ Untouched
    /\ doc[d].state = "draft"
    /\ doc[d].legs = NoLegs \/ Allowed("abandon")
    /\ doc' = [doc EXCEPT ![d].state = "gone", ![d].dirty = FALSE]
    /\ hooks' = hooks \cup {[kind |-> "deleted", d |-> d]}
    /\ UNCHANGED <<case, row, run>>

Stale(a) == doc[a].age # "new" /\ row[a]["draft"].status = "open" /\ row[a]["draft"].issued
Convertible(a) == Stale(a) /\ doc[a].state = "draft" /\ doc[a].line /\ ~doc[a].piece

(* 60 days pass, and then the rest of the year: the daily sweep has        *)
(* converted a stale draft long before, unless it cannot.                  *)
GrowOld(a) ==
    /\ Happens
    /\ Quiet /\ hooks = {} /\ \A d \in Doc : ~doc[d].dirty
    /\ doc[a].status # "none"
    /\ CASE doc[a].age = "new" -> doc' = [doc EXCEPT ![a].age = "stale"]
         [] doc[a].age = "stale" -> /\ Convertible(a) => Allowed("stuck")
                                    /\ doc' = [doc EXCEPT ![a].age = "over"]
         [] OTHER -> FALSE
    /\ Keep

(* A restart loses every request; the webhooks were acknowledged.          *)
Restart ==
    /\ Allowed("fault") /\ Happens
    /\ ~Quiet
    /\ run' = [s \in Slot |-> Idle]
    /\ UNCHANGED <<case, doc, row, hooks>>

(***************************************************************************)
(* The update chain of a draft (runDraftUpdateHandlers): capture, line     *)
(* removal, redeem, refund, each isolated, on the payload the pass started *)
(* with.  What a pass writes brings the next one.                          *)
(***************************************************************************)
Handling == UNCHANGED <<case, hooks, events>>

Pass(d) ==
    /\ CanStart(d)
    /\ doc[d].state = "draft" /\ doc[d].dirty
    /\ run' = [run EXCEPT ![d] =
                 [pc |-> "capture", d |-> d, line |-> doc[d].line, piece |-> doc[d].piece,
                  tag |-> doc[d].tag, src |-> None, read |-> 0]]
    /\ doc' = [doc EXCEPT ![d].dirty = FALSE]
    /\ UNCHANGED row /\ Handling

(* The third pass of a chain is the last: what came while it ran is        *)
(* forgotten.  The passes are not counted, so any may be the third.  While *)
(* requests do not overlap, only what the pass wrote itself comes then,    *)
(* and leaves nothing to do, unless values are rejected in all three.      *)
Forget(d) ==
    /\ Allowed("overlap")
    /\ Busy(d) /\ doc[d].dirty
    /\ doc' = [doc EXCEPT ![d].dirty = FALSE]
    /\ UNCHANGED <<row, run>> /\ Handling

(* handleAdvanceCapture: money has landed for the line.                    *)
Captures(d, r) == doc[d].state # "gone" /\ r.line /\ doc[d].status = "none" /\ doc[d].paid

Capture(s) ==
    /\ run[s].pc = "capture"
    /\ LET d == run[s].d IN
       IF Captures(d, run[s])
       THEN Write(d, [doc[d] EXCEPT !.status = "open"]) /\ Goto(s, "issue")
       ELSE UNCHANGED doc /\ Goto(s, "line")
    /\ UNCHANGED row /\ Handling

Issue(s) ==
    /\ run[s].pc = "issue"
    /\ UpsertIssued(run[s].d)
    /\ Goto(s, "line")
    /\ UNCHANGED doc /\ Handling

(* handleAdvanceLineRemoval: the piece is the bill, the advance a payment. *)
(* The lines of a draft that is no draft any more cannot be set.           *)
RemoveLine(s) ==
    /\ run[s].pc = "line"
    /\ LET d == run[s].d IN
       IF run[s].line /\ run[s].piece /\ doc[d].status # "none" /\ doc[d].state = "draft"
       THEN Write(d, [doc[d] EXCEPT !.line = FALSE]) /\ Goto(s, "commit")
       ELSE UNCHANGED doc /\ Goto(s, "redeem")
    /\ UNCHANGED row /\ Handling

Commit(s) ==
    /\ run[s].pc = "commit"
    /\ Write(run[s].d, [doc[run[s].d] EXCEPT !.status = "applied"])
    /\ Goto(s, "commitRow")
    /\ UNCHANGED row /\ Handling

CommitRow(s) ==
    /\ run[s].pc = "commitRow"
    /\ Apply(run[s].d, "draft", run[s].d)
    /\ Goto(s, "redeem")
    /\ UNCHANGED doc /\ Handling

(* handleAdvanceRedeem: what the draft has absorbed is marked by its       *)
(* adv-num tag; otherwise its legs are read, and the order is looked up.   *)
ReadRef(s) ==
    /\ run[s].pc = "redeem"
    /\ LET a == doc[run[s].d].ref IN
       CASE a = None \/ doc[run[s].d].state = "gone" -> Goto(s, "refund")
         [] a # None /\ doc[run[s].d].state # "gone" /\ run[s].tag # {} -> Goto(s, "clear")
         [] OTHER -> run' = [run EXCEPT ![s].pc = "gate", ![s].src = a, ![s].read = doc[run[s].d].legs[a]]
    /\ UNCHANGED <<doc, row>> /\ Handling

(* The gate: an order, whose advance is open and not a year old.           *)
\* Faulty Gate: only what was spent is refused.
GateUnspent(s) ==
    /\ run[s].pc = "gate"
    /\ LET a == doc[run[s].src] IN
       Goto(s, IF a.state = "order" /\ a.order \notin {"none", "redeemed"} THEN "absorb" ELSE "clear")
    /\ UNCHANGED <<doc, row>> /\ Handling

Gate(s) ==
    /\ run[s].pc = "gate"
    /\ LET a == doc[run[s].src] IN
       Goto(s, IF a.state = "order" /\ a.order = "open" /\ a.age # "over" THEN "absorb" ELSE "clear")
    /\ UNCHANGED <<doc, row>> /\ Handling

(* One leg in the next slot that was free when the legs were read, and     *)
(* amount_paid after it; a value Shopify rejects ends the write before it  *)
(* or between the two.  The amount is read back.                           *)
Least(m, n) == IF m < n THEN m ELSE n
Leg(s) == [doc[run[s].d] EXCEPT !.legs[run[s].src] = Least(run[s].read + 1, MaxLegs)]

Absorb(s) ==
    /\ run[s].pc = "absorb"
    /\ UNCHANGED <<case, row, hooks>>
    /\ \/ Write(run[s].d, Leg(s)) /\ Goto(s, "reserve") /\ UNCHANGED events
       \/ /\ Allowed("reject") /\ Happens
          /\ Write(run[s].d, Leg(s)) \/ UNCHANGED doc
          /\ Goto(s, "unconfirmed")

Unconfirmed(s) ==
    /\ run[s].pc = "unconfirmed"
    /\ Write(run[s].d, doc[run[s].d])
    /\ Goto(s, "refund")
    /\ UNCHANGED row /\ Handling

(* The order's advance is reserved for this sale.                          *)
\* Faulty Reserve: the order is left open until the sale.
ReserveNot(s) ==
    /\ run[s].pc = "reserve"
    /\ Goto(s, "tag")
    /\ UNCHANGED <<doc, row>> /\ Handling

Reserve(s) ==
    /\ run[s].pc = "reserve"
    /\ OnOrder(run[s].src, "applied")
    /\ Goto(s, "tag")
    /\ UNCHANGED row /\ Handling

Tag(s) ==
    /\ run[s].pc = "tag"
    /\ IF doc[run[s].d].state = "draft"
       THEN Write(run[s].d, [doc[run[s].d] EXCEPT !.tag = run[s].tag \cup {run[s].src}])
       ELSE UNCHANGED doc
    /\ Goto(s, "reserveRow")
    /\ UNCHANGED row /\ Handling

ReserveRow(s) ==
    /\ run[s].pc = "reserveRow"
    /\ Apply(run[s].src, "order", run[s].d)
    /\ Goto(s, "clear")
    /\ UNCHANGED doc /\ Handling

Clear(s) ==
    /\ run[s].pc = "clear"
    /\ Write(run[s].d, [doc[run[s].d] EXCEPT !.ref = None])
    /\ Goto(s, "refund")
    /\ UNCHANGED row /\ Handling

Refunds(d) == doc[d].state # "gone" /\ doc[d].status \in Live /\ doc[d].refunded

Refund(s) ==
    /\ run[s].pc = "refund"
    /\ LET d == run[s].d IN
       IF Refunds(d)
       THEN Write(d, [doc[d] EXCEPT !.status = "refunded"]) /\ Goto(s, "close")
       ELSE UNCHANGED doc /\ Done(s)
    /\ UNCHANGED row /\ Handling

Close(s) ==
    /\ run[s].pc = "close"
    /\ CloseInstrument(run[s].d, "draft", "refunded")
    /\ Done(s)
    /\ UNCHANGED doc /\ Handling

(***************************************************************************)
(* The webhooks.                                                           *)
(***************************************************************************)
(* A conversion is handled once, or once more.                             *)
HandleCompleted(h) ==
    /\ h.kind = "completed"
    /\ CanStart(Hook)
    /\ \/ hooks' = hooks \ {h} /\ UNCHANGED events
       \/ Allowed("again") /\ Happens /\ UNCHANGED hooks
    /\ run' = [run EXCEPT ![Hook] =
                 [pc |-> "copy", d |-> h.d, tag |-> h.tag, piece |-> h.piece, own |-> "none"]]
    /\ UNCHANGED <<case, doc, row>>

AfterCopy(s) == Goto(s, IF run[s].tag = {} THEN "own" ELSE "spend")

(* copyDraftMetafieldsToOrder: whatever the order says by now.             *)
Copy(s) ==
    /\ run[s].pc = "copy"
    /\ LET d == doc[run[s].d] IN
       IF d.status = "none" THEN UNCHANGED doc ELSE OnOrder(run[s].d, d.status)
    /\ AfterCopy(s)
    /\ UNCHANGED row /\ Handling

(* handleAdvanceConversion, path B: the order named by the adv-num tag.    *)
Spend(s) ==
    /\ run[s].pc = "spend"
    /\ \E a \in run[s].tag : OnOrder(a, "redeemed")
    /\ Goto(s, "spendRow")
    /\ UNCHANGED row /\ Handling

SpendRow(s) ==
    /\ run[s].pc = "spendRow"
    /\ \E a \in run[s].tag : RedeemKnown(a, "order", run[s].d)
    /\ Goto(s, "own")
    /\ UNCHANGED doc /\ Handling

(* Its own advance: the row takes the order's name; it is spent if a piece *)
(* was sold beside it, and runs on if the advance stands alone.            *)
ReadOwn(s) ==
    /\ run[s].pc = "own"
    /\ LET own == doc[run[s].d].order IN
       IF own = "none" THEN Done(s)
       ELSE run' = [run EXCEPT ![s].pc = "rekey", ![s].own = own]
    /\ UNCHANGED <<doc, row>> /\ Handling

AfterRekey(s) ==
    IF run[s].own \in {"redeemed", "expired"} \/ ~run[s].piece THEN Done(s) ELSE Goto(s, "settle")

RekeyRow(s) ==
    /\ run[s].pc = "rekey"
    /\ Rekey(run[s].d)
    /\ AfterRekey(s)
    /\ UNCHANGED doc /\ Handling

Settle(s) ==
    /\ run[s].pc = "settle"
    /\ OnOrder(run[s].d, "redeemed")
    /\ Goto(s, "settleRow")
    /\ UNCHANGED row /\ Handling

SettleRow(s) ==
    /\ run[s].pc = "settleRow"
    /\ Redeem(run[s].d, "order", run[s].d)
    /\ Done(s)
    /\ UNCHANGED doc /\ Handling

(* A deleted draft: its own advance is closed, found by the draft's id,    *)
(* and what was applied to it is open again.  The two run side by side.    *)
HandleDeleted(h) ==
    /\ h.kind = "deleted"
    /\ CanStart(Hook)
    /\ hooks' = hooks \ {h}
    /\ run' = [run EXCEPT ![Hook] = [pc |-> "deleted", d |-> h.d, todo |-> {"close", "revert"}]]
    /\ UNCHANGED <<case, doc, row, events>>

Tidied(s, what) ==
    IF run[s].todo = {what} THEN Done(s) ELSE run' = [run EXCEPT ![s].todo = @ \ {what}]

CloseDeleted(s) ==
    /\ run[s].pc = "deleted" /\ "close" \in run[s].todo
    /\ IF run[s].d \in Advance /\ row[run[s].d]["draft"].issued
       THEN CloseInstrument(run[s].d, "draft", "deleted")
       ELSE UNCHANGED row
    /\ Tidied(s, "close")
    /\ UNCHANGED doc /\ Handling

Revert(s) ==
    /\ run[s].pc = "deleted" /\ "revert" \in run[s].todo
    /\ RevertApplied(run[s].d)
    /\ Tidied(s, "revert")
    /\ UNCHANGED doc /\ Handling

(***************************************************************************)
(* The daily sweep: stale drafts are converted, what is a year old expires.*)
(***************************************************************************)
(* The row says stale, the draft is read before anything is done.          *)
SweepStale(a) ==
    /\ CanStart(Sweep)
    /\ Convertible(a)
    /\ ~doc[a].dirty \/ Allowed("hasty")
    /\ run' = [run EXCEPT ![Sweep] = [pc |-> "convert", d |-> a]]
    /\ UNCHANGED <<doc, row>> /\ Handling

Convert(s) ==
    /\ run[s].pc = "convert"
    /\ LET d == run[s].d IN
       \/ doc[d].state = "draft" /\ doc' = Completed(d) /\ hooks' = ToldCompleted(d) /\ UNCHANGED events
       \/ doc[d].state # "draft" /\ UNCHANGED <<doc, hooks, events>>
       \/ Allowed("stuck") /\ Happens /\ UNCHANGED <<doc, hooks>>
    /\ Done(s)
    /\ UNCHANGED <<case, row>>

Overdue(a, n) == doc[a].age = "over" /\ row[a][n].status = "open" /\ row[a][n].issued

SweepOverdue(a, n) ==
    /\ CanStart(Sweep)
    /\ Overdue(a, n)
    /\ row' = [row EXCEPT ![a][n].status = "expired"]
    /\ run' = [run EXCEPT ![Sweep] =
                 IF n = "order" THEN [pc |-> "stamp", d |-> a] ELSE Idle]
    /\ UNCHANGED doc /\ Handling

\* Faulty Stamp: the ledger alone is told.
StampNot(s) ==
    /\ run[s].pc = "stamp"
    /\ Done(s)
    /\ UNCHANGED <<doc, row>> /\ Handling

Stamp(s) ==
    /\ run[s].pc = "stamp"
    /\ OnOrder(run[s].d, "expired")
    /\ Done(s)
    /\ UNCHANGED row /\ Handling

(***************************************************************************)
(* A call fails: what its catch does.  A metafield writer never throws, so *)
(* its handler goes on to the register; a failed ledger call is logged;    *)
(* any other failure, a read before the write too, ends its handler.       *)
(***************************************************************************)
AfterFailure ==
    [capture |-> "line", issue |-> "line", line |-> "redeem", commit |-> "commitRow",
     commitRow |-> "redeem", redeem |-> "refund", gate |-> "refund", reserve |-> "tag",
     tag |-> "reserveRow", reserveRow |-> "clear", clear |-> "refund", unconfirmed |-> "refund",
     spend |-> "spendRow", spendRow |-> "own", settle |-> "settleRow"]

NotWritten(s) ==
    \/ run[s].pc = "capture" /\ Captures(run[s].d, run[s]) /\ Goto(s, "issue")
    \/ run[s].pc = "refund" /\ Refunds(run[s].d) /\ Goto(s, "close")

Ends(s) ==
    CASE run[s].pc = "copy" -> AfterCopy(s) \/ Done(s)
      [] run[s].pc = "rekey" -> AfterRekey(s)
      [] run[s].pc \in DOMAIN AfterFailure -> Goto(s, AfterFailure[run[s].pc])
      [] OTHER -> Done(s)

Fails(s) ==
    /\ Allowed("fault") /\ Happens
    /\ Busy(s) /\ run[s].pc \notin {"absorb", "deleted"}
    /\ NotWritten(s) \/ Ends(s)
    /\ UNCHANGED <<case, doc, row, hooks>>

Step(s) ==
    \/ Capture(s) \/ Issue(s)
    \/ RemoveLine(s) \/ Commit(s) \/ CommitRow(s)
    \/ ReadRef(s) \/ Gate(s) \/ Absorb(s) \/ Unconfirmed(s)
    \/ Reserve(s) \/ Tag(s) \/ ReserveRow(s) \/ Clear(s)
    \/ Refund(s) \/ Close(s)
    \/ Copy(s) \/ Spend(s) \/ SpendRow(s) \/ ReadOwn(s) \/ RekeyRow(s) \/ Settle(s) \/ SettleRow(s)
    \/ CloseDeleted(s) \/ Revert(s)
    \/ Convert(s) \/ Stamp(s)

Next ==
    \/ \E a \in Advance : Take(a) \/ AddPiece(a) \/ PayBack(a) \/ GrowOld(a)
    \/ \E d \in Doc, a \in Advance : Refer(d, a)
    \/ \E d \in Doc : Complete(d) \/ Delete(d) \/ Pass(d) \/ Forget(d)
    \/ \E s \in Slot : Step(s) \/ Fails(s)
    \/ \E h \in hooks : HandleCompleted(h) \/ HandleDeleted(h)
    \/ \E a \in Advance : SweepStale(a)
    \/ \E a \in Advance, n \in Name : SweepOverdue(a, n)
    \/ Restart

Spec == Init /\ [][Next]_vars

(* The process runs what it has started, Shopify delivers, and the sweep   *)
(* comes every day.                                                        *)
FairSpec ==
    /\ Spec
    /\ WF_vars(\E s \in Slot : Step(s))
    /\ WF_vars(\E d \in Doc : Pass(d))
    /\ WF_vars(\E h \in hooks : HandleCompleted(h) \/ HandleDeleted(h))
    /\ WF_vars(\E a \in Advance : SweepStale(a) \/ \E n \in Name : SweepOverdue(a, n))

(***************************************************************************)
(* Properties.                                                             *)
(***************************************************************************)
Only(troubles) == case.trouble \subseteq troubles

(* Everything that was asked for has been handled, and the sweep came.     *)
AtRest ==
    /\ Quiet /\ hooks = {}
    /\ \A d \in Doc : ~doc[d].dirty
    /\ \A a \in Advance : ~Convertible(a) /\ \A n \in Name : ~Overdue(a, n)

(* Type invariant: documents, rows, requests and webhooks are what the     *)
(* code reads and writes.                                                  *)
TypeOK ==
    /\ doc \in [Doc -> [state : {"draft", "order", "gone"}, line : BOOLEAN, piece : BOOLEAN,
                        paid : BOOLEAN, refunded : BOOLEAN, status : Status, order : Status,
                        ref : Advance \cup {None}, tag : SUBSET Advance,
                        legs : [Advance -> 0..MaxLegs], age : {"new", "stale", "over"},
                        dirty : BOOLEAN]]
    /\ row \in [Advance -> [Name -> [status : RowStatus, target : Doc \cup {None}, issued : BOOLEAN]]]
    /\ \A s \in Slot : Busy(s) => run[s].d \in Doc
    /\ \A h \in hooks : h.kind \in {"completed", "deleted"} /\ h.d \in Doc

(* An advance settles one bill: its legs on documents that exist, and the  *)
(* piece sold on its own, are one at most ("it blocks the advance being    *)
(* spent on a second draft while this one is being built",                 *)
(* cad_advance_handlers.js).                                               *)
Legs(a) ==
    {l \in Doc \X (1..MaxLegs) : doc[l[1]].state # "gone" /\ l[2] <= doc[l[1]].legs[a]}
SoldBeside(a) == doc[a].piece /\ doc[a].status # "none" /\ doc[a].state # "gone"
Uses(a) == Cardinality(Legs(a)) + (IF SoldBeside(a) THEN 1 ELSE 0)
SettlesOnce ==
    Only(Trouble \ {"again", "reject", "fault", "overlap"}) =>
        \A a \in Advance : Uses(a) <= 1

(* At rest the register and the document tell the same story of an advance *)
(* that was paid: the row is under the name the document has, and nowhere  *)
(* else, with its status.                                                  *)
StatusOf(a) == IF doc[a].state = "order" THEN doc[a].order ELSE doc[a].status
RegisterAgrees ==
    Only({"late", "reject"}) /\ AtRest =>
        \A a \in Advance : doc[a].paid =>
            CASE doc[a].state = "gone" -> row[a]["draft"].status \notin Live
              [] OTHER -> /\ row[a][doc[a].state].status = StatusOf(a)
                          /\ StatusOf(a) # "none"
                          /\ \A n \in Name \ {doc[a].state} : row[a][n] = NoRow

(* At rest what is reserved is on a draft, what is spent is on an order,   *)
(* and what an order carries is spent.                                     *)
CarriedBy(a, state) ==
    \/ \E d \in Doc : doc[d].state = state /\ doc[d].legs[a] > 0
    \/ doc[a].state = state /\ doc[a].piece /\ doc[a].status # "none"
SpentIsCarried ==
    Only({"late", "stuck"}) /\ AtRest =>
        \A a \in Advance :
            /\ StatusOf(a) = "applied" => CarriedBy(a, "draft") \/ doc[a].state = "gone"
            /\ StatusOf(a) = "redeemed" <=> CarriedBy(a, "order")

(* At rest an advance that was given back is closed, and on no bill        *)
(* ("left open it would ... earn a reminder at 11 months telling the       *)
(* customer to come and spend money they have already had back").          *)
MoneyBackIsClosed ==
    Only({"late", "abandon", "stuck", "reject"}) /\ AtRest =>
        \A a \in Advance : doc[a].refunded /\ doc[a].state # "gone" =>
            StatusOf(a) = "refunded" /\ \A d \in Doc : doc[d].legs[a] = 0

(* At rest every account of an advance agrees: its document, the register, *)
(* the bills it is on and the money that was given back.                   *)
AccountsAgree == TypeOK /\ RegisterAgrees /\ SpentIsCarried /\ MoneyBackIsClosed

(* The register's last words are last: a row that was redeemed, expired or *)
(* closed is not rewritten by a webhook that comes later or twice.  (When  *)
(* a conversion is delivered twice its order says open again, and a second *)
(* bill can absorb what was spent: then the row follows the second.)       *)
Bills(a) == {d \in Doc : doc[d].legs[a] > 0}
FinalStays ==
    [][Only({"again", "late", "abandon", "reject"}) =>
         \A a \in Advance :
            /\ row[a]["order"].status \in {"redeemed", "expired", "deleted", "refunded"}
            /\ Allowed("again") => \A d, e \in Bills(a) : d = e
            => row'[a]["order"].status = row[a]["order"].status]_vars

(* A reference staff typed in is acted on and goes, whether the advance    *)
(* was absorbed or refused.  Not so if it is typed during the third pass   *)
(* of a chain, or while Shopify rejects what every pass writes; and the    *)
(* writing of the reference itself is taken to be delivered.               *)
RefEnds ==
    Only(Trouble \ {"fault", "overlap", "reject"}) =>
        \A d \in Doc : (doc[d].state = "draft" /\ doc[d].ref # None)
                            ~> (doc[d].state # "draft" \/ doc[d].ref = None)

(* An advance nobody used in its year stops being open, on the document    *)
(* the gate reads.                                                         *)
Lapses ==
    Only({"late", "abandon", "reject"}) =>
        \A a \in Advance : (doc[a].state = "order" /\ doc[a].age = "over" /\ doc[a].order = "open")
                                ~> doc[a].order # "open"

(* What is asked for is dealt with and what nobody used lapses.            *)
AdvanceEnds == RefEnds /\ Lapses
=============================================================================
