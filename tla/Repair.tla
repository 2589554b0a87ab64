------------------------------- MODULE Repair -------------------------------
(***************************************************************************)
(* One repair draft, from intake to collection and refund                  *)
(* (src/modules/after-sales and its callers in src/server.js).             *)
(*                                                                         *)
(* What a repair has been through is written in the tags of its draft:     *)
(* some ask for a step, some say that it was done.  A pass of the update   *)
(* chain reads the draft, does the first step that is due, mails, and puts *)
(* back the tags it read with one added.  Forms, links and the gateway's   *)
(* notification read the draft and put back its tags in the same way, and  *)
(* every such write is delivered as a webhook that asks for another pass.  *)
(*                                                                         *)
(* The specs on the draft's line (what is copied of item and pictures, and *)
(* the mirror of the weights, which puts back the whole line once more)    *)
(* are one bit; mails to the store, tracking and the dates are left out,   *)
(* and so are the steps of the chain that do not concern repairs.  The     *)
(* passes of one draft never overlap: processingDrafts lets them in.       *)
(***************************************************************************)
EXTENDS Integers, FiniteSets, FiniteSetsExt

CONSTANTS Amount,    \* what an estimate may come to
          None,
          MaxDue,    \* bound: webhooks of the draft not yet delivered
          Case       \* bound: the piece, what else may happen, how many events

(* What goes beyond one request after another, each prompt and successful. *)
Trouble == {"revise",   \* an estimate or a completion is entered again
            "waived",   \* a repair is made free after it was quoted
            "balance",  \* the balance link is paid
            "late",     \* the estimate is paid, or heard of, after other requests
            "again",    \* the gateway notifies twice
            "fault",    \* a call fails or the process restarts
            "overlap"}  \* requests run at the same time

ASSUME RepairAssumption ==
    /\ Amount \subseteq Nat \ {0} /\ None \notin Nat
    /\ MaxDue \in Nat \ {0}
    /\ \A c \in Case : /\ c.outside \in BOOLEAN /\ c.known \in BOOLEAN
                       /\ c.price \in Amount
                       /\ c.trouble \subseteq Trouble
                       /\ c.events \in Nat
                       /\ c.loose \in Nat       \* the events that may overlap

VARIABLES case,      \* the case of Case this behaviour is about
          draft,     \* [tags, price, item: the specs are on the line]
          known,     \* custom.repair_order_reference names an order
          fields,    \* the metafields of namespace timanti: [paid, final]
          due,       \* webhooks of the draft under way
          chain,     \* the pass of the update chain
          req,       \* [Slot -> the request under way there]
          links,     \* payment links made
          calls,     \* payments the gateway has not yet told of
          told,      \* what the customer was mailed
          money,     \* what the customer paid, was refunded, and how often
          serials,   \* service numbers minted: "TS", "FS"
          wanted,    \* the price staff set last
          events     \* events left

vars == <<case, draft, known, fields, due, chain, req, links, calls, told, money,
          serials, wanted, events>>
ghosts == <<told, money, wanted>>

Class == {"intake", "free"}     \* repair-intake; free-repair or repair-free
Hold == {"missing-inspection", "missing-order-ref"}
Tag == Class \cup Hold \cup
       {"outside", "resync", "hq-notified", "free-notified", "store-approved",
        "store-hq-notified", "estimate-ready", "estimate-sent", "paid", "complete",
        "completion-notified", "refund-requested"}
Slot == {"a", "b"}
Idle == [pc |-> "idle"]

Busy(s) == req[s].pc # "idle"
Running == chain.pc # "idle"
Settled == ~Running /\ due = 0 /\ \A s \in Slot : ~Busy(s)
Quiet == Settled /\ calls = {}
Allowed(t) == t \in case.trouble
Happens == events > 0 /\ events' = events - 1

(* Staff and customers act on what they see, once all has been handled.    *)
Prompt ==
    \/ Quiet
    \/ Allowed("late") /\ Settled
    \/ Allowed("overlap") /\ events <= case.loose

(* The first free slot; the second one is for requests that overlap.       *)
CanStart(s) == ~Busy(s) /\ (s = "a" \/ Busy("a"))

Init == \E k \in Case :
    /\ case = k /\ events = k.events
    /\ draft = [tags |-> {}, price |-> k.price, item |-> FALSE]
    /\ known = k.known
    /\ fields = [paid |-> 0, final |-> None]
    /\ due = 0 /\ chain = Idle /\ req = [s \in Slot |-> Idle]
    /\ links = {} /\ calls = {}
    /\ told = [received |-> 0, free |-> 0, approved |-> 0, ready |-> 0,
               quote |-> None, ask |-> None]
    /\ money = [got |-> 0, back |-> 0, vouchers |-> 0]
    /\ serials = {} /\ wanted = None

(***************************************************************************)
(* The writers of the draft.  Each write is delivered later.               *)
(***************************************************************************)
Told(n) == due' = Min({due + n, MaxDue})

\* updateDraftOrderTags: the whole list of tags.
PutTags(tags) == draft' = [draft EXCEPT !.tags = tags] /\ Told(1)

\* mergeLineItemProps: the whole line, its price included.
PutLine(price, item) == draft' = [draft EXCEPT !.price = price, !.item = item] /\ Told(1)

NewLink(kind, amount) ==
    links' = links \cup {[n |-> Cardinality(links) + 1, kind |-> kind, amount |-> amount, paid |-> FALSE]}

\* Faulty Completion: a final cost of nothing is taken for a blank one.
CompletionTruthy(paid, final, price, free) ==
    LET cost == IF final \notin {None, 0} THEN final ELSE IF paid > 0 THEN paid ELSE price
        owed == cost - paid
    IN IF free \/ (paid = 0 /\ cost = 0) THEN [mode |-> "free", amount |-> 0]
       ELSE IF paid = 0 THEN [mode |-> "collect", amount |-> cost]
       ELSE IF owed < 0 THEN [mode |-> "refund", amount |-> -owed]
       ELSE IF owed > 0 THEN [mode |-> "balance", amount |-> owed]
       ELSE [mode |-> "settled", amount |-> 0]

(* resolveRepairCompletion: what the ready mail says is owed, and by whom. *)
Completion(paid, final, price, free) ==
    LET cost == IF final # None THEN final ELSE IF paid > 0 THEN paid ELSE price
        owed == cost - paid
    IN IF free \/ (paid = 0 /\ cost = 0) THEN [mode |-> "free", amount |-> 0]
       ELSE IF paid = 0 THEN [mode |-> "collect", amount |-> cost]
       ELSE IF owed < 0 THEN [mode |-> "refund", amount |-> -owed]
       ELSE IF owed > 0 THEN [mode |-> "balance", amount |-> owed]
       ELSE [mode |-> "settled", amount |-> 0]

(***************************************************************************)
(* The update chain: webhooks, passes, and the next step of a pass.        *)
(***************************************************************************)
Pass(n) == [pc |-> "fetch", pass |-> n, pending |-> FALSE, tags |-> draft.tags,
            price |-> draft.price, item |-> draft.item, ask |-> None]

Goto(pc) == chain' = [chain EXCEPT !.pc = pc]

(* A webhook that finds a pass running asks for one more.                  *)
Deliver ==
    /\ due > 0 /\ due' = due - 1
    /\ chain' = IF Running THEN [chain EXCEPT !.pending = TRUE] ELSE Pass(1)
    /\ UNCHANGED <<case, draft, known, fields, req, links, calls, serials, ghosts, events>>

\* Faulty EndPass: what came during the pass is discarded.
EndPassDropping ==
    /\ chain.pc = "end"
    /\ chain' = Idle
    /\ UNCHANGED <<case, draft, known, fields, due, req, links, calls, serials, ghosts, events>>

(* Three passes at most; what came during the third is dropped.            *)
EndPass ==
    /\ chain.pc = "end"
    /\ chain' = IF chain.pending /\ chain.pass < 3 THEN Pass(chain.pass + 1) ELSE Idle
    /\ UNCHANGED <<case, draft, known, fields, due, req, links, calls, serials, ghosts, events>>

(* The step that is due on these tags, the first of the list.              *)
Trigger(tags) ==
    IF "intake" \in tags /\ "hq-notified" \notin tags THEN "gate"
    ELSE IF "free" \in tags /\ "free-notified" \notin tags THEN "mailFree"
    ELSE IF "store-approved" \in tags /\ "store-hq-notified" \notin tags THEN "mailApproved"
    ELSE IF "estimate-ready" \in tags /\ "estimate-sent" \notin tags THEN "link"
    ELSE IF "complete" \in tags /\ "completion-notified" \notin tags THEN "fields"
    ELSE "end"

(* What a pass does next once the draft is in order.                       *)
Onward(tags) == IF "resync" \in tags THEN "resync" ELSE Trigger(tags)

(* reconcileRepairDraft, on what was read: the specs if they are missing,  *)
(* the price of a free repair; then the draft is read again.               *)
ToZero(c, written) ==
    IF "free" \in c.tags /\ c.price > 0 THEN "zero"
    ELSE IF written THEN "reread" ELSE Onward(c.tags)

Fetch ==
    /\ chain.pc = "fetch"
    /\ LET c == Pass(chain.pass) IN
       chain' = [c EXCEPT !.pending = chain.pending,
                          !.pc = IF c.tags = {} THEN "end"
                                 ELSE IF ~c.item /\ "outside" \notin c.tags THEN "copy"
                                 ELSE ToZero(c, FALSE)]
    /\ UNCHANGED <<case, draft, known, fields, due, req, links, calls, serials, ghosts, events>>

\* fetchAndCopyOriginalOrderSpecs: with the price the pass has read.
CopySpecs == IF known THEN PutLine(chain.price, TRUE) ELSE UNCHANGED <<draft, due>>

Copy ==
    /\ chain.pc = "copy"
    /\ CopySpecs
    /\ chain' = [chain EXCEPT !.pc = ToZero(chain, known), !.item = known]
    /\ UNCHANGED <<case, known, fields, req, links, calls, serials, ghosts, events>>

Zero ==
    /\ chain.pc = "zero"
    /\ PutLine(0, chain.item)
    /\ Goto("reread")
    /\ UNCHANGED <<case, known, fields, req, links, calls, serials, ghosts, events>>

(* The line is read again; the tags are those of the first read.           *)
Reread ==
    /\ chain.pc = "reread"
    /\ chain' = [chain EXCEPT !.pc = Onward(chain.tags), !.price = draft.price, !.item = draft.item]
    /\ UNCHANGED <<case, draft, known, fields, due, req, links, calls, serials, ghosts, events>>

(* The panel's tag: the pieces were changed, copy them again.              *)
Resync ==
    /\ chain.pc = "resync"
    /\ IF "outside" \in chain.tags THEN UNCHANGED <<draft, due>> ELSE CopySpecs
    /\ Goto("resynced")
    /\ UNCHANGED <<case, known, fields, req, links, calls, serials, ghosts, events>>

Resynced ==
    /\ chain.pc = "resynced"
    /\ PutTags(chain.tags \ {"resync"})
    /\ chain' = [chain EXCEPT !.pc = "reread", !.tags = @ \ {"resync"}]
    /\ UNCHANGED <<case, known, fields, req, links, calls, serials, ghosts, events>>

(***************************************************************************)
(* The steps of a repair.                                                  *)
(***************************************************************************)
(* Intake: held once if the inspection or the order reference is missing.  *)
HoldFor(tag) ==
    /\ IF tag \in chain.tags THEN UNCHANGED <<draft, due>> ELSE PutTags(chain.tags \cup {tag})
    /\ Goto("end")

Gate ==
    /\ chain.pc = "gate"
    /\ LET outside == "outside" \in chain.tags
           next == IF "missing-order-ref" \in chain.tags THEN "unhold" ELSE "mailReceived"
       IN \/ outside /\ ~chain.item /\ HoldFor("missing-inspection")
          \/ outside /\ chain.item /\ Goto(next) /\ UNCHANGED <<draft, due>>
          \/ ~outside /\ ~known /\ HoldFor("missing-order-ref")
          \/ ~outside /\ known /\ CopySpecs /\ Goto(next)
    /\ UNCHANGED <<case, known, fields, req, links, calls, serials, ghosts, events>>

Unhold ==
    /\ chain.pc = "unhold"
    /\ PutTags(chain.tags \ {"missing-order-ref"})
    /\ chain' = [chain EXCEPT !.pc = "mailReceived", !.tags = @ \ {"missing-order-ref"}]
    /\ UNCHANGED <<case, known, fields, req, links, calls, serials, ghosts, events>>

(* The mails of a step, and the tag that says they were sent.              *)
Mails(step, next, mailed) ==
    /\ chain.pc = step
    /\ told' = mailed
    /\ Goto(next)
    /\ UNCHANGED <<case, draft, known, fields, due, req, links, calls, money, serials, wanted, events>>

Marks(step, tag, next) ==
    /\ chain.pc = step
    /\ PutTags(chain.tags \cup {tag})
    /\ Goto(next)
    /\ UNCHANGED <<case, known, fields, req, links, calls, serials, ghosts, events>>

Received ==
    \/ Mails("mailReceived", "markReceived", [told EXCEPT !.received = @ + 1])
    \/ Marks("markReceived", "hq-notified", "end")

(* A free repair is copied once more after its mails.                      *)
Recopy ==
    /\ chain.pc = "recopy"
    /\ IF "outside" \in chain.tags THEN UNCHANGED <<draft, due>> ELSE CopySpecs
    /\ Goto("end")
    /\ UNCHANGED <<case, known, fields, req, links, calls, serials, ghosts, events>>

MadeFree ==
    \/ Mails("mailFree", "markFree", [told EXCEPT !.free = @ + 1])
    \/ Marks("markFree", "free-notified", "recopy")
    \/ Recopy

Approved ==
    \/ Mails("mailApproved", "markApproved", [told EXCEPT !.approved = @ + 1])
    \/ Marks("markApproved", "store-hq-notified", "end")

(* The estimate: a link for the price that was read, and its mail.         *)
MakeLink ==
    /\ chain.pc = "link"
    /\ NewLink("estimate", chain.price)
    /\ Goto("mailQuote")
    /\ UNCHANGED <<case, draft, known, fields, due, req, calls, serials, ghosts, events>>

Quoted ==
    \/ MakeLink
    \/ Mails("mailQuote", "markQuoted", [told EXCEPT !.quote = chain.price])
    \/ Marks("markQuoted", "estimate-sent", "end")

(* The completion: what was paid and what it cost, then the ready mail.    *)
Reckon(paid, final) ==
    LET ask == Completion(paid, final, chain.price, "free" \in chain.tags) IN
    chain' = [chain EXCEPT !.ask = ask, !.pc = IF ask.mode = "balance" THEN "balance" ELSE "mailReady"]

ReadFields ==
    /\ chain.pc = "fields"
    /\ Reckon(fields.paid, fields.final)
    /\ UNCHANGED <<case, draft, known, fields, due, req, links, calls, serials, ghosts, events>>

MakeBalanceLink ==
    /\ chain.pc = "balance"
    /\ NewLink("balance", chain.ask.amount)
    /\ Goto("mailReady")
    /\ UNCHANGED <<case, draft, known, fields, due, req, calls, serials, ghosts, events>>

(* assignRepairSerial: paid and free repairs have counters of their own,   *)
(* and a draft one number of each at most.                                 *)
MintService ==
    /\ chain.pc = "serial"
    /\ serials' = serials \cup {IF "free" \in chain.tags THEN "FS" ELSE "TS"}
    /\ Goto("end")
    /\ UNCHANGED <<case, draft, known, fields, due, req, links, calls, ghosts, events>>

\* Faulty Ready: the step is not marked as done.
ReadyUnmarked ==
    \/ ReadFields \/ MakeBalanceLink
    \/ Mails("mailReady", "serial",
             [told EXCEPT !.ready = @ + 1,
                          !.ask = [mode |-> chain.ask.mode, amount |-> chain.ask.amount, got |-> money.got]])
    \/ MintService

Ready ==
    \/ ReadFields \/ MakeBalanceLink
    \/ Mails("mailReady", "markReady",
             [told EXCEPT !.ready = @ + 1,
                          !.ask = [mode |-> chain.ask.mode, amount |-> chain.ask.amount, got |-> money.got]])
    \/ Marks("markReady", "completion-notified", "serial")
    \/ MintService

PassStep ==
    \/ EndPass \/ Fetch \/ Copy \/ Zero \/ Reread \/ Resync \/ Resynced \/ Gate \/ Unhold
    \/ Received \/ MadeFree \/ Approved \/ Quoted \/ Ready

(***************************************************************************)
(* Staff in the admin: tags and the reference of the original order.  A    *)
(* piece bought elsewhere should come by its form, but can be tagged.      *)
(***************************************************************************)
StaffTag(tag) ==
    /\ Happens /\ Prompt
    /\ tag \notin draft.tags
    /\ CASE tag = "outside" -> case.outside /\ draft.tags = {}
         [] tag = "intake" -> /\ ~case.outside \/ "outside" \in draft.tags
                              /\ draft.tags \cap Class = {}
         [] tag = "free"   -> /\ ~case.outside \/ "outside" \in draft.tags
                              /\ told.quote = None \/ Allowed("waived")
                              /\ "complete" \notin draft.tags \/ Allowed("revise")
         [] tag = "resync" -> draft.tags # {}
    /\ PutTags(draft.tags \cup {tag})
    /\ UNCHANGED <<case, known, fields, chain, req, links, calls, serials, ghosts>>

(* The reference is filled in and the draft saved, as the mail of the hold *)
(* asks: the metafield alone fires no webhook.                             *)
FillReference ==
    /\ Happens /\ Prompt
    /\ ~known /\ known' = TRUE
    /\ Told(1)
    /\ UNCHANGED <<case, draft, fields, chain, req, links, calls, serials, ghosts>>

(***************************************************************************)
(* Requests: each reads the draft first and writes tags of that read.      *)
(***************************************************************************)
Start(s, job, amount, extra) ==
    /\ CanStart(s)
    /\ req' = [req EXCEPT ![s] = [pc |-> "read", job |-> job, amount |-> amount, extra |-> extra,
                                  tags |-> {}, price |-> 0, item |-> FALSE]]
    /\ UNCHANGED <<case, draft, known, fields, due, chain, links, serials, ghosts>>

Post(s, job, amount, extra) ==
    /\ Happens /\ Prompt
    /\ Start(s, job, amount, extra)
    /\ UNCHANGED calls

(* The forms and links come by mail; a mail is kept, so that each can be   *)
(* used again.  An amount of 0 is the box that makes the repair free.      *)
PostEstimate(s, amount) ==
    /\ told.received > 0
    /\ wanted = None \/ Allowed("revise") \/ (amount = 0 /\ Allowed("waived"))
    /\ "free" \notin draft.tags \/ amount = 0
    /\ Post(s, "estimate", amount, FALSE)

PostComplete(s, final, specs) ==
    /\ draft.tags \cap {"paid", "free-notified", "store-hq-notified"} # {}
    /\ "complete" \notin draft.tags \/ Allowed("revise") \/ Allowed("overlap")
    /\ "free" \in draft.tags => final \in {0, None}
    /\ Post(s, "complete", final, specs)

PostApprove(s) ==
    /\ told.quote # None
    /\ Post(s, "approve", 0, FALSE)

ClickRefund(s) ==
    /\ told.ask # None /\ told.ask.mode = "refund"
    /\ Post(s, "refund", 0, FALSE)

(* The outside piece's form: the inspection, and the class if none is set. *)
PostOutside(s, class) ==
    /\ case.outside
    /\ ~draft.item \/ Allowed("revise")
    /\ Post(s, class, 0, FALSE)

(* The customer pays a link, and the gateway tells of it once or twice.    *)
PayLink(l) ==
    /\ Happens /\ Prompt
    /\ ~l.paid /\ l.amount > 0
    /\ l.kind = "balance" => Allowed("balance")
    /\ l.kind = "estimate" /\ "complete" \in draft.tags => Allowed("late")
    /\ links' = (links \ {l}) \cup {[l EXCEPT !.paid = TRUE]}
    /\ calls' = calls \cup {l.n}
    /\ money' = [money EXCEPT !.got = @ + l.amount]
    /\ UNCHANGED <<case, draft, known, fields, due, chain, req, told, serials, wanted>>

Notified(s, n) ==
    /\ Settled \/ Allowed("overlap")
    /\ n \in calls
    /\ \/ calls' = calls \ {n} /\ UNCHANGED events
       \/ Allowed("again") /\ Happens /\ UNCHANGED calls
    /\ Start(s, "pay", 0, FALSE)

Proceed(s, pc) == req' = [req EXCEPT ![s].pc = pc]
Done(s) == req' = [req EXCEPT ![s] = Idle]

(* What a request does after its read.  A payment of a draft that awaits   *)
(* none is looked up among the payment links, where repairs have no row.   *)
AfterRead(r) ==
    CASE r.job = "complete" -> "final"
      [] r.job = "approve" /\ "store-approved" \in draft.tags -> "idle"
      [] r.job = "refund" -> IF "refund-requested" \in draft.tags THEN "idle" ELSE "delta"
      [] r.job = "pay" /\ draft.tags \cap {"estimate-ready", "estimate-sent"} = {} -> "idle"
      [] r.job \in Class /\ "outside" \notin draft.tags
             /\ draft.tags \cap {"hq-notified", "free-notified"} # {} -> "idle"
      [] OTHER -> "put"

Read(s) ==
    /\ req[s].pc = "read"
    /\ LET pc == AfterRead(req[s]) IN
       IF pc = "idle" THEN Done(s)
       ELSE req' = [req EXCEPT ![s].pc = pc, ![s].tags = draft.tags,
                               ![s].price = draft.price, ![s].item = draft.item]
    /\ UNCHANGED <<case, draft, known, fields, due, chain, links, calls, serials, ghosts, events>>

(* The final cost is a metafield, and the specs after the repair a line,   *)
(* written before the tag.                                                 *)
WriteFinal(s) ==
    /\ req[s].pc = "final"
    /\ fields' = IF req[s].amount = None THEN fields ELSE [fields EXCEPT !.final = req[s].amount]
    /\ Proceed(s, IF req[s].extra THEN "specs" ELSE "put")
    /\ UNCHANGED <<case, draft, known, due, chain, links, calls, serials, ghosts, events>>

WriteSpecs(s) ==
    /\ req[s].pc = "specs"
    /\ PutLine(req[s].price, req[s].item)
    /\ Proceed(s, "put")
    /\ UNCHANGED <<case, known, fields, chain, links, calls, serials, ghosts, events>>

(* What the refund comes to, and the voucher asked of the sheet.           *)
ReadDelta(s) ==
    /\ req[s].pc = "delta"
    /\ LET delta == fields.paid - (IF fields.final = None THEN 0 ELSE fields.final) IN
       IF delta > 0 THEN req' = [req EXCEPT ![s].pc = "voucher", ![s].amount = delta]
       ELSE Done(s)
    /\ UNCHANGED <<case, draft, known, fields, due, chain, links, calls, serials, ghosts, events>>

IssueVoucher(s) ==
    /\ req[s].pc = "voucher"
    /\ money' = [money EXCEPT !.back = @ + req[s].amount, !.vouchers = @ + 1]
    /\ Proceed(s, "put")
    /\ UNCHANGED <<case, draft, known, fields, due, chain, links, calls, told, serials, wanted, events>>

(* The tags each request leaves.                                           *)
NewTags(r) ==
    CASE r.job = "estimate" -> r.tags \cup {IF r.amount = 0 THEN "free" ELSE "estimate-ready"}
      [] r.job = "complete" -> r.tags \cup {"complete"}
      [] r.job = "approve"  -> r.tags \cup {"store-approved"}
      [] r.job = "refund"   -> r.tags \cup {"refund-requested"}
      [] r.job = "pay"      -> (r.tags \ {"estimate-ready", "estimate-sent"}) \cup {"paid"}
      [] r.job \in Class    -> (r.tags \ {"missing-inspection"}) \cup {"outside"}
                                  \cup (IF r.tags \cap Class = {} THEN {r.job} ELSE {})

Put(s) ==
    /\ req[s].pc = "put"
    /\ LET r == req[s]
           priced == r.job = "estimate"
       IN /\ draft' = [tags |-> NewTags(r),
                       price |-> IF priced THEN r.amount ELSE IF r.job \in Class THEN r.price ELSE draft.price,
                       item |-> IF priced THEN r.item ELSE draft.item \/ r.job \in Class]
          /\ wanted' = IF priced THEN r.amount ELSE wanted
          /\ IF r.job = "pay" THEN Proceed(s, "paid") ELSE Done(s)
    /\ Told(1)
    /\ UNCHANGED <<case, known, fields, chain, links, calls, told, money, serials, events>>

(* handleRepairPayment: what was paid is the price of the draft it read.   *)
WritePaid(s) ==
    /\ req[s].pc = "paid"
    /\ fields' = [fields EXCEPT !.paid = req[s].price]
    /\ Done(s)
    /\ UNCHANGED <<case, draft, known, due, chain, links, calls, serials, ghosts, events>>

ReqStep(s) ==
    Read(s) \/ WriteFinal(s) \/ WriteSpecs(s) \/ ReadDelta(s) \/ IssueVoucher(s)
    \/ Put(s) \/ WritePaid(s)

(***************************************************************************)
(* Failures.                                                               *)
(***************************************************************************)
(* A call of the pass fails: the copies and the mails of intake, free and  *)
(* approval go on, an unread completion counts as nothing paid and nothing *)
(* entered, the rest ends the pass (a second read that fails, the chain).  *)
PassFails ==
    /\ Allowed("fault") /\ Happens /\ Running
    /\ CASE chain.pc = "fetch" ->
              \/ chain.pass > 1 /\ chain' = Idle
              \/ chain' = [chain EXCEPT !.pc =
                     IF chain.tags = {} THEN "end"
                     ELSE IF ~chain.item /\ "outside" \notin chain.tags THEN "copy"
                     ELSE ToZero(chain, FALSE)]
         [] chain.pc = "copy" -> Goto(ToZero(chain, FALSE))
         [] chain.pc \in {"zero", "reread"} -> Goto(Onward(chain.tags))
         [] chain.pc = "resync" -> Goto("resynced")
         [] chain.pc = "mailReceived" -> Goto("markReceived")
         [] chain.pc = "mailFree" -> Goto("markFree")
         [] chain.pc = "mailApproved" -> Goto("markApproved")
         [] chain.pc = "fields" -> Reckon(0, None)
         [] chain.pc = "balance" -> Goto("mailReady")
         [] OTHER -> chain.pc \notin {"gate", "end"} /\ Goto("end")
    /\ UNCHANGED <<case, draft, known, fields, due, req, links, calls, serials, ghosts>>

(* The gate's copy fails: the intake is held as if the order were unknown. *)
GateFails ==
    /\ Allowed("fault") /\ Happens
    /\ chain.pc = "gate" /\ "outside" \notin chain.tags
    /\ HoldFor("missing-order-ref")
    /\ UNCHANGED <<case, known, fields, req, links, calls, serials, ghosts>>

(* A call of a request fails; the voucher may have been issued all the     *)
(* same, for the sheet is slow to answer.                                  *)
ReqFails(s) ==
    /\ Allowed("fault") /\ Happens /\ Busy(s)
    /\ IF req[s].pc = "specs" THEN Proceed(s, "put") ELSE Done(s)
    /\ \/ UNCHANGED money
       \/ /\ req[s].pc = "voucher"
          /\ money' = [money EXCEPT !.back = @ + req[s].amount, !.vouchers = @ + 1]
    /\ UNCHANGED <<case, draft, known, fields, due, chain, links, calls, told, serials, wanted>>

Restart ==
    /\ Allowed("fault") /\ Happens
    /\ Running \/ \E s \in Slot : Busy(s)
    /\ chain' = Idle /\ req' = [s \in Slot |-> Idle]
    /\ UNCHANGED <<case, draft, known, fields, due, links, calls, serials, ghosts>>

Next ==
    \/ Deliver \/ PassStep
    \/ \E tag \in Class \cup {"outside", "resync"} : StaffTag(tag)
    \/ FillReference
    \/ \E s \in Slot :
          \/ \E a \in Amount \cup {0} : PostEstimate(s, a)
          \/ \E f \in Amount \cup {0, None}, specs \in BOOLEAN : PostComplete(s, f, specs)
          \/ PostApprove(s) \/ ClickRefund(s)
          \/ \E class \in Class : PostOutside(s, class)
          \/ \E n \in calls : Notified(s, n)
          \/ ReqStep(s) \/ ReqFails(s)
    \/ \E l \in links : PayLink(l)
    \/ PassFails \/ GateFails \/ Restart

Spec == Init /\ [][Next]_vars

(* The process runs what it has started, Shopify and the gateway deliver.  *)
FairSpec ==
    /\ Spec
    /\ WF_vars(PassStep)
    /\ WF_vars(Deliver)
    /\ WF_vars(\E s \in Slot : ReqStep(s))
    /\ WF_vars(\E s \in Slot, n \in calls : Notified(s, n))

(***************************************************************************)
(* Properties.                                                             *)
(***************************************************************************)
Only(troubles) == case.trouble \subseteq troubles

(* Type invariant: the draft, the pass and the requests are what the code  *)
(* reads and writes.                                                       *)
Money == {0} \cup Amount
AskMode == {"free", "collect", "refund", "balance", "settled"}
TypeOK ==
    /\ draft.tags \subseteq Tag /\ draft.price \in Money /\ draft.item \in BOOLEAN
    /\ fields.paid \in Money /\ fields.final \in Money \cup {None}
    /\ due \in 0..MaxDue
    /\ Running => /\ chain.tags \subseteq Tag /\ chain.price \in Money
                  /\ chain.pass \in 1..3 /\ chain.pending \in BOOLEAN
                  /\ chain.pc \in {"balance", "mailReady", "markReady"} => chain.ask.mode \in AskMode
    /\ \A s \in Slot : Busy(s) => req[s].tags \subseteq Tag /\ req[s].price \in Money
    /\ \A l \in links : l.amount >= 0 /\ l.paid \in BOOLEAN
    /\ serials \subseteq {"TS", "FS"}

(* The customer is told of each step once, and a repair has one service    *)
(* number, however often the draft is saved ("the *-notified dedupe tags   *)
(* are what make re-entry safe", after-sales/index.js).                    *)
ToldOnce ==
    Only(Trouble \ {"fault", "overlap"}) =>
        /\ told.received <= 1 /\ told.free <= 1 /\ told.approved <= 1 /\ told.ready <= 1
        /\ Cardinality(serials) <= 1

(* The price staff set is the price on the draft once the passes are over, *)
(* however many writes put back a line they read before; a free repair     *)
(* costs nothing.                                                          *)
PriceStands ==
    Only(Trouble \ {"fault", "overlap"}) /\ Quiet /\ draft.tags # {} =>
        draft.price = IF "free" \in draft.tags THEN 0 ELSE IF wanted = None THEN case.price ELSE wanted

(* What awaits payment is what the customer was quoted.                    *)
QuoteStands ==
    Only(Trouble \ {"revise", "waived", "fault", "overlap"}) /\ Quiet /\ "estimate-sent" \in draft.tags =>
        told.quote = draft.price

(* What the customer was told and asked at each stage is told once and is   *)
(* what the draft says.                                                    *)
RepairSound == TypeOK /\ ToldOnce /\ PriceStands /\ QuoteStands

(* What the customer paid is what the draft says was paid.                 *)
PaidIsRecorded ==
    Only({"late", "again"}) /\ Quiet => fields.paid = money.got

(* The ready mail asks for, or offers back, the difference between what    *)
(* the repair cost and what the customer had paid by then.                 *)
ReadyIsFair ==
    Only({"balance", "again"}) /\ told.ask # None =>
        LET paid == told.ask.got
            cost == IF "free" \in draft.tags THEN 0
                    ELSE IF fields.final # None THEN fields.final
                    ELSE IF paid > 0 THEN paid ELSE draft.price
        IN told.ask.amount = IF cost > paid THEN cost - paid ELSE paid - cost

(* It never says more was paid than was, not even for calls that fail.     *)
NothingInvented ==
    Only(Trouble \ {"revise", "overlap"}) /\ Quiet => fields.paid <= money.got

(* A refund is given once, and what is given back was paid too much.       *)
RefundOnce == Only(Trouble \ {"fault", "overlap"}) => money.vouchers <= 1
RefundIsFair ==
    Only(Trouble \ {"revise", "fault", "overlap"}) /\ money.vouchers > 0 =>
        money.back <= money.got - fields.final

(* Money taken for a repair is recorded, asked for once and, when there was *)
(* too much of it, given back once.                                        *)
MoneyAgrees == PaidIsRecorded /\ NothingInvented /\ ReadyIsFair /\ RefundOnce /\ RefundIsFair

(* Every step that is asked for is taken, or the intake is held.           *)
StepDue == Onward(draft.tags) # "end"
Held == draft.tags \cap Hold # {} /\ Onward(draft.tags) = "gate"
StepsEnd == Only(Trouble \ {"fault", "overlap"}) => (StepDue ~> (~StepDue \/ Held))

(* An estimate reaches the customer, unless it is replaced.                *)
QuoteArrives(a) == wanted = a ~> (told.quote = a \/ wanted # a)
FirstQuoteArrives ==
    Only(Trouble \ {"revise", "waived", "fault", "overlap"}) => \A a \in Amount : QuoteArrives(a)

(* Every step of a repair that began ends, and a set estimate is mailed.   *)
RepairEnds == StepsEnd /\ FirstQuoteArrives

(* What the page of the form says, whatever was sent before: "The customer *)
(* will receive their estimate email and payment link ... shortly".        *)
EstimateIsMailed == \A a \in Amount : QuoteArrives(a)
=============================================================================
