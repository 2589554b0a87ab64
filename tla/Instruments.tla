---------------------------- MODULE Instruments ----------------------------
(***************************************************************************)
(* Credit instruments: vouchers and exchange notes, from their issue to    *)
(* the document that deducts them (src/modules/adjustments/credit_         *)
(* instruments.js and the handlers of src/server.js around it).            *)
(*                                                                         *)
(* An instrument lives in three places that no transaction spans: the      *)
(* ledger row in Supabase, the metafields and the tags of a Shopify draft, *)
(* and, for a voucher, the Shopify price rule that makes its code work in  *)
(* the online shop.  Requests run against them one await at a time: the    *)
(* update chain of a draft (panel buttons are tags), the Apps Script calls *)
(* (redeem, free, void) and the webhooks that tell of a conversion, of a   *)
(* deletion and of an online order.                                        *)
(*                                                                         *)
(* The two kinds of instrument use separate metafields, tags and rows, so  *)
(* an instance is about one of them.  A voucher's expiry, money and the    *)
(* net to collect are left out; the code metafield stands for code and     *)
(* value, which are written and deleted together.                          *)
(***************************************************************************)
EXTENDS Naturals, Sequences, FiniteSets, FiniteSetsExt

CONSTANTS Code,      \* instruments
          Draft,     \* draft orders
          Order,     \* orders placed in the online shop
          None,
          Case       \* bound: the kind, what else may happen, and how many events

(* What goes beyond one request after another, each prompt and successful. *)
Trouble == {"swap",      \* a code is put on a draft that holds another one
            "both",      \* a removal and an application asked in one edit
            "late",      \* the webhook of a sale comes after other requests
            "online",    \* a code on a draft is used in the online shop
            "again",     \* webhooks of sales and deletions are delivered twice
            "stale",     \* an edit of a draft is delivered late, or once more
            "converted", \* the script names a draft that is an order already
            "fault",     \* a call fails or the process restarts
            "overlap"}   \* requests run at the same time

ASSUME InstrumentsAssumption ==
    /\ None \notin Code \cup Draft \cup Order
    /\ Draft \cap Order = {}
    /\ \A c \in Case : /\ c.kind \in {"voucher", "exchange_note"}
                       /\ c.trouble \subseteq Trouble
                       /\ c.events \in Nat

VARIABLES case,      \* the case of Case this behaviour is about
          ledger,    \* credit_instruments: [Code -> row]
          doc,       \* [Draft -> the draft in Shopify]
          rule,      \* codes that work in the online shop
          run,       \* [Slot -> the request under way there]
          hooks,     \* webhooks not yet handled
          deducted,  \* [Code -> the documents whose customer was given its value]
          wanted,    \* [Draft -> the code staff last asked for]
          events     \* events left

vars == <<case, ledger, doc, rule, run, hooks, deducted, wanted, events>>

Status == {"none", "open", "applied", "redeemed", "voided"}
Api == "api"
Hook == "hook"
Slot == Draft \cup {Api, Hook}     \* a draft's own slot is its update chain
ASSUME SlotAssumption == Api \notin Draft /\ Hook \notin Draft
Idle == [pc |-> "idle"]
NoTags == [num |-> {}, apply |-> {}, remove |-> FALSE]

Busy(s) == run[s].pc # "idle"
Quiet == \A s \in Slot : ~Busy(s)
Allowed(t) == t \in case.trouble
Voucher == case.kind = "voucher"

(* A request starts while another runs only if requests may overlap, and a *)
(* sale is heard of before anything else unless its webhook is late.       *)
CanStart(s) ==
    /\ ~Busy(s)
    /\ Allowed("overlap") \/ Quiet
    /\ s = Hook \/ Allowed("late") \/ \A h \in hooks : h.kind = "deleted"

(* Staff wait for the request they see, and leave a draft alone while any  *)
(* request works on it.                                                    *)
Untouched(d) ==
    \/ Allowed("overlap") \/ Quiet
    \/ Allowed("late") /\ \A s \in Slot : Busy(s) => d \notin {run[s].d, run[s].x}

(* What staff asked for last: one draft per code, the last one.            *)
Want(d, c) ==
    wanted' = [e \in Draft |-> IF e = d THEN c ELSE IF wanted[e] = c THEN None ELSE wanted[e]]

Happens == events > 0 /\ events' = events - 1

Goto(s, pc) == run' = [run EXCEPT ![s].pc = pc]
Done(s) == run' = [run EXCEPT ![s] = Idle]

(***************************************************************************)
(* credit_instruments.js: the writers of the ledger.  Each is one UPDATE,  *)
(* or an INSERT where no row exists.                                       *)
(***************************************************************************)
NoRow == [status |-> "none", draft |-> None, order |-> None, rule |-> FALSE]

UpsertIssued(c, hasRule) ==
    IF ledger[c].status = "none"
    THEN ledger' = [ledger EXCEPT ![c].status = "open", ![c].rule = hasRule]
    ELSE UNCHANGED ledger

Apply(c, d) == ledger' = [ledger EXCEPT ![c].status = "applied", ![c].draft = d]

Redeem(c, d, o) ==
    ledger' = [ledger EXCEPT ![c].status = "redeemed", ![c].order = o,
                             ![c].draft = IF d = None THEN @ ELSE d]

Reopened(row) == IF row.status = "none" THEN row
                 ELSE [row EXCEPT !.status = "open", !.draft = None, !.order = None]
Reopen(c) == ledger' = [ledger EXCEPT ![c] = Reopened(@)]

VoidInstrument(c) ==
    ledger' = [ledger EXCEPT ![c].status = IF @ = "none" THEN @ ELSE "voided"]

(* An apply whose draft was deleted goes back to open.                     *)
RevertApplied(d) ==
    ledger' = [c \in Code |->
                 IF ledger[c].status = "applied" /\ ledger[c].draft = d
                 THEN [ledger[c] EXCEPT !.status = "open", !.draft = None]
                 ELSE ledger[c]]

Init == \E k \in Case :
    /\ case = k /\ events = k.events
    /\ ledger = [c \in Code |-> NoRow]
    /\ doc = [d \in Draft |-> [state |-> "open", code |-> None, tags |-> NoTags, sent |-> {}]]
    /\ rule = {}
    /\ run = [s \in Slot |-> Idle]
    /\ hooks = {}
    /\ deducted = [c \in Code |-> {}]
    /\ wanted = [d \in Draft |-> None]

(***************************************************************************)
(* Staff, customers and the Apps Script.                                   *)
(***************************************************************************)
(* /api/credit-instrument/issue: the voucher script reports the voucher it *)
(* made, with its price rule; the backfill reports it again.               *)
Issue(c) ==
    /\ Happens
    /\ Voucher
    /\ UpsertIssued(c, TRUE)
    /\ rule' = IF ledger[c].status = "none" THEN rule \cup {c} ELSE rule
    /\ UNCHANGED <<case, doc, run, hooks, deducted, wanted>>

(* The panel: a tag that asks to remove what is on the draft, one that     *)
(* asks for a code, or both in one edit.  Shopify sends the draft as it is *)
(* then; "sent" keeps what may still come of that.                         *)
Edited(d, tags) ==
    doc' = [doc EXCEPT ![d].tags = tags,
                       ![d].sent = IF Allowed("stale") THEN @ \cup {tags} ELSE @]

AskRemove(d) ==
    /\ Happens
    /\ doc[d].state = "open" /\ Untouched(d) /\ doc[d].tags.apply = {}
    /\ doc[d].code # None
    /\ Edited(d, [doc[d].tags EXCEPT !.remove = TRUE])
    /\ wanted' = [wanted EXCEPT ![d] = None]
    /\ UNCHANGED <<case, ledger, rule, run, hooks, deducted>>

AskApply(d, c) ==
    /\ Happens
    /\ doc[d].state = "open" /\ Untouched(d) /\ doc[d].tags.apply = {}
    /\ ledger[c].status # "none"
    /\ \/ doc[d].code \in {None, c} /\ ~doc[d].tags.remove
       \/ Allowed("swap") /\ ~doc[d].tags.remove
       \/ Allowed("both") /\ doc[d].tags.remove
    /\ Edited(d, [doc[d].tags EXCEPT !.apply = {c}])
    /\ Want(d, c)
    /\ UNCHANGED <<case, ledger, rule, run, hooks, deducted>>

(* Staff complete the draft: the customer is given what it holds, and the  *)
(* webhook carries the tags of that moment.                                *)
Complete(d) ==
    /\ Happens
    /\ doc[d].state = "open" /\ Untouched(d)
    /\ doc' = [doc EXCEPT ![d].state = "completed"]
    /\ deducted' = [c \in Code |-> IF c = doc[d].code THEN deducted[c] \cup {d} ELSE deducted[c]]
    /\ hooks' = hooks \cup {[kind |-> "completed", d |-> d, tags |-> doc[d].tags]}
    /\ UNCHANGED <<case, ledger, rule, run, wanted>>

Delete(d) ==
    /\ Happens
    /\ doc[d].state = "open" /\ Untouched(d)
    /\ doc' = [doc EXCEPT ![d].state = "gone", ![d].code = None, ![d].tags = NoTags]
    /\ hooks' = hooks \cup {[kind |-> "deleted", d |-> d]}
    /\ wanted' = [wanted EXCEPT ![d] = None]
    /\ UNCHANGED <<case, ledger, rule, run, deducted>>

(* A customer uses the code in the online shop; a code works there once.   *)
BuyOnline(c, o) ==
    /\ Happens
    /\ c \in rule /\ \A k \in Code : o \notin deducted[k]
    /\ Allowed("online") \/ (ledger[c].status = "open" /\ Quiet /\ \A d \in Draft : c \notin doc[d].tags.apply)
    /\ rule' = rule \ {c}
    /\ deducted' = [deducted EXCEPT ![c] = @ \cup {o}]
    /\ hooks' = hooks \cup {[kind |-> "online", d |-> o, c |-> c]}
    /\ UNCHANGED <<case, ledger, doc, run, wanted>>

(* A restart loses every request; those of webhooks were acknowledged.     *)
Restart ==
    /\ Allowed("fault") /\ Happens
    /\ ~Quiet
    /\ run' = [s \in Slot |-> Idle]
    /\ UNCHANGED <<case, ledger, doc, rule, hooks, deducted, wanted>>

(***************************************************************************)
(* The update chain of a draft: remove-instrument runs before apply, on    *)
(* the tags of the payload the pass started with.  Those are the draft's   *)
(* own unless the delivery is an old one: the first pass of a chain runs   *)
(* on what it was sent.                                                    *)
(***************************************************************************)
Request(job, pc, d, c, x) ==
    [pc |-> pc, job |-> job, d |-> d, c |-> c, x |-> x,
     tags |-> IF d \in Draft THEN doc[d].tags ELSE NoTags, rule |-> FALSE]

Triggered(d) == doc[d].tags.remove \/ doc[d].tags.apply # {}

Pass(d, t) ==
    LET c == IF t.apply = {} THEN None ELSE CHOOSE k \in t.apply : TRUE
    IN [Request("panel", IF t.remove THEN "clear" ELSE "look", d, c, None) EXCEPT !.tags = t]

ChainStart(d) ==
    /\ CanStart(d)
    /\ doc[d].state = "open" /\ Triggered(d)
    /\ run' = [run EXCEPT ![d] = Pass(d, doc[d].tags)]
    /\ UNCHANGED <<case, ledger, doc, rule, hooks, deducted, wanted, events>>

ChainAgain(d) ==
    /\ Allowed("stale") /\ Happens
    /\ CanStart(d)
    /\ \E t \in doc[d].sent : run' = [run EXCEPT ![d] = Pass(d, t)]
    /\ UNCHANGED <<case, ledger, doc, rule, hooks, deducted, wanted>>

(* stripInstrumentFromDraft: off the draft, unless it is an order by now.  *)
Stripped(d) ==
    IF doc[d].state = "open"
    THEN [doc EXCEPT ![d].code = None, ![d].tags.num = {}]
    ELSE doc

FinishTags(s, nums) ==
    doc' = [doc EXCEPT ![run[s].d].tags =
              [run[s].tags EXCEPT !.num = @ \cup nums,
                                  !.apply = IF run[s].job = "panel" THEN {} ELSE @]]

(* Taking off: the code is the metafield's or else the tag's; it goes with *)
(* its value.  /api/voucher-void and /api/exc-void do the same and free or *)
(* void the code they were posted.                                         *)
Clear(s) ==
    /\ run[s].pc = "clear"
    /\ LET d == run[s].d
           known == IF doc[d].code # None THEN {doc[d].code}
                    ELSE IF run[s].tags.num = {} THEN {None} ELSE run[s].tags.num
       IN IF doc[d].state = "gone"
          THEN Done(s) /\ UNCHANGED doc
          ELSE /\ doc' = [doc EXCEPT ![d].code = None]
               /\ \E x \in (IF run[s].job = "panel" THEN known ELSE {run[s].x}) :
                    run' = [run EXCEPT ![s].pc = "untag", ![s].x = x]
    /\ UNCHANGED <<case, ledger, rule, hooks, deducted, wanted, events>>

NextOfRemove(s) == IF run[s].c = None THEN Done(s) ELSE Goto(s, "look")

Untag(s) ==
    /\ run[s].pc = "untag"
    /\ IF doc[run[s].d].state = "gone"
       THEN Done(s) /\ UNCHANGED doc
       ELSE /\ doc' = [doc EXCEPT ![run[s].d].tags =
                         [run[s].tags EXCEPT !.num = {},
                                             !.remove = IF run[s].job = "panel" THEN FALSE ELSE @]]
            /\ CASE run[s].job = "void" -> Goto(s, "void")
                 [] run[s].job = "free" -> Goto(s, "free")
                 [] run[s].x = None     -> NextOfRemove(s)
                 [] OTHER               -> Goto(s, "lookFree")
    /\ UNCHANGED <<case, ledger, rule, hooks, deducted, wanted, events>>

\* Faulty LookFree: whatever the ledger says of the code.
LookFreeAlways(s) ==
    /\ run[s].pc = "lookFree"
    /\ Goto(s, "free")
    /\ UNCHANGED <<case, ledger, doc, rule, hooks, deducted, wanted, events>>

LookFree(s) ==
    /\ run[s].pc = "lookFree"
    /\ IF ledger[run[s].x].status = "redeemed" THEN NextOfRemove(s) ELSE Goto(s, "free")
    /\ UNCHANGED <<case, ledger, doc, rule, hooks, deducted, wanted, events>>

Free(s) ==
    /\ run[s].pc = "free"
    /\ Reopen(run[s].x)
    /\ NextOfRemove(s)
    /\ UNCHANGED <<case, doc, rule, hooks, deducted, wanted, events>>

Void(s) ==
    /\ run[s].pc = "void"
    /\ VoidInstrument(run[s].x)
    /\ Done(s)
    /\ UNCHANGED <<case, doc, rule, hooks, deducted, wanted, events>>

(* Putting on: the gate of the ledger.  The panel refuses what was         *)
(* redeemed; voucher-redeem lets it pass on the draft it was redeemed on.  *)
\* Faulty Refused: only what was voided.
RefusedVoided(s) == ledger[run[s].c].status = "voided"

Refused(s) ==
    LET row == ledger[run[s].c] IN
    \/ row.status = "voided"
    \/ row.status = "redeemed" /\ (run[s].job = "panel" \/ row.draft # run[s].d)

AfterLook(s) == IF run[s].job = "panel" THEN "read" ELSE "write"

\* Faulty Look: the code stays on the draft that had it.
LookNoStrip(s) ==
    /\ run[s].pc = "look"
    /\ IF Refused(s)
       THEN /\ Done(s)
            /\ IF run[s].job = "panel" /\ doc[run[s].d].state # "gone"
               THEN FinishTags(s, {}) ELSE UNCHANGED doc
       ELSE /\ run' = [run EXCEPT ![s].pc = AfterLook(s), ![s].rule = ledger[run[s].c].rule]
            /\ UNCHANGED doc
    /\ UNCHANGED <<case, ledger, rule, hooks, deducted, wanted, events>>

Look(s) ==
    /\ run[s].pc = "look"
    /\ LET row == ledger[run[s].c]
           elsewhere == row.status = "applied" /\ row.draft # run[s].d
       IN IF Refused(s)
          THEN /\ Done(s)
               /\ IF run[s].job = "panel" /\ doc[run[s].d].state # "gone"
                  THEN FinishTags(s, {}) ELSE UNCHANGED doc
          ELSE /\ run' = [run EXCEPT ![s].pc = IF elsewhere THEN "strip" ELSE AfterLook(s),
                                     ![s].x = IF elsewhere THEN row.draft ELSE None,
                                     ![s].rule = row.rule]
               /\ UNCHANGED doc
    /\ UNCHANGED <<case, ledger, rule, hooks, deducted, wanted, events>>

(* Latest one wins: off the draft that had it.                             *)
Strip(s) ==
    /\ run[s].pc = "strip"
    /\ doc' = Stripped(run[s].x)
    /\ run' = [run EXCEPT ![s].pc = AfterLook(s), ![s].x = None]
    /\ UNCHANGED <<case, ledger, rule, hooks, deducted, wanted, events>>

(* What the draft holds already: this code, another one, or nothing.       *)
Read(s) ==
    /\ run[s].pc = "read"
    /\ LET d == run[s].d
           held == doc[d].code
       IN CASE doc[d].state = "gone" -> Done(s) /\ UNCHANGED doc
            [] doc[d].state # "gone" /\ held = run[s].c ->
                 FinishTags(s, {run[s].c}) /\ Done(s)
            [] doc[d].state # "gone" /\ held = None -> Goto(s, "write") /\ UNCHANGED doc
            [] OTHER -> /\ run' = [run EXCEPT ![s].pc = "swap", ![s].x = held]
                        /\ UNCHANGED doc
    /\ UNCHANGED <<case, ledger, rule, hooks, deducted, wanted, events>>

Swap(s) ==
    /\ run[s].pc = "swap"
    /\ doc' = Stripped(run[s].d)
    /\ IF doc[run[s].d].state = "gone" THEN Done(s) ELSE Goto(s, "release")
    /\ UNCHANGED <<case, ledger, rule, hooks, deducted, wanted, events>>

Release(s) ==
    /\ run[s].pc = "release"
    /\ Reopen(run[s].x)
    /\ run' = [run EXCEPT ![s].pc = IF run[s].job = "redeem" THEN "look" ELSE "write", ![s].x = None]
    /\ UNCHANGED <<case, doc, rule, hooks, deducted, wanted, events>>

WriteCode(s) ==
    /\ run[s].pc = "write"
    /\ IF doc[run[s].d].state = "gone"
       THEN Done(s) /\ UNCHANGED doc
       ELSE doc' = [doc EXCEPT ![run[s].d].code = run[s].c] /\ Goto(s, "tag")
    /\ UNCHANGED <<case, ledger, rule, hooks, deducted, wanted, events>>

WriteTags(s) ==
    /\ run[s].pc = "tag"
    /\ IF doc[run[s].d].state = "gone"
       THEN Done(s) /\ UNCHANGED doc
       ELSE /\ FinishTags(s, {run[s].c})
            /\ Goto(s, IF run[s].job = "note" THEN "issue" ELSE "apply")
    /\ UNCHANGED <<case, ledger, rule, hooks, deducted, wanted, events>>

IssueNote(s) ==
    /\ run[s].pc = "issue"
    /\ UpsertIssued(run[s].c, FALSE)
    /\ Goto(s, "apply")
    /\ UNCHANGED <<case, doc, rule, hooks, deducted, wanted, events>>

ApplyLedger(s) ==
    /\ run[s].pc = "apply"
    /\ Apply(run[s].c, run[s].d)
    /\ IF run[s].job = "redeem" /\ run[s].rule THEN Goto(s, "rule") ELSE Done(s)
    /\ UNCHANGED <<case, doc, rule, hooks, deducted, wanted, events>>

(* The online code is destroyed: at conversion, and by voucher-redeem.     *)
DeletePriceRule(s) ==
    /\ run[s].pc = "rule"
    /\ rule' = rule \ {run[s].c}
    /\ Done(s)
    /\ UNCHANGED <<case, ledger, doc, hooks, deducted, wanted, events>>

(***************************************************************************)
(* The Apps Script calls.                                                  *)
(***************************************************************************)
(* /api/voucher-redeem: the code on the draft is swapped out before the    *)
(* ledger is asked.  /api/exc-redeem never asks it: the number was minted  *)
(* for this call.  Either answers at once if the draft holds the code.     *)
PostRedeem(d, c) ==
    /\ Happens
    /\ CanStart(Api)
    /\ doc[d].state = "open" \/ (Allowed("converted") /\ doc[d].state = "completed")
    /\ doc[d].code # c
    /\ Allowed("swap") \/ (doc[d].code = None /\ ~Triggered(d))
    /\ IF Voucher THEN ledger[c].status # "none"
       ELSE ledger[c].status = "none" /\ \A e \in Draft : doc[e].code # c
    /\ LET job == IF Voucher THEN "redeem" ELSE "note"
           first == IF Voucher THEN "look" ELSE "write"
       IN run' = [run EXCEPT ![Api] =
                    Request(job, IF doc[d].code = None THEN first ELSE "swap", d, c, doc[d].code)]
    /\ Want(d, c)
    /\ UNCHANGED <<case, ledger, doc, rule, hooks, deducted>>

(* /api/voucher-void, /api/exc-void: off the draft and free, or void.      *)
PostVoid(d, job) ==
    /\ Happens
    /\ CanStart(Api)
    /\ doc[d].state = "open" /\ doc[d].code # None
    /\ run' = [run EXCEPT ![Api] = Request(job, "clear", d, None, doc[d].code)]
    /\ wanted' = [wanted EXCEPT ![d] = None]
    /\ UNCHANGED <<case, ledger, doc, rule, hooks, deducted>>

(***************************************************************************)
(* The webhooks.                                                           *)
(***************************************************************************)
(* A webhook is handled once, or once more.                                *)
Delivered(h) ==
    \/ hooks' = hooks \ {h} /\ UNCHANGED events
    \/ Allowed("again") /\ Happens /\ UNCHANGED hooks

\* Faulty HandleDeleted: taken for an update of the draft, as it once was.
HandleDeletedAsUpdate(h) ==
    /\ h.kind = "deleted"
    /\ CanStart(Hook)
    /\ Delivered(h)
    /\ UNCHANGED <<case, ledger, doc, rule, run, deducted, wanted>>

HandleDeleted(h) ==
    /\ h.kind = "deleted"
    /\ CanStart(Hook)
    /\ RevertApplied(h.d)
    /\ Delivered(h)
    /\ UNCHANGED <<case, doc, rule, run, deducted, wanted>>

(* freezeOnlineVoucher: redeemed on the order, whatever the row says.  The *)
(* order is frozen first, and a frozen one is left alone: there is no      *)
(* second try.                                                             *)
HandleOnline(h) ==
    /\ h.kind = "online"
    /\ CanStart(Hook)
    /\ \/ Redeem(h.c, None, h.d) /\ UNCHANGED events
       \/ Allowed("fault") /\ Happens /\ UNCHANGED ledger
    /\ hooks' = hooks \ {h}
    /\ UNCHANGED <<case, doc, rule, run, deducted, wanted>>

(* Lock on conversion: the code of the payload's tag is redeemed.          *)
HandleCompleted(h) ==
    /\ h.kind = "completed"
    /\ CanStart(Hook)
    /\ Delivered(h)
    /\ IF h.tags.num = {}
       THEN UNCHANGED run
       ELSE \E c \in h.tags.num :
              run' = [run EXCEPT ![Hook] = Request("convert", "lock", h.d, c, None)]
    /\ UNCHANGED <<case, ledger, doc, rule, deducted, wanted>>

LockLook(s) ==
    /\ run[s].pc = "lock"
    /\ LET row == ledger[run[s].c] IN
       IF row.status = "none" \/ (row.status = "redeemed" /\ row.order # run[s].d)
       THEN Done(s)
       ELSE run' = [run EXCEPT ![s].pc = "redeem", ![s].rule = row.rule]
    /\ UNCHANGED <<case, ledger, doc, rule, hooks, deducted, wanted, events>>

RedeemOnOrder(s) ==
    /\ run[s].pc = "redeem"
    /\ Redeem(run[s].c, run[s].d, run[s].d)
    /\ IF run[s].rule THEN Goto(s, "rule") ELSE Done(s)
    /\ UNCHANGED <<case, doc, rule, hooks, deducted, wanted, events>>

(* A call fails: what its catch does.  Releasing a code that cannot be     *)
(* released refuses the new one; the ledger's failures are logged.         *)
Fails(s) ==
    /\ Allowed("fault") /\ Happens
    /\ Busy(s)
    /\ CASE run[s].pc = "strip" -> run' = [run EXCEPT ![s].pc = AfterLook(s), ![s].x = None] /\ UNCHANGED doc
         [] run[s].pc = "look" /\ run[s].job = "redeem" -> Goto(s, "write") /\ UNCHANGED doc
         [] run[s].pc \in {"lookFree", "free"} /\ run[s].job = "panel" -> NextOfRemove(s) /\ UNCHANGED doc
         [] run[s].pc \in {"clear", "untag"} /\ run[s].job = "panel" -> NextOfRemove(s) /\ UNCHANGED doc
         [] run[s].pc \in {"swap", "release"} /\ run[s].job = "panel" ->
              /\ IF doc[run[s].d].state = "gone" THEN UNCHANGED doc ELSE FinishTags(s, {})
              /\ Done(s)
         [] run[s].pc \in {"issue", "apply"} /\ run[s].job = "redeem" /\ run[s].rule -> Goto(s, "rule") /\ UNCHANGED doc
         [] OTHER -> Done(s) /\ UNCHANGED doc
    /\ UNCHANGED <<case, ledger, rule, hooks, deducted, wanted>>

Step(s) ==
    \/ Clear(s) \/ Untag(s) \/ LookFree(s) \/ Free(s) \/ Void(s)
    \/ Look(s) \/ Strip(s) \/ Read(s) \/ Swap(s) \/ Release(s)
    \/ WriteCode(s) \/ WriteTags(s) \/ IssueNote(s) \/ ApplyLedger(s) \/ DeletePriceRule(s)
    \/ LockLook(s) \/ RedeemOnOrder(s)

Handle(h) == HandleDeleted(h) \/ HandleOnline(h) \/ HandleCompleted(h)

Next ==
    \/ \E c \in Code : Issue(c)
    \/ \E d \in Draft : AskRemove(d) \/ Complete(d) \/ Delete(d) \/ ChainStart(d) \/ ChainAgain(d)
    \/ \E d \in Draft, c \in Code : AskApply(d, c) \/ PostRedeem(d, c)
    \/ \E d \in Draft, job \in {"free", "void"} : PostVoid(d, job)
    \/ \E c \in Code, o \in Order : BuyOnline(c, o)
    \/ \E s \in Slot : Step(s) \/ Fails(s)
    \/ \E h \in hooks : Handle(h)
    \/ Restart

Spec == Init /\ [][Next]_vars

(* The process runs what it has started, and Shopify delivers.             *)
FairSpec ==
    /\ Spec
    /\ WF_vars(\E s \in Slot : Step(s))
    /\ WF_vars(\E d \in Draft : ChainStart(d))
    /\ WF_vars(\E h \in hooks : Handle(h))

(***************************************************************************)
(* Properties.                                                             *)
(***************************************************************************)
Only(troubles) == case.trouble \subseteq troubles

(* Type invariant: rows, drafts, requests and webhooks are what the code   *)
(* reads and writes.                                                       *)
RowType == [status : Status, draft : Draft \cup {None}, order : Draft \cup Order \cup {None},
            rule : BOOLEAN]
TagsType == [num : SUBSET Code, apply : SUBSET Code, remove : BOOLEAN]
TypeOK ==
    /\ ledger \in [Code -> RowType]
    /\ doc \in [Draft -> [state : {"open", "completed", "gone"}, code : Code \cup {None},
                          tags : TagsType, sent : SUBSET TagsType]]
    /\ rule \subseteq Code
    /\ \A s \in Slot : Busy(s) =>
          /\ run[s].d \in Draft /\ run[s].c \in Code \cup {None}
          /\ run[s].tags \in TagsType
          /\ run[s].pc \in {"clear", "untag", "lookFree", "free", "void", "swap", "release"}
                => run[s].pc \in {"clear", "untag"} \/ run[s].x \in Code
          /\ run[s].pc = "strip" => run[s].x \in Draft
    /\ \A h \in hooks : h.kind = "online" <=> h.d \in Order

(* Holds are claimed where requests run one at a time and do not fail, no  *)
(* edit asks for a removal and an application at once, the script writes   *)
(* to open drafts only, and no old edit of a draft is delivered.  (With    *)
(* "both" a refused application writes back the tags the pass began with,  *)
(* and a later pass frees what the tag names though another draft holds it *)
(* by then; with "converted" a swap on an order frees the code it was sold *)
(* with; with "stale" the removal of a code comes again after the code     *)
(* went to another draft, and frees it there.)                             *)
Calm == Only({"swap", "late", "online", "again"})

(* A code is on one open draft at most: applying it elsewhere took it off  *)
(* the draft the ledger named ("so it can never be live on two drafts",    *)
(* server.js).                                                             *)
HeldOnce ==
    Calm =>
        \A d, e \in Draft : doc[d].state = "open" /\ doc[e].state = "open" /\ d # e
                            /\ doc[d].code # None => doc[d].code # doc[e].code

(* Between requests the ledger follows the drafts: the code on an open     *)
(* draft is reserved for that draft, unless a sale redeemed it meanwhile,  *)
HeldIsApplied ==
    Calm /\ Quiet =>
        \A d \in Draft : doc[d].state = "open" /\ doc[d].code # None =>
            LET row == ledger[doc[d].code] IN
            row.status = "redeemed" \/ (row.status = "applied" /\ row.draft = d)

(* and a code reserved for a draft is on it, or the webhook of the         *)
(* deletion, which frees it, is on its way.                                *)
AppliedIsHeld ==
    Calm /\ Quiet =>
        \A c \in Code : ledger[c].status = "applied" =>
            LET d == ledger[c].draft IN
            \/ doc[d].code = c
            \/ \E h \in hooks : h.kind = "deleted" /\ h.d = d

(* The ledger and the drafts agree on what is held where.                  *)
HoldsAgree == TypeOK /\ HeldOnce /\ HeldIsApplied /\ AppliedIsHeld

(* One document at most is given the value of an instrument, as long as    *)
(* no code is swapped, or removed and replaced in one edit, sales are      *)
(* heard of promptly and a code on a draft is not used online.             *)
SpentOnce == Only({"again"}) => \A c \in Code : Cardinality(deducted[c]) <= 1

(* A sale that was heard of has redeemed what it was given, and a code     *)
(* that was redeemed is dead in the online shop as well.                   *)
SoldIsRedeemed ==
    Only({"again"}) /\ Quiet =>
        \A c \in Code :
            /\ \A o \in deducted[c] : (~\E h \in hooks : h.d = o) =>
                  ledger[c].status = "redeemed" /\ ledger[c].order = o
            /\ ledger[c].status = "redeemed" => c \notin rule

(* The value of an instrument is given once, and the ledger knows to whom. *)
SalesAgree == SpentOnce /\ SoldIsRedeemed

(* What was redeemed is never handed back, neither by a deletion, a second *)
(* delivery nor a late report of the issue,                                *)
RedeemedStays ==
    [][Only({"again"}) =>
         \A c \in Code : ledger[c].status = "redeemed" => ledger'[c].status = "redeemed"]_vars

(* and never by the panel's removal, even of a code that was used online   *)
(* or sold while it was on the draft ("reopening it would hand back a      *)
(* credit the customer has already spent", server.js).                     *)
PanelKeepsRedeemed ==
    [][Only(Trouble \ {"overlap"}) =>
         \A s \in Slot : Busy(s) /\ run[s].job = "panel" /\ run[s].pc # "release" /\ run'[s] # run[s] =>
            \A c \in Code : ledger[c].status = "redeemed" => ledger'[c].status = "redeemed"]_vars

(* Nothing that was spent is handed back, by whichever path.               *)
SpentStays == RedeemedStays /\ PanelKeepsRedeemed

(* The panel's trigger tags go: every request staff made ends.  Not after  *)
(* a failure, which no delivery makes good, and not where a draft is       *)
(* edited during its pass: an edit during the third pass is forgotten.     *)
TriggersEnd ==
    Only(Trouble \ {"fault", "overlap"}) =>
        \A d \in Draft : (doc[d].state = "open" /\ Triggered(d))
                            ~> (doc[d].state # "open" \/ ~Triggered(d))

(* A voucher on a deleted draft can be used again: it does not stay        *)
(* reserved for a draft that is gone.                                      *)
ComesBack ==
    Only(Trouble \ {"fault", "overlap"}) =>
        \A d \in Draft, c \in Code :
            (doc[d].state = "gone" /\ ledger[c].status = "applied" /\ ledger[c].draft = d)
                ~> ~(ledger[c].status = "applied" /\ ledger[c].draft = d)

(* Requests end, and a reservation of a draft that is gone ends.           *)
HoldsEnd == TriggersEnd /\ ComesBack

(* Whatever happens, what is on a draft is reserved once all is quiet.     *)
HeldIsReserved ==
    Quiet => \A d \in Draft : doc[d].state = "open" /\ doc[d].code # None =>
                                 ledger[doc[d].code].status # "open"

(* What the comments of server.js say, whatever happens: "Double-spend is  *)
(* already prevented by the ledger";                                       *)
NoDoubleSpend == \A c \in Code : Cardinality(deducted[c]) <= 1

(* "the apply has to be the last word": the chain does not take off what   *)
(* staff asked for last, unless to put it on again in the same pass.       *)
LastWord ==
    \A d \in Draft :
        run[d].pc = "untag" /\ run[d].job = "panel" /\ wanted[d] # None =>
            run[d].x # wanted[d] \/ run[d].x = run[d].c
=============================================================================
