------------------------------ MODULE BuyPlan ------------------------------
(***************************************************************************)
(* A buy plan from its start to its end (src/modules/payments/buy-plan):   *)
(* the plan row in Supabase, the draft it reserves in Shopify, the         *)
(* messages it sends and the voucher it pays out.                          *)
(*                                                                         *)
(* Three kinds of program run against that state, each one await at a      *)
(* time: the staff screen (start, record-payment, change-product), the     *)
(* sweep, and the draft_orders/delete webhook that rebuilds a deleted      *)
(* draft.  Between their steps staff edit, delete and complete the draft,  *)
(* money arrives, the pricing engine and the payment step of the draft     *)
(* webhook run, and the process may crash.                                 *)
(*                                                                         *)
(* A draft holds one piece at one price; net is custom.amount_to_be_       *)
(* collected, the figure the payment step derives from the price.          *)
(***************************************************************************)
EXTENDS Schedule

CONSTANTS Draft,           \* draft ids, in the order Shopify hands them out
          Mode,            \* ways of starting a plan: a subset of {"gold", "equal"}
          Piece,           \* pieces
          Start,           \* the piece, price and gold value of the draft a plan starts on
          MarketPrice,     \* [piece -> prices the catalog and the engine may give it]
          PayAmount,       \* amounts a customer pays at once
          RemindBefore,    \* REMIND_DAYS_BEFORE
          OverdueAfter,    \* OVERDUE_AFTER_DAYS
          FinalBefore,     \* FINAL_REPRICE_DAYS_BEFORE
          Overlap,         \* may a restore and a sweep be under way at once?
          Case             \* bound: money already on the draft, and how often each of Event happens

Event == {"pay", "edit", "change", "nudge", "delete", "crash"}

ASSUME BuyPlanAssumption ==
    /\ Draft \subseteq Nat /\ 1 \in Draft
    /\ Mode \subseteq {"gold", "equal"}
    /\ Start.piece \in Piece /\ Start.price \in Nat \ {0} /\ Start.gold \in Nat
    /\ \A p \in Piece : MarketPrice[p] \subseteq Nat \ {0}
    /\ PayAmount \subseteq Nat \ {0}
    /\ Overlap \in BOOLEAN
    /\ \A c \in Case : c.deposit \in Nat /\ c.budget \in [Event -> Nat]

VARIABLES today,       \* the calendar day in the store
          row,         \* the buy_plans row
          draft,       \* [Draft -> the draft]
          sent,        \* buy_plan_reminders: the sent markers
          mailed,      \* messages that really went out
          sweep,       \* the sweep under way: its step and what it holds in memory
          desk,        \* the staff request under way
          hook,        \* the restore under way
          deleted,     \* draft_orders/delete webhooks not yet handled
          followUp,    \* a follow-up timer is armed
          swept,       \* a sweep has gone through today
          received,    \* money the customer has paid for the plan
          vouchers,    \* the vouchers issued
          budget       \* how often each bounded event may still happen

planVars == <<today, row, draft, sent, mailed, sweep, desk, hook, deleted, followUp,
          swept, received, vouchers, budget>>

Tag == {"buy-plan", "rate-locked", "buy-plan-change", "reprice", "sync-payment", "buy-plan-closed"}
PlanTag == {"buy-plan", "rate-locked", "buy-plan-change", "reprice"}
Idle == [pc |-> "idle"]
NoRow == [status |-> "none"]
Gone == [status |-> "gone"]

(* lock.js: what stops a reprice, and what a reprice leaves of the tags.   *)
RateLocked(tags) ==
    "buy-plan-change" \notin tags /\ ({"rate-locked", "buy-plan"} \cap tags) # {}

RelockAfterReprice(tags) == tags \ {"buy-plan-change"}

(* final.js: a reprice asked for has landed.                               *)
FinalRepriceDone(tags) == "rate-locked" \in tags /\ ({"reprice", "sync-payment"} \cap tags) = {}
ChangeRepriceDone(tags) == ({"buy-plan-change", "reprice"} \cap tags) = {}

(* What a deleted draft would be rebuilt from.                             *)
SnapshotOf(d) == [piece |-> d.piece, price |-> d.price, net |-> d.net, tags |-> d.tags, legs |-> d.legs]

StateOf(plan, d) == PlanState(plan, d.legs, today)
Readable(d) == d.status \in {"open", "completed"}
Plan == row
Active == row.status = "active"
TheDraft == draft[row.did]

Happens(e) == budget[e] > 0 /\ budget' = [budget EXCEPT ![e] = @ - 1]

(* updatePlan: a patch of the row, nothing if it was taken back out.       *)
Update(new) == row' = IF row = NoRow THEN NoRow ELSE new
Mail(what) == mailed' = mailed \cup {what}
Mark(what) == sent' = sent \cup {what}

Kind == {"due", "overdue", "warn", "last", "final_reprice", "final_price", "forfeited", "completed"}
Level == {0} \cup WarnDays \cup LastWarnDays
Message == Installment \X Kind \X Level

PlanInit == \E c \in Case :
    /\ today = 0
    /\ row = NoRow
    /\ draft = [i \in Draft |->
                  IF i = 1 THEN [status |-> "open", piece |-> Start.piece, price |-> Start.price,
                                 net |-> Start.price, tags |-> {},
                                 legs |-> IF c.deposit = 0 THEN <<>> ELSE <<[date |-> 0, value |-> c.deposit]>>]
                  ELSE Gone]
    /\ sent = {} /\ mailed = {}
    /\ sweep = Idle /\ desk = Idle /\ hook = Idle
    /\ deleted = {} /\ followUp = FALSE /\ swept = FALSE
    /\ received = c.deposit /\ vouchers = <<>>
    /\ budget = c.budget

(* A restart forgets every request, sweep, restore and timer under way.    *)
Restart ==
    /\ Happens("crash")
    /\ sweep' = Idle /\ desk' = Idle /\ hook' = Idle /\ followUp' = FALSE
    /\ UNCHANGED swept

(***************************************************************************)
(* The staff screen.                                                       *)
(***************************************************************************)
CanStart(d, mode) ==
    /\ d.status = "open"
    /\ SumOf(d.legs) < d.net
    /\ mode = "gold" => SumOf(d.legs) >= Start.gold

(* startPlan reads the draft and finds nothing against starting,           *)
StartRead(mode) ==
    /\ desk = Idle /\ row = NoRow /\ today = 0
    /\ CanStart(draft[1], mode)
    /\ desk' = [pc |-> "insert", mode |-> mode, d |-> draft[1]]
    /\ UNCHANGED <<today, row, draft, sent, mailed, sweep, hook, deleted, followUp,
                   swept, received, vouchers, budget>>

(* records the plan first (the draft's unique key),                        *)
StartInsert ==
    /\ desk.pc = "insert"
    /\ LET d == desk.d
           paid == SumOf(d.legs)
       IN row' = [status |-> "active", did |-> 1, mode |-> desk.mode, total |-> d.net,
                  gold |-> IF desk.mode = "gold" THEN Most(Start.gold, paid) ELSE 0,
                  final |-> NoPrice, changes |-> <<>>, pending |-> FALSE,
                  lines |-> d.piece, snap |-> SnapshotOf(d), ack |-> paid]
    /\ desk' = [desk EXCEPT !.pc = "lock"]
    /\ UNCHANGED <<today, draft, sent, mailed, sweep, hook, deleted, followUp,
                   swept, received, vouchers, budget>>

(* then locks the draft, or takes the plan back out if Shopify refuses.    *)
StartLock ==
    /\ desk.pc = "lock"
    /\ IF draft[1].status = "open"
       THEN /\ draft' = [draft EXCEPT ![1].tags = desk.d.tags \cup
                           (IF desk.mode = "gold" THEN {"buy-plan", "rate-locked"} ELSE {"buy-plan"})]
            /\ UNCHANGED row
       ELSE /\ row' = NoRow
            /\ UNCHANGED draft
    /\ desk' = Idle
    /\ UNCHANGED <<today, sent, mailed, sweep, hook, deleted, followUp,
                   swept, received, vouchers, budget>>

(* changeProduct asks the engine for a price at today's rate,              *)
ChangeRead ==
    /\ desk = Idle /\ Active /\ ~row.pending
    /\ Readable(TheDraft) /\ TheDraft.piece # row.lines
    /\ desk' = [pc |-> "change", plan |-> row, d |-> TheDraft]
    /\ Happens("change")
    /\ UNCHANGED <<today, row, draft, sent, mailed, sweep, hook, deleted, followUp,
                   swept, received, vouchers>>

ChangeTags ==
    /\ desk.pc = "change"
    /\ LET i == desk.plan.did IN
       IF draft[i].status = "open"
       THEN /\ draft' = [draft EXCEPT ![i].tags =
                           (desk.d.tags \ {"rate-locked"}) \cup {"buy-plan-change", "reprice"}]
            /\ desk' = [desk EXCEPT !.pc = "pending"]
       ELSE desk' = Idle /\ UNCHANGED draft
    /\ UNCHANGED <<today, row, sent, mailed, sweep, hook, deleted, followUp,
                   swept, received, vouchers, budget>>

(* and gives up the lock of a gold plan for good.                          *)
ChangePending ==
    /\ desk.pc = "pending"
    /\ Update([row EXCEPT !.mode = "equal", !.pending = TRUE])
    /\ followUp' = TRUE
    /\ desk' = Idle
    /\ UNCHANGED <<today, draft, sent, mailed, sweep, hook, deleted,
                   swept, received, vouchers, budget>>

(* A payment by link or in the store: a new leg on the draft, and the      *)
(* order as soon as the draft is paid (handlePaymentCompletion).           *)
Pay(amount) ==
    LET i == IF Active THEN row.did ELSE 1
        legs == Append(draft[i].legs, [date |-> today, value |-> amount])
    IN /\ row.status \in {"none", "active"}
          /\ draft[i].status = "open"
       /\ draft' = [draft EXCEPT ![i].legs = legs,
                                 ![i].status = IF SumOf(legs) >= draft[i].net THEN "completed" ELSE @]
       /\ received' = received + amount
       /\ Happens("pay")
       /\ UNCHANGED <<today, row, sent, mailed, sweep, desk, hook, deleted, followUp,
                      swept, vouchers>>

(***************************************************************************)
(* The sweep (sweepPlan).  memory is what a sweep holds: the row as listed *)
(* and the draft as read; nothing of either is read again.                 *)
(***************************************************************************)
Holding(pc) == [sweep EXCEPT !.pc = pc]

(* checkLines: the pieces are not the plan's.                              *)
Edited(m) == m.d.piece # m.plan.lines

\* Faulty Repriced: only a gold plan is kept at its price.
RepricedGold(m) ==
    /\ ~Edited(m) /\ ~m.plan.pending /\ m.plan.mode = "gold"
    /\ RateLocked(m.d.tags) /\ "reprice" \notin m.d.tags
    /\ m.d.price # m.plan.snap.price

(* keepLockedPrices: the plan's piece at another price, under the lock.    *)
Repriced(m) ==
    /\ ~Edited(m) /\ ~m.plan.pending
    /\ RateLocked(m.d.tags) /\ "reprice" \notin m.d.tags
    /\ m.d.price # m.plan.snap.price

(* The messages to the customer in order, and when each is wanted; st is   *)
(* where the plan stood when the sweep computed it.                        *)
Step == <<"ack", "close", "warn", "due", "overdue">>

WarnMessage(st) == <<st.closure.warn[1], st.closure.warn[2], st.closure.warn[3]>>
DueMessage(st) == <<st.k + 1, "due", 0>>
OverdueMessage(st) == <<st.k, "overdue", 0>>

Wanted(step, plan, st) ==
    CASE step = "ack"      -> st.paid > plan.ack
      [] step = "close"    -> st.closure.close
      [] step = "warn"     -> st.closure.warn # <<>> /\ WarnMessage(st) \notin sent
      [] step = "due"      -> /\ st.upcoming > 0
                              /\ ~(st.k + 1 = N /\ AwaitingFinalPrice(plan))
                              /\ DueDate(st.k + 1) - today <= RemindBefore
                              /\ DueMessage(st) \notin sent
      [] step = "overdue"  -> /\ st.dueNow > 0
                              /\ today - DueDate(st.k) >= OverdueAfter
                              /\ OverdueMessage(st) \notin sent

(* A sweep that stops early comes again within the day: one every 6 hours. *)
Over == sweep' = Idle /\ swept' = TRUE
Stop == sweep' = Idle /\ UNCHANGED swept

(* Go on to the first message after the i-th that is wanted, or end.  A    *)
(* plan fully paid ends after its acknowledgement.                         *)
After(i, m) ==
    LET next == {j \in i + 1 .. Len(Step) :
                   (j > 1 => m.st.balance > 0) /\ Wanted(Step[j], m.plan, m.st)}
    IN IF next = {} THEN Over
       ELSE sweep' = [m EXCEPT !.pc = Step[CHOOSE j \in next : \A l \in next : j <= l]]
            /\ UNCHANGED swept

FinalDue(plan) == AwaitingFinalPrice(plan) /\ today >= DueDate(N) - FinalBefore
FinalMark == <<N, "final_reprice", 0>>

Proceed(m) ==
    IF FinalDue(m.plan)
    THEN IF FinalMark \notin sent THEN sweep' = [m EXCEPT !.pc = "final"] /\ UNCHANGED swept
         ELSE IF ~FinalRepriceDone(m.d.tags) THEN Stop
         ELSE sweep' = [m EXCEPT !.pc = "price"] /\ UNCHANGED swept
    ELSE sweep' = [m EXCEPT !.pc = IF Repriced(m) THEN "putBack" ELSE "snapshot"] /\ UNCHANGED swept

Unread == [status |-> "unread"]
NoState == [balance |-> 0]
Listed(restore) == [pc |-> "read", plan |-> row, restore |-> restore, d |-> Unread, st |-> NoState]

(* listActivePlans, or the follow-up timer's getPlan, which restores nothing. *)
SweepList ==
    /\ sweep = Idle /\ Active
    /\ hook = Idle \/ Overlap
    /\ \/ ~swept /\ sweep' = Listed(TRUE) /\ UNCHANGED followUp
       \/ followUp /\ sweep' = Listed(FALSE) /\ followUp' = FALSE
    /\ UNCHANGED <<today, row, draft, sent, mailed, desk, hook, deleted,
                   swept, received, vouchers, budget>>

SweepRead ==
    /\ sweep.pc = "read"
    /\ LET d == draft[sweep.plan.did]
           m == [sweep EXCEPT !.d = d]
       IN IF ~Readable(d)
          THEN IF sweep.restore THEN sweep' = [m EXCEPT !.pc = "missing"] /\ UNCHANGED swept ELSE Stop
          ELSE IF d.status = "completed" THEN sweep' = [m EXCEPT !.pc = "complete"] /\ UNCHANGED swept
          ELSE IF sweep.plan.pending
          THEN IF ChangeRepriceDone(d.tags) THEN sweep' = [m EXCEPT !.pc = "change"] /\ UNCHANGED swept
               ELSE Stop
          ELSE Proceed(m)
    /\ UNCHANGED <<today, row, draft, sent, mailed, desk, hook, deleted, followUp,
                   received, vouchers, budget>>

(* The draft has become the order: the plan is completed.                  *)
SweepComplete ==
    /\ sweep.pc = "complete"
    /\ Update([row EXCEPT !.status = "completed"])
    /\ Over
    /\ UNCHANGED <<today, draft, sent, mailed, desk, hook, deleted, followUp,
                   received, vouchers, budget>>

(* finishChange: the plan takes the draft's price, piece and snapshot,     *)
FinishChange ==
    /\ sweep.pc = "change"
    /\ LET plan == sweep.plan
           d == sweep.d
           new == [plan EXCEPT !.changes = Append(@, [date |-> today, total |-> d.net]),
                               !.final = IF @ = NoPrice THEN NoPrice ELSE d.net,
                               !.pending = FALSE, !.lines = d.piece, !.snap = SnapshotOf(d)]
           m == [sweep EXCEPT !.pc = "credit", !.plan = new]
       IN /\ Update([row EXCEPT !.changes = new.changes, !.final = new.final, !.pending = FALSE,
                                !.lines = new.lines, !.snap = new.snap])
          /\ IF StateOf(new, d).credit > 0 THEN sweep' = m /\ UNCHANGED swept
             ELSE Proceed(m)
    /\ UNCHANGED <<today, draft, sent, mailed, desk, hook, deleted, followUp,
                   received, vouchers, budget>>

(* and a customer who has paid more than the new price gets a voucher.     *)
ChangeVoucher ==
    /\ sweep.pc = "credit"
    /\ vouchers' = Append(vouchers, [why |-> "change", value |-> StateOf(sweep.plan, sweep.d).credit])
    /\ Proceed(sweep)
    /\ UNCHANGED <<today, row, draft, sent, mailed, desk, hook, deleted, followUp,
                   received, budget>>

(* finalStep: the gold of the lines read moves to the rate of the day;     *)
(* draftOrderUpdate replaces the lines and tags of the draft,              *)
StartFinalReprice ==
    /\ sweep.pc = "final"
    /\ LET i == sweep.plan.did IN
       IF draft[i].status = "open"
       THEN /\ \E p \in MarketPrice[sweep.d.piece] :
                 draft' = [draft EXCEPT ![i].piece = sweep.d.piece, ![i].price = p,
                                        ![i].tags = sweep.d.tags \cup {"rate-locked", "sync-payment"}]
            /\ sweep' = Holding("finalMark")
            /\ UNCHANGED swept
       ELSE Stop /\ UNCHANGED draft
    /\ UNCHANGED <<today, row, sent, mailed, desk, hook, deleted, followUp,
                   received, vouchers, budget>>

FinalMarked ==
    /\ sweep.pc = "finalMark"
    /\ Mark(FinalMark)
    /\ followUp' = TRUE
    /\ Stop
    /\ UNCHANGED <<today, row, draft, mailed, desk, hook, deleted,
                   received, vouchers, budget>>

(* and once that has landed its price is the plan's, for good.             *)
FinalPrice ==
    /\ sweep.pc = "price"
    /\ LET d == sweep.d
           plan == sweep.plan
       IN Update([row EXCEPT !.final = d.net, !.lines = d.piece, !.snap = SnapshotOf(d),
                             !.changes = Append(plan.changes, [date |-> today, total |-> d.net])])
    /\ sweep' = Holding("priceMail")
    /\ UNCHANGED <<today, draft, sent, mailed, desk, hook, deleted, followUp, swept,
                   received, vouchers, budget>>

FinalPriceMail ==
    /\ sweep.pc = "priceMail"
    /\ Mail(<<N, "final_price", 0>>)
    /\ \/ sent' = sent \cup {<<N, "final_price", 0>>, <<N, "due", 0>>} /\ Stop /\ UNCHANGED <<desk, hook, followUp, budget>>
       \/ Restart /\ UNCHANGED sent
    /\ UNCHANGED <<today, row, draft, deleted, received, vouchers>>

(* keepLockedPrices: the snapshot's line goes back over the lines read.    *)
PutBack ==
    /\ sweep.pc = "putBack"
    /\ LET i == sweep.plan.did
           snap == sweep.plan.snap
       IN IF draft[i].status = "open"
          THEN draft' = [draft EXCEPT ![i].piece = snap.piece, ![i].price = snap.price,
                                      ![i].tags = sweep.d.tags \cup {"sync-payment"}]
          ELSE UNCHANGED draft
    /\ sweep' = Holding("snapshot")
    /\ UNCHANGED <<today, row, swept, sent, mailed, desk, hook, deleted, followUp,
                   received, vouchers, budget>>

\* Faulty KeepSnapshot: the copy of the plan as listed is kept.
KeepSnapshotOld ==
    /\ sweep.pc = "snapshot"
    /\ \E st \in {StateOf(sweep.plan, sweep.d)} : After(0, [sweep EXCEPT !.st = st])
    /\ UNCHANGED <<today, row, draft, sent, mailed, desk, hook, deleted, followUp,
                   received, vouchers, budget>>

(* The restore copy follows payments and tags, never pieces or prices that *)
(* are not the plan's.                                                     *)
KeepSnapshot ==
    /\ sweep.pc = "snapshot"
    /\ LET m == sweep
           snap == SnapshotOf(m.d)
       IN Update([row EXCEPT !.snap =
                    IF Edited(m) \/ Repriced(m)
                    THEN [snap EXCEPT !.piece = m.plan.snap.piece, !.price = m.plan.snap.price]
                    ELSE snap])
    /\ \E st \in {StateOf(sweep.plan, sweep.d)} : After(0, [sweep EXCEPT !.st = st])
    /\ UNCHANGED <<today, draft, sent, mailed, desk, hook, deleted, followUp,
                   received, vouchers, budget>>

(* New money is acknowledged to the customer.                              *)
Acknowledge ==
    /\ sweep.pc = "ack"
    /\ Update([row EXCEPT !.ack = sweep.st.paid])
    /\ After(1, sweep)
    /\ UNCHANGED <<today, draft, sent, mailed, desk, hook, deleted, followUp,
                   received, vouchers, budget>>

(* forfeitPlan: the row first, then the voucher, then the draft.           *)
Forfeit ==
    /\ sweep.pc = "close"
    /\ Update([row EXCEPT !.status = "forfeited"])
    /\ sweep' = Holding(IF sweep.st.paid > 0 THEN "voucher" ELSE "release")
    /\ UNCHANGED <<today, draft, sent, mailed, desk, hook, deleted, followUp, swept,
                   received, vouchers, budget>>

ForfeitVoucher ==
    /\ sweep.pc = "voucher"
    /\ vouchers' = Append(vouchers, [why |-> "closed", value |-> sweep.st.paid])
    /\ sweep' = Holding("release")
    /\ UNCHANGED <<today, row, draft, sent, mailed, desk, hook, deleted, followUp, swept,
                   received, budget>>

Release ==
    /\ sweep.pc = "release"
    /\ LET i == sweep.plan.did IN
       IF draft[i].status = "open"
       THEN draft' = [draft EXCEPT ![i].tags = (sweep.d.tags \ PlanTag) \cup {"buy-plan-closed"}]
       ELSE UNCHANGED draft
    /\ Mark(<<N, "forfeited", 0>>)
    /\ Over
    /\ UNCHANGED <<today, row, mailed, desk, hook, deleted, followUp,
                   received, vouchers, budget>>

(* A closure warning, a link for the next installment, an overdue          *)
(* reminder: sent first, marked as sent after.                             *)
MessageOf(pc, st) ==
    CASE pc = "warn" -> WarnMessage(st)
      [] pc = "due" -> DueMessage(st)
      [] OTHER -> OverdueMessage(st)

SendMessage ==
    /\ sweep.pc \in {"warn", "due", "overdue"}
    /\ Mail(MessageOf(sweep.pc, sweep.st))
    /\ \/ /\ Mark(MessageOf(sweep.pc, sweep.st))
          /\ After(CASE sweep.pc = "warn" -> 3 [] sweep.pc = "due" -> 4 [] OTHER -> 5, sweep)
          /\ UNCHANGED <<desk, hook, followUp, budget>>
       \/ Restart /\ UNCHANGED sent
    /\ UNCHANGED <<today, row, draft, deleted, received, vouchers>>

(***************************************************************************)
(* restoreDeletedPlanDraft, from the webhook or from the sweep.            *)
(***************************************************************************)
SnapState == PlanState(row, row.snap.legs, today)

(* A plan paid in full needs no draft any more.                            *)
RestoreBegin(i) ==
    /\ hook = Idle
    /\ IF ~Active \/ row.did # i
       THEN UNCHANGED hook
       ELSE IF SnapState.balance = 0 /\ ~AwaitingFinalPrice(row)
       THEN hook' = [pc |-> "complete"]
       ELSE hook' = [pc |-> "create", snap |-> row.snap]

RestoreWebhook(i) ==
    /\ i \in deleted
    /\ sweep = Idle \/ Overlap
    /\ RestoreBegin(i)
    /\ deleted' = deleted \ {i}
    /\ UNCHANGED <<today, row, draft, sent, mailed, sweep, desk, followUp, swept,
                   received, vouchers, budget>>

RestoreSweep ==
    /\ sweep.pc = "missing"
    /\ RestoreBegin(sweep.plan.did)
    /\ Stop
    /\ UNCHANGED <<today, row, draft, sent, mailed, desk, deleted, followUp,
                   received, vouchers, budget>>

RestoreComplete ==
    /\ hook.pc = "complete"
    /\ Update([row EXCEPT !.status = "completed"])
    /\ hook' = Idle
    /\ UNCHANGED <<today, draft, sent, mailed, sweep, desk, deleted, followUp, swept,
                   received, vouchers, budget>>

RestoreCreate ==
    /\ hook.pc = "create"
    /\ \E i \in Draft :
         /\ draft[i] = Gone /\ \A j \in Draft : j < i => draft[j] # Gone
         /\ draft' = [draft EXCEPT ![i] =
                        [status |-> "open", piece |-> hook.snap.piece, price |-> hook.snap.price,
                         net |-> hook.snap.net, tags |-> hook.snap.tags, legs |-> hook.snap.legs]]
         /\ hook' = [pc |-> "rekey", new |-> i]
    /\ UNCHANGED <<today, row, sent, mailed, sweep, desk, deleted, followUp, swept,
                   received, vouchers, budget>>

RestoreRekey ==
    /\ hook.pc = "rekey"
    /\ Update([row EXCEPT !.did = hook.new])
    /\ hook' = Idle
    /\ UNCHANGED <<today, draft, sent, mailed, sweep, desk, deleted, followUp, swept,
                   received, vouchers, budget>>

(***************************************************************************)
(* What happens to the draft from outside the module.                      *)
(***************************************************************************)
(* The payment step of the draft webhook: net follows the price.           *)
OutOfStep(d) == d.net # d.price \/ "sync-payment" \in d.tags
AtWork(d) == d.status = "open" /\ (OutOfStep(d) \/ "reprice" \in d.tags)

Recompute(i) ==
    /\ draft[i].status = "open" /\ OutOfStep(draft[i])
    /\ draft' = [draft EXCEPT ![i].net = draft[i].price, ![i].tags = @ \ {"sync-payment"}]
    /\ UNCHANGED <<today, row, sent, mailed, sweep, desk, hook, deleted, followUp, swept,
                   received, vouchers, budget>>

(* handleRecalculatePriceTag: a locked draft only loses the tag.           *)
EngineReprice(i) ==
    /\ draft[i].status = "open" /\ "reprice" \in draft[i].tags
    /\ LET tags == draft[i].tags
           kept == RelockAfterReprice(tags \ {"reprice"})
       IN IF RateLocked(tags)
          THEN draft' = [draft EXCEPT ![i].tags = kept]
          ELSE \E p \in MarketPrice[draft[i].piece] :
                 draft' = [draft EXCEPT ![i].tags = kept, ![i].price = p]
    /\ UNCHANGED <<today, row, sent, mailed, sweep, desk, hook, deleted, followUp, swept,
                   received, vouchers, budget>>

(* Somebody or something asks for a reprice.                               *)
Nudge(i) ==
    /\ draft[i].status = "open"
    /\ "reprice" \notin draft[i].tags
    /\ draft' = [draft EXCEPT ![i].tags = @ \cup {"reprice"}]
    /\ Happens("nudge")
    /\ UNCHANGED <<today, row, sent, mailed, sweep, desk, hook, deleted, followUp, swept,
                   received, vouchers>>

(* Staff put a piece on the draft in place of what is there, at the        *)
(* catalog's price of the day.                                             *)
Edit(i, p) ==
    /\ draft[i].status = "open"
    /\ \E price \in MarketPrice[p] :
         /\ <<p, price>> # <<draft[i].piece, draft[i].price>>
         /\ draft' = [draft EXCEPT ![i].piece = p, ![i].price = price]
    /\ Happens("edit")
    /\ UNCHANGED <<today, row, sent, mailed, sweep, desk, hook, deleted, followUp, swept,
                   received, vouchers>>

Delete(i) ==
    /\ draft[i].status = "open"
    /\ draft' = [draft EXCEPT ![i] = [@ EXCEPT !.status = "deleted"]]
    /\ deleted' = deleted \cup {i}
    /\ Happens("delete")
    /\ UNCHANGED <<today, row, sent, mailed, sweep, desk, hook, followUp, swept,
                   received, vouchers>>

(* Staff turn a draft that is paid into the order.                         *)
Complete(i) ==
    /\ draft[i].status = "open" /\ SumOf(draft[i].legs) >= draft[i].net
    /\ draft' = [draft EXCEPT ![i].status = "completed"]
    /\ UNCHANGED <<today, row, sent, mailed, sweep, desk, hook, deleted, followUp, swept,
                   received, vouchers, budget>>

(* The day ends once a sweep has gone through the plan and what was under  *)
(* way is done: the steps of all of these take seconds or minutes.         *)
NextDay ==
    /\ today < LastDay
    /\ Active /\ swept /\ ~followUp
    /\ sweep = Idle /\ desk = Idle /\ hook = Idle
    /\ \A i \in Draft : ~AtWork(draft[i])
    /\ today' = today + 1
    /\ swept' = FALSE
    /\ UNCHANGED <<row, draft, sent, mailed, sweep, desk, hook, deleted, followUp,
                   received, vouchers, budget>>

Crash ==
    /\ sweep # Idle \/ desk # Idle \/ hook # Idle \/ followUp
    /\ Restart
    /\ UNCHANGED <<today, row, draft, sent, mailed, deleted, received, vouchers>>

Sweeping ==
    \/ SweepList \/ SweepRead \/ SweepComplete \/ FinishChange \/ ChangeVoucher
    \/ StartFinalReprice \/ FinalMarked \/ FinalPrice \/ FinalPriceMail
    \/ PutBack \/ KeepSnapshot \/ Acknowledge \/ Forfeit \/ ForfeitVoucher \/ Release
    \/ SendMessage \/ RestoreSweep

Restoring == (\E i \in Draft : RestoreWebhook(i)) \/ RestoreComplete \/ RestoreCreate \/ RestoreRekey

Serving ==
    \/ \E mode \in Mode : StartRead(mode)
    \/ StartInsert \/ StartLock \/ ChangeRead \/ ChangeTags \/ ChangePending

DraftWebhook == \E i \in Draft : Recompute(i) \/ EngineReprice(i)

PlanNext ==
    \/ Sweeping \/ Restoring \/ Serving \/ DraftWebhook
    \/ \E a \in PayAmount : Pay(a)
    \/ \E i \in Draft : Nudge(i) \/ Delete(i) \/ Complete(i) \/ \E p \in Piece : Edit(i, p)
    \/ NextDay \/ Crash

(* Timers, webhooks and requests that have begun go on, and days pass.     *)
Fairness ==
    /\ WF_planVars(Sweeping) /\ WF_planVars(Restoring) /\ WF_planVars(DraftWebhook)
    /\ WF_planVars(StartInsert \/ StartLock \/ ChangeTags \/ ChangePending)
    /\ WF_planVars(NextDay)

PlanSpec == PlanInit /\ [][PlanNext]_planVars /\ Fairness

(***************************************************************************)
(* Properties.                                                             *)
(***************************************************************************)
Leg == [date : Day, value : Nat]
PlanSnapshot == [piece : Piece, price : Nat, net : Nat, tags : SUBSET Tag, legs : Seq(Leg)]
OnDraft == [status : {"open", "completed", "deleted"}, piece : Piece, price : Nat, net : Nat,
            tags : SUBSET Tag, legs : Seq(Leg)]
PlanRow == [status : {"active", "completed", "forfeited"}, did : Draft, mode : Mode \cup {"equal"},
            total : Nat, gold : Nat, final : Nat \cup {NoPrice},
            changes : Seq([date : Day, total : Nat]), pending : BOOLEAN,
            lines : Piece, snap : PlanSnapshot, ack : Nat]

(* Every variable holds what the code may put there.                       *)
PlanTypeOK ==
    /\ today \in Day
    /\ row \in PlanRow \cup {NoRow}
    /\ draft \in [Draft -> OnDraft \cup {Gone}]
    /\ sent \subseteq Message /\ mailed \subseteq Message
    /\ deleted \subseteq Draft
    /\ followUp \in BOOLEAN /\ swept \in BOOLEAN
    /\ received \in Nat
    /\ vouchers \in Seq([why : {"change", "closed"}, value : Nat])

(* Money the customer was told has arrived is on the plan's draft, and in  *)
(* the copy the draft is rebuilt from: deleting the draft loses none of it *)
(* (sweep.js writes the snapshot before it acknowledges).                  *)
AcknowledgedIsKept ==
    Active => /\ SumOf(row.snap.legs) >= row.ack
              /\ TheDraft.status = "open" => SumOf(TheDraft.legs) >= row.ack

(* A plan that closes pays its customer back once, whatever is interrupted *)
(* and repeated: at most one closing voucher, of no more than was paid     *)
(* (forfeit.js marks the row before it makes the voucher).                 *)
OneClosingVoucher ==
    LET closing == SelectSeq(vouchers, LAMBDA v : v.why = "closed")
    IN /\ Len(closing) <= 1
       /\ closing # <<>> => row.status = "forfeited" /\ closing[1].value <= received

(* The money of a plan is kept, or paid back once.                         *)
MoneyKept == PlanTypeOK /\ AcknowledgedIsKept /\ OneClosingVoucher

(* No plan is closed before its customer was warned (schedule.js: "The     *)
(* customer is warned at WARN_DAYS / LAST_WARN_DAYS").                     *)
WarnedFirst ==
    row.status = "forfeited" => \E m \in mailed : m[2] \in {"warn", "last"}

(* A message marked as sent went out: an interrupted sweep sends a message *)
(* again, it never skips one (store.js).                                   *)
MarkedWasMailed ==
    \A m \in sent : m[2] \in {"due", "overdue", "warn", "last", "final_price"} =>
        \/ m \in mailed
        \/ m = <<N, "due", 0>> /\ <<N, "final_price", 0>> \in mailed

(* The rows a plan shows are kept: pay the first one today and each later  *)
(* one on its due date as asked, and every due date asks for what its row  *)
(* said (schedule.js scheduleRows).                                        *)
PaidAsAsked(legs, ask, k, q) ==
    legs \o [j \in 1 .. q - k |->
               [date |-> IF j = 1 THEN today ELSE DueDate(k + j - 1), value |-> ask[k + j - 1]]]

RowsAreKept ==
    Active =>
        LET st == StateOf(row, TheDraft)
            ask == ScheduleRows(st)
        IN \A q \in st.k + 1 .. N :
             DueDate(q) <= LastDay =>
               PlanState(row, PaidAsAsked(TheDraft.legs, ask, st.k, q), DueDate(q)).dueNow = ask[q]

(* What the plan says its next installment will ask for is what it asks    *)
(* for on that day when nothing was paid in between, a missed installment  *)
(* carried forward included.                                               *)
UpcomingIsKept ==
    Active =>
        LET st == StateOf(row, TheDraft)
        IN st.upcoming > 0 /\ DueDate(st.k + 1) <= LastDay =>
             PlanState(row, TheDraft.legs, DueDate(st.k + 1)).dueNow = st.upcoming

(* Any payment the plan accepts stops its closing for silence on that day. *)
PaymentKeepsPlan ==
    Active =>
        LET st == StateOf(row, TheDraft)
        IN \A a \in PayAmount :
             Payable(st, a) /\ today < DueDate(N) + LastCloseAfter =>
               ~PlanState(row, Append(TheDraft.legs, [date |-> today, value |-> a]), today).closure.close

(* The customer is told in time and asked for what was announced.          *)
ScheduleKept ==
    WarnedFirst /\ MarkedWasMailed /\ RowsAreKept /\ UpcomingIsKept /\ PaymentKeepsPlan

(* "never adopt pieces the plan is not for, nor a line at a price other    *)
(* than the plan's" (sweep.js, of the restore copy): once the lock is on,  *)
(* the piece and price of the copy move only with the price of the plan.   *)
CopyKeepsPrice ==
    [][Active /\ ~row.pending /\ "buy-plan" \in row.snap.tags
         /\ row'.status = "active" /\ row'.changes = row.changes
       => <<row'.snap.piece, row'.snap.price>> = <<row.snap.piece, row.snap.price>>]_planVars

(* The final price of a floating plan is set once: only a product change   *)
(* moves it again (finalStep, finishChange).                               *)
FinalPriceStands ==
    [][row.status # "none" /\ row'.status # "none" /\ row.final # NoPrice /\ ~row.pending
       => row'.final = row.final]_planVars

(* The price a plan was promised stands.                                   *)
PriceKept == CopyKeepsPrice /\ FinalPriceStands

(* A final reprice that was started and whose lock tag has gone: the draft *)
(* came back from a copy taken before it, or a product change dropped it.  *)
Stranded ==
    /\ Active /\ AwaitingFinalPrice(row) /\ FinalMark \in sent
    /\ TheDraft.status = "open" /\ "rate-locked" \notin TheDraft.tags

(* A plan does not stay open unpaid: it is paid or it ends, stranded plans *)
(* (PriceIsFixed) aside.                                                   *)
PlanEnds ==
    Active ~> (~Active \/ SumOf(TheDraft.legs) >= CurrentTotal(row) \/ Stranded)

(* "a follow-up 5 minutes later, once the collect figures are recomputed,  *)
(* fixes the final price" (sweep.js): a final reprice once started ends in *)
(* a final price, or the plan ends.                                        *)
PriceIsFixed ==
    Active /\ AwaitingFinalPrice(row) /\ FinalMark \in sent
        ~> ~Active \/ row.final # NoPrice \/ SumOf(TheDraft.legs) >= CurrentTotal(row)
=============================================================================
