--------------------------- MODULE LoyaltyBenefit ---------------------------
(***************************************************************************)
(* The loyalty benefit of one member in the month of an occasion: the tier *)
(* rate, which any number of purchases get, and the birthday bonus, which  *)
(* one purchase of the month gets (src/modules/loyalty: draft.js,          *)
(* online.js, promo.js, and the redemption side of earn.js and sweep.js).  *)
(*                                                                         *)
(* In the online shop the benefit is a one-time discount code, minted for  *)
(* a cart and recorded in loyalty_redemptions as pending; the order makes  *)
(* it used.  In the store it is a record on the draft (custom.             *)
(* loyalty_applied) that the reprice reads, and the row is inserted when   *)
(* the draft is converted.  Requests run one await at a time.              *)
(*                                                                         *)
(* The ledger read behind the bonus, the rows, the tags and the discount   *)
(* metafields are kept; rupees, the making cap, guests and the hourly      *)
(* limit on codes are left out.                                            *)
(***************************************************************************)
EXTENDS Naturals, Sequences, FiniteSets

CONSTANTS Code,      \* one-time codes that may be minted
          Draft,     \* draft orders of the member
          Cart,      \* carts of the member in the online shop
          Pieces,    \* what the lines of a draft may be
          Plain,     \* those with no eligible piece
          None,
          Case       \* bound: what else may happen, and how many events

(* What goes beyond one request after another, each prompt and successful. *)
Trouble == {"counter",  \* the benefit is asked for while another draft has it
            "refresh",  \* Apply is pressed on a draft that has the benefit
            "amount",   \* the price of a cart changes
            "late",     \* an order's webhook comes after other requests
            "early",    \* staff act on a draft while its update is pending
            "again",    \* webhooks of sales are delivered twice
            "stale",    \* an update of a draft is delivered late, or once more
            "fault",    \* a call fails or the process restarts
            "overlap"}  \* requests run at the same time

ASSUME LoyaltyBenefitAssumption ==
    /\ None \notin Code \cup Draft \cup Cart \cup Pieces
    /\ Code \cap Draft = {}
    /\ {"shop", "hook", "sweep"} \cap Draft = {}   \* the other slots
    /\ Plain \subseteq Pieces
    /\ \A k \in Case : /\ k.trouble \subseteq Trouble
                       /\ k.drafts \subseteq Draft \* what the member comes with
                       /\ k.carts \subseteq Cart
                       /\ k.entries \in BOOLEAN    \* custom.line_discounts exists
                       /\ k.events \in Nat

VARIABLES case,     \* the case of Case this behaviour is about
          row,      \* loyalty_redemptions, online: [Code -> row]
          node,     \* [Code -> the discount in Shopify]
          store,    \* loyalty_redemptions, store: [Draft -> Seq(with the bonus?)]
          doc,      \* [Draft -> the draft in Shopify]
          cart,     \* [Cart -> 0, 1: the catalogue price of its pieces]
          member,   \* has the customer reached a tier?
          run,      \* [Slot -> the request under way there]
          hooks,    \* codes and drafts whose sale has not been handled
          handed,   \* codes the storefront was given
          ordered,  \* codes used on an order
          events    \* events left

vars == <<case, row, node, store, doc, cart, member, run, hooks, handed, ordered, events>>

Shop == "shop"                        \* a request of the storefront
Hook == "hook"                        \* a webhook of a sale
Sweep == "sweep"                      \* the daily sweep
Slot == Draft \cup {Shop, Hook, Sweep}   \* a draft's own slot is its update chain
Idle == [pc |-> "idle"]

Busy(s) == run[s].pc # "idle"
Quiet == \A s \in Slot : ~Busy(s)
Allowed(t) == t \in case.trouble
Happens == events > 0 /\ events' = events - 1

(* Requests run at the same time only if they may overlap, and the webhook *)
(* of a sale comes before anything else unless it is late.                 *)
CanStart(s) ==
    /\ ~Busy(s)
    /\ Allowed("overlap") \/ Quiet
    /\ s = Hook \/ Allowed("late") \/ hooks = {}

Goto(s, pc) == run' = [run EXCEPT ![s].pc = pc]
Done(s) == run' = [run EXCEPT ![s] = Idle]

NoRow == [status |-> "none", cart |-> None, price |-> 0, bonus |-> FALSE, promo |-> FALSE, late |-> FALSE]
NoLoyalty == [lines |-> None, bonus |-> FALSE]        \* custom.loyalty_applied is absent

Init == \E k \in Case :
    /\ case = k /\ events = k.events
    /\ row = [c \in Code |-> NoRow]
    /\ node = [c \in Code |-> "none"]
    /\ store = [d \in Draft |-> <<>>]
    /\ doc \in [Draft -> {[state |-> "open", lines |-> p, tags |-> {}, loyalty |-> NoLoyalty,
                           code |-> FALSE, mirror |-> FALSE, price |-> "full", changed |-> FALSE,
                           sent |-> {}] : p \in Pieces \ Plain}]
    /\ cart = [k2 \in Cart |-> 0]
    /\ member = TRUE
    /\ run = [s \in Slot |-> Idle]
    /\ hooks = {} /\ handed = {} /\ ordered = {}

(***************************************************************************)
(* ledger.js: who has this month's bonus.                                  *)
(***************************************************************************)
\* Faulty Pending: the rows of every status.
PendingAny(c) == row[c].status # "none" /\ ~row[c].late

Pending(c) == row[c].status = "pending" /\ ~row[c].late

\* Faulty TakenOnline: an online code takes the bonus when it is used.
TakenOnlineUsed(c) == row[c].bonus /\ row[c].status = "used"

TakenOnline(c) == row[c].bonus /\ (row[c].status = "used" \/ Pending(c))

TakenInStore(d) == \E i \in DOMAIN store[d] : store[d][i]

(* occasionRedemptionSince: but for the draft being priced and for this    *)
(* cart's own codes.                                                       *)
BonusFree(d, codes) ==
    /\ \A c \in Code \ codes : ~TakenOnline(c)
    /\ \A e \in Draft \ {d} : ~TakenInStore(e)

(* An unreachable ledger gives the bonus.                                  *)
BonusRead(d, codes) ==
    {BonusFree(d, codes)} \cup (IF Allowed("fault") THEN {TRUE} ELSE {})

(***************************************************************************)
(* The store: staff, the update chain of a draft, the conversion.          *)
(***************************************************************************)
Has(d) == doc[d].loyalty # NoLoyalty
Asked(d) == doc[d].tags \cap {"apply", "remove"} # {}
CounterFree(d) == \A e \in Draft \ {d} : doc[e].state = "open" => ~Has(e) /\ ~Asked(e)

(* Staff act on an open draft that no request is working on.               *)
Touch(d) ==
    /\ Happens
    /\ d \in case.drafts
    /\ doc[d].state = "open"
    /\ ~doc[d].changed \/ Allowed("early")
    /\ ~Busy(d)
    /\ Allowed("overlap") \/ Quiet
    /\ Allowed("late") \/ hooks = {}
    /\ UNCHANGED <<case, row, node, store, cart, member, run, handed, ordered>>

(* Shopify sends the draft as it is then; "sent" keeps the updates that    *)
(* may still come, or come again.                                          *)
Sent(o) == IF Allowed("stale") THEN o.sent \cup {[tags |-> o.tags, lines |-> o.lines]} ELSE o.sent

Edit(d, new) == doc' = [doc EXCEPT ![d] = [new EXCEPT !.sent = Sent(new)]] /\ UNCHANGED hooks
Tagged(d, t) == [doc[d] EXCEPT !.tags = @ \cup {t}, !.changed = TRUE]

PressApply(d) ==
    /\ Touch(d)
    /\ Allowed("refresh") \/ ~Has(d)
    /\ Allowed("counter") \/ (CounterFree(d) /\ ~Busy(Shop))
    /\ Edit(d, Tagged(d, "apply"))

PressRemove(d) == Touch(d) /\ "on" \in doc[d].tags /\ Edit(d, Tagged(d, "remove"))

AskCode(d) == Touch(d) /\ ~doc[d].code /\ Edit(d, Tagged(d, "code"))

(* The code typed into the panel: the metafields, with a reprice.          *)
TypeCode(d) ==
    Touch(d) /\ ~doc[d].code /\ Edit(d, [Tagged(d, "reprice") EXCEPT !.code = TRUE])

(* New lines come at their catalogue price.                                *)
ChangeLines(d, p) ==
    /\ Touch(d)
    /\ p # doc[d].lines
    /\ Edit(d, [doc[d] EXCEPT !.lines = p, !.price = "full", !.changed = TRUE])

Convert(d) ==
    /\ Touch(d)
    /\ doc' = [doc EXCEPT ![d].state = "converted"]
    /\ hooks' = hooks \cup {d}

(* A pass works on the tags and the lines of the webhook's payload: the    *)
(* draft's own, unless the update is an old one.                           *)
Pass(p) == [pc |-> "price", tags |-> p.tags, lines |-> p.lines,
            had |-> FALSE, next |-> {}, bonus |-> FALSE, code |-> FALSE]

ChainStart(d) ==
    /\ CanStart(d)
    /\ doc[d].state = "open" /\ doc[d].changed
    /\ doc' = [doc EXCEPT ![d].changed = FALSE, ![d].sent = Sent(doc[d])]
    /\ run' = [run EXCEPT ![d] = Pass(doc[d])]
    /\ UNCHANGED <<case, row, node, store, cart, member, hooks, handed, ordered, events>>

ChainAgain(d) ==
    /\ Allowed("stale") /\ Happens
    /\ CanStart(d)
    /\ doc[d].state = "open"
    /\ \E p \in doc[d].sent : run' = [run EXCEPT ![d] = Pass(p)]
    /\ UNCHANGED <<case, row, node, store, doc, cart, member, hooks, handed, ordered>>

(* handleRecalculatePriceTag: the record beats an order-level code; with   *)
(* neither, and no per-line list, what discount_applied mirrors is taken   *)
(* for a flat discount.  Lines and tags of the payload are written back.   *)
PriceOf(d) ==
    IF Has(d) THEN IF doc[d].loyalty.lines # run[d].lines THEN "full"
                   ELSE IF doc[d].loyalty.bonus THEN "bonus" ELSE "tier"
    ELSE IF doc[d].code THEN "code"
    ELSE IF doc[d].mirror /\ ~case.entries THEN "left" ELSE "full"

MirrorOf(d) == PriceOf(d) # "full" \/ (Has(d) /\ doc[d].mirror)

Price(d) ==
    /\ run[d].pc = "price"
    /\ IF "reprice" \in run[d].tags
       THEN doc' = [doc EXCEPT ![d].lines = run[d].lines, ![d].price = PriceOf(d),
                               ![d].mirror = MirrorOf(d),
                               ![d].tags = run[d].tags \ {"reprice"}, ![d].changed = TRUE]
       ELSE UNCHANGED doc
    /\ Goto(d, "code")
    /\ UNCHANGED <<case, row, node, store, cart, member, hooks, handed, ordered, events>>

(* handleApplyDiscountTag: refused while the tag says loyalty is on.       *)
ApplyCode(d) ==
    /\ run[d].pc = "code"
    /\ LET kept == run[d].tags \ {"code"} IN
       IF "code" \notin run[d].tags THEN UNCHANGED doc
       ELSE IF "on" \in run[d].tags
            THEN doc' = [doc EXCEPT ![d].tags = kept, ![d].changed = TRUE]
            ELSE doc' = [doc EXCEPT ![d].tags = kept \cup {"reprice"}, ![d].code = TRUE,
                                    ![d].changed = TRUE]
    /\ Goto(d, "loyalty")
    /\ UNCHANGED <<case, row, node, store, cart, member, hooks, handed, ordered, events>>

Ours == {"apply", "remove", "on"}

(* takeOff, and the refusal of an application: the record goes first.      *)
TakeOff(d) == run' = [run EXCEPT ![d].pc = "forget", ![d].next = (run[d].tags \ Ours) \cup {"reprice"}]

Refuse(d, had) ==
    run' = [run EXCEPT ![d].pc = "forgetOnly",
                       ![d].next = (run[d].tags \ Ours) \cup (IF had THEN {"reprice"} ELSE {})]

(* otherDiscountOnDraft and the legacy flat discount of evaluateDraft.     *)
OtherDiscount(d) == doc[d].code \/ (~Has(d) /\ ~case.entries /\ doc[d].mirror)

(* handleLoyaltyStep, up to the decision.                                  *)
ReadDraft(d) ==
    /\ run[d].pc = "loyalty"
    /\ LET tags == run[d].tags IN
       CASE tags \cap Ours = {} -> Done(d)
         [] "remove" \in tags -> TakeOff(d)
         [] "apply" \in tags /\ "remove" \notin tags ->
              IF OtherDiscount(d) THEN Refuse(d, Has(d))
              ELSE run' = [run EXCEPT ![d].pc = "judge", ![d].had = Has(d)]
         [] OTHER ->
              IF ~Has(d) THEN run' = [run EXCEPT ![d].pc = "tags", ![d].next = tags \ {"on"}]
              ELSE IF doc[d].code THEN TakeOff(d)
              ELSE IF doc[d].loyalty.lines = run[d].lines THEN Done(d)
              ELSE run' = [run EXCEPT ![d].pc = "judge", ![d].had = TRUE]
    /\ UNCHANGED <<case, row, node, store, doc, cart, member, hooks, handed, ordered, events>>

(* evaluateDraft and computeLoyalty: a tier, an eligible piece, the bonus  *)
(* if nobody took it.                                                      *)
Judge(d) ==
    /\ run[d].pc = "judge"
    /\ IF member /\ run[d].lines \notin Plain
       THEN \E b \in BonusRead(d, {}) : run' = [run EXCEPT ![d].pc = "write", ![d].bonus = b]
       ELSE IF "apply" \in run[d].tags THEN Refuse(d, run[d].had) ELSE TakeOff(d)
    /\ UNCHANGED <<case, row, node, store, doc, cart, member, hooks, handed, ordered, events>>

WriteRecord(d) ==
    /\ run[d].pc = "write"
    /\ doc' = [doc EXCEPT ![d].loyalty = [lines |-> run[d].lines, bonus |-> run[d].bonus]]
    /\ run' = [run EXCEPT ![d].pc = "tags", ![d].next = (run[d].tags \ {"apply"}) \cup {"on", "reprice"}]
    /\ UNCHANGED <<case, row, node, store, cart, member, hooks, handed, ordered, events>>

(* The failure of a delete is logged and the next statement runs.          *)
Forget(d) ==
    /\ run[d].pc \in {"forget", "forgetOnly"}
    /\ \/ doc' = [doc EXCEPT ![d].loyalty = NoLoyalty] /\ UNCHANGED events
       \/ Allowed("fault") /\ Happens /\ UNCHANGED doc
    /\ Goto(d, IF run[d].pc = "forget" THEN "unmirror" ELSE "tags")
    /\ UNCHANGED <<case, row, node, store, cart, member, hooks, handed, ordered>>

\* Faulty Unmirror: takeOff leaves discount_applied.
UnmirrorNot(d) ==
    /\ run[d].pc = "unmirror"
    /\ Goto(d, "tags")
    /\ UNCHANGED <<case, row, node, store, doc, cart, member, hooks, handed, ordered, events>>

Unmirror(d) ==
    /\ run[d].pc = "unmirror"
    /\ \/ doc' = [doc EXCEPT ![d].mirror = FALSE] /\ UNCHANGED events
       \/ Allowed("fault") /\ Happens /\ UNCHANGED doc
    /\ Goto(d, "tags")
    /\ UNCHANGED <<case, row, node, store, cart, member, hooks, handed, ordered>>

WriteTags(d) ==
    /\ run[d].pc = "tags"
    /\ doc' = [doc EXCEPT ![d].tags = run[d].next, ![d].changed = TRUE]
    /\ Done(d)
    /\ UNCHANGED <<case, row, node, store, cart, member, hooks, handed, ordered, events>>

(***************************************************************************)
(* The online shop: createCartCode and createPromoCode.                    *)
(***************************************************************************)
ChangePrice(k) ==
    /\ Allowed("amount") /\ Happens
    /\ k \in case.carts /\ cart[k] = 0
    /\ cart' = [cart EXCEPT ![k] = 1]
    /\ UNCHANGED <<case, row, node, store, doc, member, run, hooks, handed, ordered>>

(* Orders that were refunded or cancelled take the member below the tier.  *)
FallBelow ==
    /\ Happens
    /\ member
    /\ member' = FALSE
    /\ UNCHANGED <<case, row, node, store, doc, cart, run, hooks, handed, ordered>>

(* Two hours pass: Shopify refuses the code from then on.                  *)
Lapse(c) ==
    /\ Happens
    /\ Pending(c) /\ c \notin ordered
    /\ row' = [row EXCEPT ![c].late = TRUE]
    /\ UNCHANGED <<case, node, store, doc, cart, member, run, hooks, handed, ordered>>

(* The order reaches the hook once its burst of deliveries is over.        *)
Buy(c) ==
    /\ Happens
    /\ Allowed("overlap") \/ Quiet
    /\ Allowed("late") \/ hooks = {}
    /\ c \in handed \ ordered /\ node[c] = "live" /\ ~row[c].late
    /\ ordered' = ordered \cup {c}
    /\ hooks' = hooks \cup {c}
    /\ UNCHANGED <<case, row, node, store, doc, cart, member, run, handed>>

Ask(k, promo) ==
    /\ Happens
    /\ k \in case.carts
    /\ CanStart(Shop)
    /\ Allowed("counter") \/ \A d \in Draft : doc[d].state = "open" => ~Has(d) /\ ~Asked(d)
    /\ run' = [run EXCEPT ![Shop] = [pc |-> "live", cart |-> k, promo |-> promo, via |-> FALSE, old |-> None,
                                     same |-> {}, price |-> cart[k], bonus |-> FALSE, code |-> None]]
    /\ UNCHANGED <<case, row, node, store, doc, cart, member, hooks, handed, ordered>>

(* The live codes of the same cart.                                        *)
ReadLive ==
    /\ run[Shop].pc = "live"
    /\ run' = [run EXCEPT ![Shop].same = {c \in Code : Pending(c) /\ row[c].cart = run[Shop].cart},
                          ![Shop].pc = "benefit"]
    /\ UNCHANGED <<case, row, node, store, doc, cart, member, hooks, handed, ordered, events>>

(* loyaltyForCart.  Loyalty asked for beside a live promo code becomes the *)
(* promo request; a promo without the tier is plain and not followed here. *)
ReadBenefit ==
    /\ run[Shop].pc = "benefit"
    /\ IF ~member THEN Done(Shop)
       ELSE IF ~run[Shop].promo /\ \E c \in run[Shop].same : row[c].promo
       THEN run' = [run EXCEPT ![Shop].pc = "live", ![Shop].promo = TRUE, ![Shop].via = TRUE]
       ELSE \E b \in BonusRead(None, run[Shop].same) :
              run' = [run EXCEPT ![Shop].pc = "mint", ![Shop].bonus = b]
    /\ UNCHANGED <<case, row, node, store, doc, cart, member, hooks, handed, ordered, events>>

(* A live code of the same cart and the same amount is handed back, or a   *)
(* new one is minted in Shopify.                                           *)
Reusable(c) == /\ c \in run[Shop].same
               /\ row[c].promo = run[Shop].promo
               /\ row[c].price = run[Shop].price /\ row[c].bonus = run[Shop].bonus

Mint ==
    /\ run[Shop].pc = "mint"
    /\ IF \E c \in Code : Reusable(c)
       THEN /\ \E c \in Code : Reusable(c) /\ handed' = handed \cup {c}
            /\ Done(Shop)
            /\ UNCHANGED node
       ELSE /\ \E c \in Code : node[c] = "none"
            /\ LET c == CHOOSE x \in Code : node[x] = "none" IN
               /\ node' = [node EXCEPT ![c] = "live"]
               /\ run' = [run EXCEPT ![Shop].pc = "insert", ![Shop].code = c]
            /\ UNCHANGED handed
    /\ UNCHANGED <<case, row, store, doc, cart, member, hooks, ordered, events>>

Insert ==
    /\ run[Shop].pc = "insert"
    /\ row' = [row EXCEPT ![run[Shop].code] =
                 [status |-> "pending", cart |-> run[Shop].cart, price |-> run[Shop].price,
                  bonus |-> run[Shop].bonus, promo |-> run[Shop].promo, late |-> FALSE]]
    /\ Goto(Shop, IF run[Shop].promo THEN "retire" ELSE "answer")
    /\ UNCHANGED <<case, node, store, doc, cart, member, hooks, handed, ordered, events>>

(* supersedeCodes: each code that was replaced loses its discount, whose   *)
(* deletion may fail, and then its row is expired, whatever it says by now. *)
Retire ==
    /\ run[Shop].pc = "retire"
    /\ IF run[Shop].same = {} THEN Goto(Shop, "answer") /\ UNCHANGED <<node, events>>
       ELSE \E c \in run[Shop].same :
              /\ run' = [run EXCEPT ![Shop].pc = "retired", ![Shop].same = @ \ {c},
                                    ![Shop].old = c]
              /\ \/ node' = [node EXCEPT ![c] = "gone"] /\ UNCHANGED events
                 \/ Allowed("fault") /\ Happens /\ UNCHANGED node
    /\ UNCHANGED <<case, row, store, doc, cart, member, hooks, handed, ordered>>

Retired ==
    /\ run[Shop].pc = "retired"
    /\ row' = [row EXCEPT ![run[Shop].old].status = "expired"]
    /\ Goto(Shop, "retire")
    /\ UNCHANGED <<case, node, store, doc, cart, member, hooks, handed, ordered, events>>

Answer ==
    /\ run[Shop].pc = "answer"
    /\ handed' = handed \cup {run[Shop].code}
    /\ Done(Shop)
    /\ UNCHANGED <<case, row, node, store, doc, cart, member, hooks, ordered, events>>

(***************************************************************************)
(* A sale is heard of: recordStoreRedemption for a draft, settleOnlineCode *)
(* for an order with a code.                                               *)
(***************************************************************************)
HookStart(h) ==
    /\ CanStart(Hook)
    /\ \/ hooks' = hooks \ {h} /\ UNCHANGED events
       \/ Allowed("again") /\ Happens /\ UNCHANGED hooks
    /\ run' = [run EXCEPT ![Hook] = [pc |-> IF h \in Draft THEN "look" ELSE "code", sale |-> h]]
    /\ UNCHANGED <<case, row, node, store, doc, cart, member, handed, ordered>>

LookStore ==
    /\ run[Hook].pc = "look"
    /\ LET d == run[Hook].sale IN
       IF "on" \in doc[d].tags /\ store[d] = <<>> THEN Goto(Hook, "record") ELSE Done(Hook)
    /\ UNCHANGED <<case, row, node, store, doc, cart, member, hooks, handed, ordered, events>>

RecordStore ==
    /\ run[Hook].pc = "record"
    /\ LET d == run[Hook].sale IN
       IF Has(d) THEN store' = [store EXCEPT ![d] = Append(@, doc[d].loyalty.bonus)]
       ELSE UNCHANGED store
    /\ Done(Hook)
    /\ UNCHANGED <<case, row, node, doc, cart, member, hooks, handed, ordered, events>>

ReadCode ==
    /\ run[Hook].pc = "code"
    /\ IF row[run[Hook].sale].status = "used" THEN Done(Hook) ELSE Goto(Hook, "use")
    /\ UNCHANGED <<case, row, node, store, doc, cart, member, hooks, handed, ordered, events>>

UseCode ==
    /\ run[Hook].pc = "use"
    /\ row' = [row EXCEPT ![run[Hook].sale].status = "used"]
    /\ Goto(Hook, "tidy")
    /\ UNCHANGED <<case, node, store, doc, cart, member, hooks, handed, ordered, events>>

Tidy ==
    /\ run[Hook].pc = "tidy"
    /\ node' = [node EXCEPT ![run[Hook].sale] = "gone"]
    /\ Done(Hook)
    /\ UNCHANGED <<case, row, store, doc, cart, member, hooks, handed, ordered, events>>

(***************************************************************************)
(* The daily sweep: expireCodes, then recheckOrders, which takes every     *)
(* recent order through processOrder again.                                *)
(***************************************************************************)
Lapsed == {c \in Code : row[c].status = "pending" /\ row[c].late}
Unsettled == {c \in ordered : row[c].status # "used"}

SweepStart ==
    /\ CanStart(Sweep)
    /\ Lapsed # {} \/ Unsettled # {}
    /\ run' = [run EXCEPT ![Sweep] = [pc |-> "expire", rows |-> Lapsed, code |-> None]]
    /\ UNCHANGED <<case, row, node, store, doc, cart, member, hooks, handed, ordered, events>>

ExpireNode ==
    /\ run[Sweep].pc = "expire"
    /\ IF run[Sweep].rows = {} THEN Goto(Sweep, "recheck") /\ UNCHANGED node
       ELSE \E c \in run[Sweep].rows :
              /\ node' = [node EXCEPT ![c] = "gone"]
              /\ run' = [run EXCEPT ![Sweep].pc = "expired", ![Sweep].code = c,
                                    ![Sweep].rows = @ \ {c}]
    /\ UNCHANGED <<case, row, store, doc, cart, member, hooks, handed, ordered, events>>

(* The row is expired by its id, whatever it says by now.                  *)
ExpireRow ==
    /\ run[Sweep].pc = "expired"
    /\ row' = [row EXCEPT ![run[Sweep].code].status = "expired"]
    /\ Goto(Sweep, "expire")
    /\ UNCHANGED <<case, node, store, doc, cart, member, hooks, handed, ordered, events>>

\* Faulty Recheck: no order is processed again.
RecheckNone ==
    /\ run[Sweep].pc = "recheck"
    /\ Done(Sweep)
    /\ UNCHANGED <<case, row, node, store, doc, cart, member, hooks, handed, ordered, events>>

Recheck ==
    /\ run[Sweep].pc = "recheck"
    /\ IF Unsettled = {} THEN Done(Sweep) /\ UNCHANGED row
       ELSE /\ \E c \in Unsettled : row' = [row EXCEPT ![c].status = "used"]
            /\ UNCHANGED run
    /\ UNCHANGED <<case, node, store, doc, cart, member, hooks, handed, ordered, events>>

(***************************************************************************)
(* Failures.                                                               *)
(***************************************************************************)
(* A call fails: a step of the chain is given up alone, a promo that could *)
(* not be recorded is taken back, and the loyalty request that asked for   *)
(* it goes on without it.                                                  *)
Fails(s) ==
    /\ Allowed("fault") /\ Happens
    /\ Busy(s)
    /\ CASE run[s].pc = "price" -> Goto(s, "code") /\ UNCHANGED node
         [] run[s].pc = "code" /\ s \in Draft -> Goto(s, "loyalty") /\ UNCHANGED node
         [] s = Shop /\ run[s].pc \in {"mint", "insert"} /\ run[s].promo ->
              /\ node' = IF run[s].pc = "insert" THEN [node EXCEPT ![run[s].code] = "gone"] ELSE node
              /\ IF run[s].via
                 THEN run' = [run EXCEPT ![s].pc = "mint", ![s].promo = FALSE, ![s].via = FALSE]
                 ELSE Done(s)
         [] s = Shop /\ run[s].pc = "retired" -> Goto(s, "retire") /\ UNCHANGED node
         [] OTHER -> Done(s) /\ UNCHANGED node
    /\ UNCHANGED <<case, row, store, doc, cart, member, hooks, handed, ordered>>

(* A restart ends every request; what waits in the process, the burst of   *)
(* an order's deliveries or a webhook acknowledged already, may be lost.   *)
Restart ==
    /\ Allowed("fault") /\ Happens
    /\ run' = [s \in Slot |-> Idle]
    /\ hooks' \in {hooks, {}}
    /\ UNCHANGED <<case, row, node, store, doc, cart, member, handed, ordered>>

ChainStep(d) == Price(d) \/ ApplyCode(d) \/ ReadDraft(d) \/ Judge(d) \/ WriteRecord(d)
                \/ Forget(d) \/ Unmirror(d) \/ WriteTags(d)
ShopStep == ReadLive \/ ReadBenefit \/ Mint \/ Insert \/ Retire \/ Retired \/ Answer
HookStep == LookStore \/ RecordStore \/ ReadCode \/ UseCode \/ Tidy
SweepStep == ExpireNode \/ ExpireRow \/ Recheck

Next ==
    \/ \E d \in Draft : \/ PressApply(d) \/ PressRemove(d) \/ AskCode(d) \/ TypeCode(d)
                        \/ Convert(d) \/ ChainStart(d) \/ ChainAgain(d) \/ ChainStep(d)
    \/ \E d \in Draft, p \in Pieces : ChangeLines(d, p)
    \/ \E k \in Cart : ChangePrice(k) \/ \E promo \in BOOLEAN : Ask(k, promo)
    \/ \E c \in Code : Lapse(c) \/ Buy(c)
    \/ FallBelow
    \/ ShopStep \/ HookStep \/ SweepStart \/ SweepStep
    \/ \E h \in hooks : HookStart(h)
    \/ \E s \in Slot : Fails(s)
    \/ Restart

Spec == Init /\ [][Next]_vars

(* The process runs what it has started, Shopify delivers, and the sweep   *)
(* comes every day.                                                        *)
FairSpec ==
    /\ Spec
    /\ WF_vars(\E d \in Draft : ChainStart(d) \/ ChainStep(d))
    /\ WF_vars(ShopStep)
    /\ WF_vars(HookStep \/ \E h \in hooks : HookStart(h))
    /\ WF_vars(SweepStart \/ SweepStep)

(***************************************************************************)
(* Properties.                                                             *)
(***************************************************************************)
Only(troubles) == case.trouble \subseteq troubles
Sold(d) == doc[d].state = "converted"
Settled(d) == doc[d].state = "open" /\ ~doc[d].changed /\ ~Busy(d)

(* Type invariant: rows, discounts, drafts and requests are what the code  *)
(* reads and writes; only a code that was minted has a row, is handed out  *)
(* or is used.                                                             *)
TypeOK ==
    /\ row \in [Code -> [status : {"none", "pending", "used", "expired"}, cart : Cart \cup {None},
                         price : 0..1, bonus : BOOLEAN, promo : BOOLEAN, late : BOOLEAN]]
    /\ node \in [Code -> {"none", "live", "gone"}]
    /\ \A d \in Draft : \A i \in DOMAIN store[d] : store[d][i] \in BOOLEAN
    /\ \A d \in Draft :
          /\ doc[d].state \in {"open", "converted"} /\ doc[d].lines \in Pieces
          /\ doc[d].tags \subseteq {"apply", "remove", "on", "code", "reprice"}
          /\ doc[d].price \in {"full", "tier", "bonus", "code", "left"}
          /\ doc[d].loyalty.lines \in (Pieces \ Plain) \cup {None}
    /\ cart \in [Cart -> 0..1] /\ member \in BOOLEAN
    /\ \A c \in Code : row[c].status # "none" => node[c] # "none" /\ row[c].cart \in Cart
    /\ ordered \subseteq handed /\ \A c \in handed : row[c].status # "none"

(* The bonus is good for one purchase of the month, in the shop or in the  *)
(* store ("so the cart and the counter cannot both take it", ledger.js),   *)
(* as long as it is asked for at one place at a time, the price of a cart  *)
(* stays and sales are heard of before the next request.                   *)
Took == {c \in ordered : row[c].bonus} \cup {d \in Draft : Sold(d) /\ doc[d].price = "bonus"}
BonusOnce == Only({"refresh", "again"}) => Cardinality(Took) <= 1

(* A sale with the benefit that was heard of is in the ledger, once, and   *)
(* with the bonus if and only if the price had it.                         *)
SaleRecorded ==
    Only({"counter", "refresh", "amount", "late", "again"}) /\ ~Busy(Hook) =>
        /\ \A c \in ordered \ hooks : row[c].status = "used"
        /\ \A d \in Draft \ hooks : Sold(d) =>
              store[d] = CASE doc[d].price = "bonus" -> <<TRUE>>
                           [] doc[d].price = "tier" -> <<FALSE>>
                           [] OTHER -> <<>>

(* A used code stays used: neither a code that replaces it nor the sweep   *)
(* sets it back, which would free the bonus.                               *)
UsedStays ==
    [][Only(Trouble \ {"fault", "overlap"}) =>
         \A c \in Code : row[c].status = "used" => row'[c].status = "used"]_vars

(* Once its update is over, a draft has the tag if and only if it has the  *)
(* record, never together with an order-level code, and no trigger, as     *)
(* long as updates come in order: an old one brings back its tags.         *)
TagIsRecord ==
    Only(Trouble \ {"stale", "fault", "overlap"}) =>
        \A d \in Draft : Settled(d) =>
            /\ "on" \in doc[d].tags <=> Has(d)
            /\ ~(Has(d) /\ doc[d].code)
            /\ doc[d].tags \subseteq {"on"}

(* Its price is then the one the record gives: no benefit without it, and  *)
(* none that is left of a record that was taken off.                       *)
PriceIsRecord ==
    Only(Trouble \ {"refresh", "early", "stale", "fault", "overlap"}) =>
        \A d \in Draft : Settled(d) =>
            IF Has(d) THEN doc[d].price = IF doc[d].loyalty.bonus THEN "bonus" ELSE "tier"
            ELSE doc[d].price \in {"full", "code"}

(* The places that say whether a draft or a sale has the benefit agree:    *)
(* record, tag, price and ledger.                                          *)
RecordsAgree == TypeOK /\ SaleRecorded /\ TagIsRecord /\ PriceIsRecord

(* What staff asked for comes to an end.                                   *)
TriggersEnd ==
    Only(Trouble \ {"fault"}) =>
        \A d \in Draft : (doc[d].state = "open" /\ Asked(d)) ~> (Sold(d) \/ ~Asked(d))

(* Whatever happens, restarts and lost webhooks included, the ledger ends  *)
(* up knowing every code that was used.                                    *)
EventuallyUsed == <>[](\A c \in ordered : row[c].status = "used")

(* Requests end and sales are known in the end.                            *)
BenefitEnds == TriggersEnd /\ EventuallyUsed

(* What the comments say, whatever happens: "so the cart and the counter   *)
(* cannot both take it" (ledger.js),                                       *)
CartOrCounter == Cardinality(Took) <= 1

(* a sale with the benefit is in the ledger, old updates or not,           *)
SaleIsKnown ==
    Quiet => \A d \in Draft \ hooks : Sold(d) /\ doc[d].price \in {"bonus", "tier"} => store[d] # <<>>

(* and no price keeps a discount of a record that was taken off: "the      *)
(* pricing engine's legacy reader would treat it as a flat custom discount *)
(* and re-apply it" (draft.js).                                            *)
NothingLeft == \A d \in Draft : Settled(d) => doc[d].price # "left"
=============================================================================
