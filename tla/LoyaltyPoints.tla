---------------------------- MODULE LoyaltyPoints ----------------------------
(***************************************************************************)
(* What orders earn (src/modules/loyalty: earn.js, ledger.js, customer.js, *)
(* after_sales.js, backfill.js, sweep.js).                                 *)
(*                                                                         *)
(* The ledger has one row per order, overwritten with the current figure:  *)
(* what was paid, less refunds, less the redeemed notes issued against it. *)
(* Shopify delivers an order several times; the newest payload is kept in  *)
(* memory and handled when the burst is over.  A refund in the store and a *)
(* note redeemed elsewhere bring no delivery.  The sum of the rows, its    *)
(* tier and the tag of the tier are copied onto the customer, and a tier   *)
(* that rises is mailed.                                                   *)
(*                                                                         *)
(* The reads of one figure are one step, and every write.  Amounts are     *)
(* small numbers; what the rules exclude (the first orders, advances,      *)
(* cancelled orders) is left out.                                          *)
(***************************************************************************)
EXTENDS Integers, Sequences, FiniteSets, Functions, SequencesExt

CONSTANTS Order, Customer, None,
          Paid,      \* what an order is worth
          Floors,    \* the points at which the tiers begin
          Case       \* bound: which orders may come, what else may happen, how many events

(* What goes beyond one request after another, each prompt and successful. *)
Trouble == {"reorder",  \* the deliveries of an order come out of order
            "again",    \* an order is delivered once more
            "silent",   \* the figure changes without a delivery
            "move",     \* an order is given to another customer
            "staff",    \* points are adjusted, the backfill is run
            "fault",    \* a call fails or the process restarts
            "overlap"}  \* requests run at the same time

ASSUME LoyaltyPointsAssumption ==
    /\ None \notin Order \cup Customer
    /\ \A refund \in 0..Paid, buyer \in Customer : None # [refund |-> refund, buyer |-> buyer]
    /\ Order \cap {"sweep", "admin", "job"} = {}
    /\ IsFiniteSet(Order) /\ IsFiniteSet(Customer)
    /\ Paid \in Nat
    /\ Floors \in Seq(Nat \ {0})  \* as DEFAULT_CONFIG's: who has nothing has no tier
    /\ \A k \in Case : /\ k.trouble \subseteq Trouble
                       /\ k.events \in Nat
                       \* an order, its buyer, who asked for its code
                       /\ k.comes \subseteq Order \X Customer \X (Customer \cup {None})

VARIABLES case,     \* the case of Case this behaviour is about
          order,    \* [Order -> the order in Shopify, and the notes redeemed against it]
          post,     \* [Order -> Seq(payload on its way)]
          timer,    \* [Order -> the payload kept, or None]
          recall,   \* orders a redeemed note asks to earn again
          entry,    \* loyalty_ledger: [Order -> row]
          adjust,   \* loyalty_ledger, kind adjust: [Customer -> points]
          copy,     \* [Customer -> the points and the tier published]
          tags,     \* [Customer -> SUBSET tiers]
          told,     \* [Customer -> the tier mailed last, or a lower one published since]
          run,      \* [Slot -> the request under way there]
          events    \* events left

vars == <<case, order, post, timer, recall, entry, adjust, copy, tags, told, run, events>>

Sweep == "sweep"
Admin == "admin"
Job == "job"
Slot == Order \cup {Sweep, Admin, Job}
Idle == [pc |-> "idle"]

Busy(s) == run[s].pc # "idle"
Quiet == \A s \in Slot : ~Busy(s)
Allowed(t) == t \in case.trouble
Happens == events > 0 /\ events' = events - 1
CanStart(s) == ~Busy(s) /\ (Allowed("overlap") \/ Quiet)
Goto(s, pc) == run' = [run EXCEPT ![s].pc = pc]

NotPlaced == [placed |-> FALSE, buyer |-> None, asker |-> None, refund |-> 0, store |-> 0, notes |-> 0]
NoEntry == [customer |-> None, points |-> 0]

Init == \E k \in Case :
    /\ case = k /\ events = k.events
    /\ order = [o \in Order |-> NotPlaced]
    /\ post = [o \in Order |-> <<>>]
    /\ timer = [o \in Order |-> None]
    /\ recall = {}
    /\ entry = [o \in Order |-> NoEntry]
    /\ adjust = [c \in Customer |-> 0]
    /\ copy = [c \in Customer |-> [points |-> 0, tier |-> 0]]
    /\ tags = [c \in Customer |-> {}]
    /\ told = [c \in Customer |-> 0]
    /\ run = [s \in Slot |-> Idle]

(***************************************************************************)
(* The figures: earnPoints, customerPoints, tierFor.                       *)
(***************************************************************************)
Larger(a, b) == IF a > b THEN a ELSE b

Points(refund, store, notes) == Larger(0, Larger(0, Paid - Larger(refund, store)) - notes)

TierOf(points) == Cardinality({t \in DOMAIN Floors : points >= Floors[t]})

Figures(c) == [o \in Order |-> IF entry[o].customer = c THEN entry[o].points ELSE 0]
CustomerPoints(c) == adjust[c] + SumFunction(Figures(c))

Heard == Quiet /\ recall = {} /\ \A o \in Order : timer[o] = None /\ post[o] = <<>>

(***************************************************************************)
(* Orders, and what is heard of them.                                      *)
(***************************************************************************)
Load(o) == [refund |-> order[o].refund, buyer |-> order[o].buyer]
Placed == {o \in Order : order[o].placed}
Deliveries(o, load) == post' = [post EXCEPT ![o] = Append(@, load)]

Change(o, new) ==
    /\ Happens
    /\ order' = [order EXCEPT ![o] = new]
    /\ UNCHANGED <<case, timer, entry, adjust, copy, tags, told, run>>

(* The buyer logs in by phone: the order may be on another customer than   *)
(* the one who asked for its loyalty code.                                 *)
Place(o, buyer, asker) ==
    /\ <<o, buyer, asker>> \in case.comes
    /\ o \notin Placed
    /\ Change(o, [NotPlaced EXCEPT !.placed = TRUE, !.buyer = buyer, !.asker = asker])
    /\ Deliveries(o, [refund |-> 0, buyer |-> buyer])
    /\ UNCHANGED recall

Refund(o) ==
    /\ o \in Placed /\ order[o].refund < Paid
    /\ Change(o, [order[o] EXCEPT !.refund = @ + 1])
    /\ Deliveries(o, [Load(o) EXCEPT !.refund = @ + 1])
    /\ UNCHANGED recall

Move(o, buyer) ==
    /\ Allowed("move")
    /\ o \in Placed /\ order[o].buyer # buyer
    /\ Change(o, [order[o] EXCEPT !.buyer = buyer])
    /\ Deliveries(o, [Load(o) EXCEPT !.buyer = buyer])
    /\ UNCHANGED recall

(* A refund in the store is written to custom.amount_refunded.             *)
StoreRefund(o) ==
    /\ Allowed("silent")
    /\ o \in Placed /\ order[o].store < Paid
    /\ Change(o, [order[o] EXCEPT !.store = @ + 1])
    /\ UNCHANGED <<post, recall>>

(* creditInstruments.onRedeemed: a note issued against the order is spent. *)
RedeemNote(o) ==
    /\ o \in Placed /\ order[o].notes = 0
    /\ Change(o, [order[o] EXCEPT !.notes = 1])
    /\ recall' = recall \cup {o}
    /\ UNCHANGED post

Redeliver(o) ==
    /\ Allowed("again")
    /\ o \in Placed
    /\ Change(o, order[o])
    /\ Deliveries(o, Load(o))
    /\ UNCHANGED recall

Keep(o, load) == timer' = [timer EXCEPT ![o] = load]

(* onOrderWebhook: the payload that came last is kept.                     *)
Deliver(o, i) ==
    /\ i \in DOMAIN post[o]
    /\ i = 1 \/ Allowed("reorder")
    /\ post' = [post EXCEPT ![o] = RemoveAt(@, i)]
    /\ Keep(o, post[o][i])
    /\ UNCHANGED <<case, order, recall, entry, adjust, copy, tags, told, run, events>>

(* reearnOrderByName: fetched fresh, then the same path.                   *)
Recall(o) ==
    /\ o \in recall
    /\ recall' = recall \ {o}
    /\ \/ Keep(o, Load(o)) /\ UNCHANGED events
       \/ Allowed("fault") /\ Happens /\ UNCHANGED timer
    /\ UNCHANGED <<case, order, post, entry, adjust, copy, tags, told, run>>

(***************************************************************************)
(* processOrder, in an order's own slot or in the sweep.                   *)
(***************************************************************************)
Start(pc) == [pc |-> pc, order |-> None, load |-> None, who |-> None, points |-> 0,
              todo |-> <<>>, sum |-> 0, was |-> 0, had |-> {}, names |-> None]

Earning(o, load) == [Start("settle") EXCEPT !.order = o, !.load = load]

(* What comes after an order, or after the last customer to refresh.       *)
Onward(s) ==
    IF s # Sweep THEN Idle
    ELSE [Start(IF run[s].names = None THEN "names" ELSE "recheck") EXCEPT !.names = run[s].names]

Refreshing(s, todo) ==
    IF todo = <<>> THEN Onward(s) ELSE [Start("sum") EXCEPT !.todo = todo, !.order = run[s].order,
                                                            !.names = run[s].names]

(* The burst is over.                                                      *)
Fire(o) ==
    /\ timer[o] # None
    /\ CanStart(o)
    /\ timer' = [timer EXCEPT ![o] = None]
    /\ run' = [run EXCEPT ![o] = Earning(o, timer[o])]
    /\ UNCHANGED <<case, order, post, recall, entry, adjust, copy, tags, told, events>>

(* The order is credited to who asked for its code; if that cannot be read *)
(* to who it is on.                                                        *)
Settle(s) ==
    /\ run[s].pc = "settle"
    /\ LET asker == order[run[s].order].asker
           credited(c) == run' = [run EXCEPT ![s].pc = "figure", ![s].who = c] IN
       \/ credited(IF asker = None THEN run[s].load.buyer ELSE asker) /\ UNCHANGED events
       \/ Allowed("fault") /\ Happens /\ credited(run[s].load.buyer)
    /\ UNCHANGED <<case, order, post, timer, recall, entry, adjust, copy, tags, told>>

(* redeemedAgainst and amountRefundedFor, whose failure counts as nothing. *)
Figure(s) ==
    /\ run[s].pc = "figure"
    /\ LET now == order[run[s].order]
           worth(store) == run' = [run EXCEPT ![s].pc = "prior",
                                              ![s].points = Points(run[s].load.refund, store, now.notes)] IN
       \/ worth(now.store) /\ UNCHANGED events
       \/ Allowed("fault") /\ Happens /\ worth(0)
    /\ UNCHANGED <<case, order, post, timer, recall, entry, adjust, copy, tags, told>>

(* upsertOrderEntry: the row that is there already says the same thing.    *)
Prior(s) ==
    /\ run[s].pc = "prior"
    /\ LET prior == entry[run[s].order] IN
       IF prior = [customer |-> run[s].who, points |-> run[s].points]
       THEN run' = [run EXCEPT ![s] = Onward(s)]
       ELSE run' = [run EXCEPT ![s].pc = "upsert", ![s].was = prior.customer]
    /\ UNCHANGED <<case, order, post, timer, recall, entry, adjust, copy, tags, told, events>>

Todo(c, mail) == [customer |-> c, mail |-> mail]

\* Faulty ToRefresh: the customer the row is taken from keeps its copy.
ToRefreshOne(who, previous) == <<Todo(who, TRUE)>>

ToRefresh(who, previous) ==
    <<Todo(who, TRUE)>> \o (IF previous \in {None, who} THEN <<>> ELSE <<Todo(previous, FALSE)>>)

Upsert(s) ==
    /\ run[s].pc = "upsert"
    /\ entry' = [entry EXCEPT ![run[s].order] = [customer |-> run[s].who, points |-> run[s].points]]
    /\ run' = [run EXCEPT ![s] = Refreshing(s, ToRefresh(run[s].who, run[s].was))]
    /\ UNCHANGED <<case, order, post, timer, recall, adjust, copy, tags, told, events>>

(***************************************************************************)
(* refreshCustomer: the copy on the customer, its tag, the mail.           *)
(***************************************************************************)
Who(s) == Head(run[s].todo).customer
NewTier(s) == TierOf(run[s].sum)
TagOf(tier) == {tier} \ {0}
Finished(s) == run' = [run EXCEPT ![s] = Refreshing(s, Tail(run[s].todo))]

Sum(s) ==
    /\ run[s].pc = "sum"
    /\ run' = [run EXCEPT ![s].pc = "look", ![s].sum = CustomerPoints(Who(s))]
    /\ UNCHANGED <<case, order, post, timer, recall, entry, adjust, copy, tags, told, events>>

\* Faulty Look: the tier published before is not read.
LookNew(s) ==
    /\ run[s].pc = "look"
    /\ LET c == Who(s) IN
       IF copy[c] = [points |-> run[s].sum, tier |-> NewTier(s)] /\ tags[c] = TagOf(NewTier(s))
       THEN Finished(s)
       ELSE run' = [run EXCEPT ![s].pc = "publish", ![s].was = 0, ![s].had = tags[c]]
    /\ UNCHANGED <<case, order, post, timer, recall, entry, adjust, copy, tags, told, events>>

Look(s) ==
    /\ run[s].pc = "look"
    /\ LET c == Who(s) IN
       IF copy[c] = [points |-> run[s].sum, tier |-> NewTier(s)] /\ tags[c] = TagOf(NewTier(s))
       THEN Finished(s)
       ELSE run' = [run EXCEPT ![s].pc = "publish", ![s].was = copy[c].tier, ![s].had = tags[c]]
    /\ UNCHANGED <<case, order, post, timer, recall, entry, adjust, copy, tags, told, events>>

Publish(s) ==
    /\ run[s].pc = "publish"
    /\ copy' = [copy EXCEPT ![Who(s)] = [points |-> run[s].sum, tier |-> NewTier(s)]]
    /\ told' = [told EXCEPT ![Who(s)] = IF @ > NewTier(s) THEN NewTier(s) ELSE @]
    /\ Goto(s, "untag")
    /\ UNCHANGED <<case, order, post, timer, recall, entry, adjust, tags, events>>

(* swapTierTags: by the tags read before.                                  *)
Untag(s) ==
    /\ run[s].pc = "untag"
    /\ tags' = [tags EXCEPT ![Who(s)] = @ \ (run[s].had \ TagOf(NewTier(s)))]
    /\ Goto(s, "tag")
    /\ UNCHANGED <<case, order, post, timer, recall, entry, adjust, copy, told, events>>

AddTag(s) ==
    /\ run[s].pc = "tag"
    /\ tags' = [tags EXCEPT ![Who(s)] = @ \cup (TagOf(NewTier(s)) \ run[s].had)]
    /\ Goto(s, "mail")
    /\ UNCHANGED <<case, order, post, timer, recall, entry, adjust, copy, told, events>>

Rises(s) == Head(run[s].todo).mail /\ NewTier(s) > run[s].was

Mail(s) ==
    /\ run[s].pc = "mail"
    /\ told' = IF Rises(s) THEN [told EXCEPT ![Who(s)] = NewTier(s)] ELSE told
    /\ Finished(s)
    /\ UNCHANGED <<case, order, post, timer, recall, entry, adjust, copy, tags, events>>

(***************************************************************************)
(* The daily sweep: republishRates for the customers with a tier tag, then *)
(* recheckOrders.  Unless requests overlap it comes when all is handled,   *)
(* and is left out if it finds nothing to do, since it changes nothing.    *)
(***************************************************************************)
Due(o) == [customer |-> IF order[o].asker = None THEN order[o].buyer ELSE order[o].asker,
           points |-> Points(order[o].refund, order[o].store, order[o].notes)]
CopyRight(c) == /\ copy[c] = [points |-> CustomerPoints(c), tier |-> TierOf(CustomerPoints(c))]
                /\ tags[c] = TagOf(copy[c].tier)
Behind == (\E o \in Placed : entry[o] # Due(o)) \/ (\E c \in Customer : tags[c] # {} /\ ~CopyRight(c))

Silently(customers) == SetToSeq({Todo(c, FALSE) : c \in customers})

\* Faulty Republish: no customer is republished.
RepublishNone == {}

Republish == {c \in Customer : tags[c] # {}}

SweepStart ==
    /\ CanStart(Sweep)
    /\ Heard \/ Allowed("overlap")
    /\ \/ Behind /\ UNCHANGED events
       \/ Allowed("overlap") /\ Happens
    /\ run' = [run EXCEPT ![Sweep] =
                 IF Republish = {} THEN Start("names") ELSE [Start("sum") EXCEPT !.todo = Silently(Republish)]]
    /\ UNCHANGED <<case, order, post, timer, recall, entry, adjust, copy, tags, told>>

Names ==
    /\ run[Sweep].pc = "names"
    /\ run' = [run EXCEPT ![Sweep] = [Start("recheck") EXCEPT !.names = Placed]]
    /\ UNCHANGED <<case, order, post, timer, recall, entry, adjust, copy, tags, told, events>>

Recheck ==
    /\ run[Sweep].pc = "recheck"
    /\ IF run[Sweep].names = {} THEN run' = [run EXCEPT ![Sweep] = Idle]
       ELSE \E o \in run[Sweep].names :
              run' = [run EXCEPT ![Sweep] = [Earning(o, Load(o)) EXCEPT !.names = run[Sweep].names \ {o}]]
    /\ UNCHANGED <<case, order, post, timer, recall, entry, adjust, copy, tags, told, events>>

(***************************************************************************)
(* Staff: an adjustment, the refresh of one customer, the backfill.        *)
(***************************************************************************)
Adjust(c, n) ==
    /\ Allowed("staff") /\ Happens
    /\ CanStart(Admin)
    /\ run' = [run EXCEPT ![Admin] = [Start("adjust") EXCEPT !.who = c, !.points = n]]
    /\ UNCHANGED <<case, order, post, timer, recall, entry, adjust, copy, tags, told>>

AddAdjustment ==
    /\ run[Admin].pc = "adjust"
    /\ adjust' = [adjust EXCEPT ![run[Admin].who] = @ + run[Admin].points]
    /\ run' = [run EXCEPT ![Admin] = [Start("sum") EXCEPT !.todo = <<Todo(run[Admin].who, FALSE)>>]]
    /\ UNCHANGED <<case, order, post, timer, recall, entry, copy, tags, told, events>>

RefreshOne(c) ==
    /\ Allowed("staff") /\ Happens
    /\ CanStart(Admin)
    /\ run' = [run EXCEPT ![Admin] = [Start("sum") EXCEPT !.todo = <<Todo(c, FALSE)>>]]
    /\ UNCHANGED <<case, order, post, timer, recall, entry, adjust, copy, tags, told>>

(* The backfill reads every order, then writes every row, for the customer *)
(* the order is on, then refreshes these customers.                        *)
Backfill ==
    /\ Allowed("staff") /\ Happens
    /\ CanStart(Job)
    /\ run' = [run EXCEPT ![Job] =
                 [Start("write") EXCEPT
                    !.names = Placed,
                    !.load = [o \in Placed |-> [customer |-> order[o].buyer, points |-> Due(o).points]]]]
    /\ UNCHANGED <<case, order, post, timer, recall, entry, adjust, copy, tags, told>>

WriteRow ==
    /\ run[Job].pc = "write"
    /\ LET rows == run[Job].load IN
       IF run[Job].names = {}
       THEN /\ run' = [run EXCEPT ![Job] = Refreshing(Job, Silently({rows[o].customer : o \in DOMAIN rows}))]
            /\ UNCHANGED entry
       ELSE \E o \in run[Job].names :
              /\ entry' = [entry EXCEPT ![o] = rows[o]]
              /\ run' = [run EXCEPT ![Job].names = @ \ {o}]
    /\ UNCHANGED <<case, order, post, timer, recall, adjust, copy, tags, told, events>>

(***************************************************************************)
(* Failures.  A failed call ends the order it is about; outside an order   *)
(* it ends the refresh of one customer, or the whole job while it writes.  *)
(***************************************************************************)
Fails(s) ==
    /\ Allowed("fault") /\ Happens
    /\ Busy(s)
    /\ run' = [run EXCEPT ![s] = IF run[s].order = None /\ run[s].todo # <<>>
                                 THEN Refreshing(s, Tail(run[s].todo)) ELSE Onward(s)]
    /\ UNCHANGED <<case, order, post, timer, recall, entry, adjust, copy, tags, told>>

(* A restart ends every request and forgets the payloads that were kept.   *)
Restart ==
    /\ Allowed("fault") /\ Happens
    /\ run' = [s \in Slot |-> Idle]
    /\ timer' = [o \in Order |-> None]
    /\ recall' = {}
    /\ UNCHANGED <<case, order, post, entry, adjust, copy, tags, told>>

Step(s) == \/ Settle(s) \/ Figure(s) \/ Prior(s) \/ Upsert(s)
           \/ Sum(s) \/ Look(s) \/ Publish(s) \/ Untag(s) \/ AddTag(s) \/ Mail(s)
OtherStep == Names \/ Recheck \/ AddAdjustment \/ WriteRow
Hear == \E o \in Order : Recall(o) \/ \E i \in DOMAIN post[o] : Deliver(o, i)

Next ==
    \/ \E o \in Order : \/ Refund(o) \/ StoreRefund(o) \/ RedeemNote(o) \/ Redeliver(o) \/ Fire(o)
                        \/ \E c \in Customer : Move(o, c)
                        \/ \E c \in Customer, a \in Customer \cup {None} : Place(o, c, a)
    \/ Hear
    \/ \E c \in Customer : RefreshOne(c) \/ \E n \in {-1, 1} : Adjust(c, n)
    \/ Backfill
    \/ SweepStart
    \/ OtherStep
    \/ \E s \in Slot : Step(s) \/ Fails(s)
    \/ Restart

Spec == Init /\ [][Next]_vars

(* Shopify delivers, timers fire, the process runs what it has started and *)
(* the sweep comes every day.                                              *)
FairSpec ==
    /\ Spec
    /\ WF_vars(Hear)
    /\ WF_vars(\E o \in Order : Fire(o))
    /\ WF_vars(SweepStart)
    /\ WF_vars(OtherStep \/ \E s \in Slot : Step(s))

(***************************************************************************)
(* Properties.                                                             *)
(***************************************************************************)
Only(troubles) == case.trouble \subseteq troubles

(* Type invariant: an order earns at most what was paid and never less     *)
(* than nothing, and only an order that was placed has a row.              *)
TypeOK ==
    /\ \A o \in Order :
          /\ entry[o] = NoEntry \/ (o \in Placed /\ entry[o].customer \in Customer)
          /\ entry[o].points \in 0..Paid
          /\ timer[o] # None => timer[o].refund \in 0..order[o].refund
    /\ \A c \in Customer : /\ adjust[c] \in Int
                           /\ copy[c].tier \in 0..Len(Floors) /\ told[c] \in 0..Len(Floors)
                           /\ tags[c] \subseteq 1..Len(Floors)
    /\ \A s \in Slot : Busy(s) => \A i \in DOMAIN run[s].todo : run[s].todo[i].customer \in Customer

(* When all deliveries are handled every order has its row, for the right  *)
(* customer and with its current figure, without waiting for the sweep     *)
(* ("only ever leave the current figure", earn.js).                        *)
LedgerSettles ==
    Only({"again", "move"}) /\ Heard => \A o \in Placed : entry[o] = Due(o)

(* Between requests the copy on a customer is the sum of its rows, with    *)
(* the tier of that sum and exactly one tag or none, also when a row was   *)
(* moved to somebody else.                                                 *)
CopyAgrees ==
    Only({"reorder", "again", "silent", "move"}) /\ Quiet => \A c \in Customer : CopyRight(c)

(* Ledger and copies agree with the orders once these were heard of.       *)
PointsAgree == TypeOK /\ LedgerSettles /\ CopyAgrees

(* Every rise is mailed,                                                   *)
RiseIsTold ==
    Only({"reorder", "again", "silent", "move"}) /\ Quiet => \A c \in Customer : told[c] = copy[c].tier

(* and once: no second mail for a tier before the customer fell below it,  *)
(* not even after failures and restarts.                                   *)
ToldOnce ==
    [][Only(Trouble \ {"overlap"}) =>
         \A s \in Slot : Mail(s) /\ Rises(s) => told[Who(s)] < NewTier(s)]_vars

(* A customer hears of each rise, once.                                    *)
RisesTold == []RiseIsTold /\ ToldOnce

(* Whatever happens - deliveries out of order or lost with the process,    *)
(* refunds without a delivery, a backfill with figures of an hour ago -    *)
(* the ledger ends up right.                                               *)
LedgerCatchesUp == \A o \in Order : <>[](o \in Placed => entry[o] = Due(o))

(* and so does the copy of every customer that has a tier tag.             *)
CopyCatchesUp == \A c \in Customer : <>[](tags[c] # {} => CopyRight(c))

(* Ledger and copies both end up right.                                    *)
CatchesUp == LedgerCatchesUp /\ CopyCatchesUp
=============================================================================
