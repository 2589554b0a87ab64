----------------------------- MODULE DraftChain -----------------------------
(***************************************************************************)
(* The draft-updated webhook of one draft (server.js, runDraftUpdateChain):*)
(* deliveries that arrive in any order, the single flight that coalesces   *)
(* them, and the steps of a pass that carry money: the cash tag, the       *)
(* net-to-collect and the balance with its payment tags.  A total is known *)
(* by the edit that made it, and an amount due by the total it is derived  *)
(* from.  Steps of a pass that only rewrite lines are edits of the draft.  *)
(***************************************************************************)
EXTENDS Naturals, FiniteSets

CONSTANTS
    Run,       \* handlers that may be at work at once
    Direct,    \* those that are a recomputeCollection, outside the chain
    MaxPass,   \* passes of one chain
    MaxEdits,  \* bound: edits of the total
    MaxCash,   \* bound: cash tags
    Faults,    \* the failures a run of the model allows
    MaxFaults, \* bound: failures
    MaxInline, \* bound: calls of recomputeCollection
    MaxEvents, \* bound: all of these together
    None       \* no payment tags, no payload

ASSUME ChainAssumption ==
    /\ Direct \subseteq Run
    /\ MaxPass \in Nat \ {0}
    /\ MaxEdits \in Nat
    /\ MaxCash \in Nat
    /\ MaxFaults \in Nat
    /\ MaxInline \in Nat
    /\ MaxEvents \in Nat
    /\ Faults \subseteq {"hang", "fetchFails", "readFails", "stepFails"}

VARIABLES
    live,     \* the draft in Shopify: total, cash tag, payment tags
    net,      \* custom.amount_to_be_collected
    due,      \* custom.amount_pending, by what it is derived from
    paid,     \* payments in the installment legs
    recorded, \* payments in store_deposits
    hooks,    \* deliveries under way, each with the draft as it was
    inFlight, \* _draftChainInFlight
    again,    \* _draftChainPending
    pc,       \* the next call of a run
    cur,      \* the draft a pass works from
    pass,     \* passes begun
    seen,     \* what a step of the pass has read
    base,     \* the net a balance is derived from
    edits,    \* edits so far
    added,    \* cash tags so far
    earlier,  \* payments before the first of them
    inlined,  \* calls of recomputeCollection so far
    patient,  \* staff have acted only when nothing was under way
    lost,     \* what chains have lost: the lock, a trailing pass
    faults    \* failures so far

shop == <<live, net, due, paid>>
local == <<cur, pass, seen, base>>
bounds == <<edits, added, earlier, inlined, patient, lost>>
vars == <<live, net, due, paid, recorded, hooks, inFlight, again, pc, cur,
          pass, seen, base, edits, added, earlier, inlined,
          patient, lost, faults>>

Total == 0..MaxEdits
Balances == [net : Total, paid : Nat]
Payload == [total : Total, cash : BOOLEAN, shown : Balances \cup {None}]
Read == [draft : Payload, net : Total, due : Balances, paid : Nat]
ChainStep == {"cash", "cashRecord", "cashTags", "cashMeta", "netRead",
              "netWrite", "balance", "balanceWrite", "balanceTags", "pay",
              "payWrite", "payTags", "trail", "refetch"}

\* A draft whose figures are in step, with a payment or none.
Init ==
    /\ earlier \in {0, 1}
    /\ paid = earlier
    /\ recorded = earlier
    /\ net = 0
    /\ due = [net |-> 0, paid |-> paid]
    /\ live = [total |-> 0, cash |-> FALSE,
               shown |-> IF paid = 0 THEN None ELSE due]
    /\ hooks = {}
    /\ inFlight = FALSE
    /\ again = FALSE
    /\ pc = [r \in Run |-> "ready"]
    /\ cur = [r \in Run |-> None]
    /\ pass = [r \in Run |-> 0]
    /\ seen = [r \in Run |-> None]
    /\ base = [r \in Run |-> None]
    /\ edits = 0
    /\ added = 0
    /\ inlined = 0
    /\ patient = TRUE
    /\ lost = {}
    /\ faults = 0

-----------------------------------------------------------------------------
Goto(r, step) == pc' = [pc EXCEPT ![r] = step]

\* A handler that returns knows nothing any more.
Return(r) ==
    /\ Goto(r, "ready")
    /\ cur' = [cur EXCEPT ![r] = None]
    /\ pass' = [pass EXCEPT ![r] = 0]
    /\ seen' = [seen EXCEPT ![r] = None]
    /\ base' = [base EXCEPT ![r] = None]

Then(r, step) == Goto(r, step) /\ UNCHANGED local

\* What follows the last step of a pass, or of a recompute.
EndPass(r) == IF r \in Direct THEN Return(r) ELSE Then(r, "trail")

\* Nothing is under way: no delivery, no chain.
Quiet == hooks = {} /\ \A r \in Run : pc[r] = "ready"

\* One more event of the bounded ones may happen.
MoreEvents == edits + added + faults + inlined < MaxEvents

Fault(kind) ==
    /\ kind \in Faults
    /\ MoreEvents
    /\ faults < MaxFaults
    /\ faults' = faults + 1

Snapshot == [draft |-> live, net |-> net, due |-> due, paid |-> paid]

\* A PUT of the draft is delivered, one of metafields is not.
Put(draft) ==
    /\ live' = draft
    /\ hooks' = hooks \cup {draft}

\* Payment tags are only on a draft something was paid for.
TagsFor(balance) == IF balance.paid = 0 THEN None ELSE balance

\* The balance of a pass, from the payments it has read.
Derived(r) == [net |-> base[r], paid |-> seen[r].paid]
WithCash(r) == [net |-> seen[r].net, paid |-> seen[r].paid + 1]

-----------------------------------------------------------------------------
\* Staff change the lines, or add the cash tag: external.
EditTotal ==
    /\ edits < MaxEdits
    /\ MoreEvents
    /\ edits' = edits + 1
    /\ patient' = (patient /\ Quiet)
    /\ Put([live EXCEPT !.total = edits + 1])
    /\ UNCHANGED <<net, due, paid, recorded, inFlight, again, pc, local,
                   added, earlier, inlined, lost, faults>>

AddCash ==
    /\ added < MaxCash
    /\ MoreEvents
    /\ ~live.cash
    /\ added' = added + 1
    /\ patient' = (patient /\ Quiet)
    /\ Put([live EXCEPT !.cash = TRUE])
    /\ UNCHANGED <<net, due, paid, recorded, inFlight, again, pc, local,
                   edits, earlier, inlined, lost, faults>>

\* Faulty Coalesce: the delivery is dropped, as the repairs handler does.
Drop(h) ==
    /\ h \in hooks
    /\ inFlight
    /\ hooks' = hooks \ {h}
    /\ UNCHANGED <<shop, recorded, inFlight, again, pc, local, bounds, faults>>

\* A delivery that finds a chain running asks it for a trailing pass.
Coalesce(h) ==
    /\ h \in hooks
    /\ inFlight
    /\ hooks' = hooks \ {h}
    /\ again' = TRUE
    /\ UNCHANGED <<shop, recorded, inFlight, pc, local, bounds, faults>>

\* Faulty Begin: the lock is not looked at.
BeginUnlocked(r, h) ==
    /\ r \notin Direct
    /\ pc[r] = "ready"
    /\ h \in hooks
    /\ hooks' = hooks \ {h}
    /\ inFlight' = TRUE
    /\ cur' = [cur EXCEPT ![r] = h]
    /\ pass' = [pass EXCEPT ![r] = 1]
    /\ Goto(r, "cash")
    /\ UNCHANGED <<shop, recorded, again, seen, base, bounds, faults>>

\* Otherwise it starts one; its first pass works from the payload.
Begin(r, h) ==
    /\ r \notin Direct
    /\ pc[r] = "ready"
    /\ ~inFlight
    /\ h \in hooks
    /\ hooks' = hooks \ {h}
    /\ inFlight' = TRUE
    /\ cur' = [cur EXCEPT ![r] = h]
    /\ pass' = [pass EXCEPT ![r] = 1]
    /\ Goto(r, "cash")
    /\ UNCHANGED <<shop, recorded, again, seen, base, bounds, faults>>

\* recomputeCollection takes no lock.
BeginDirect(r) ==
    /\ r \in Direct
    /\ inlined < MaxInline
    /\ MoreEvents
    /\ pc[r] = "ready"
    /\ inlined' = inlined + 1
    /\ cur' = [cur EXCEPT ![r] = live]
    /\ Goto(r, "netRead")
    /\ UNCHANGED <<shop, recorded, hooks, inFlight, again, pass, seen, base,
                   edits, added, earlier, patient, lost, faults>>

\* handleCashPaymentTag: the tag is that of cur, the figures are read.
Cash(r) ==
    /\ pc[r] = "cash"
    /\ IF cur[r].cash
         THEN seen' = [seen EXCEPT ![r] = Snapshot] /\ Goto(r, "cashRecord")
         ELSE Goto(r, "netRead") /\ UNCHANGED seen
    /\ UNCHANGED <<shop, recorded, hooks, inFlight, again, cur, pass, base,
                   bounds, faults>>

\* The deposit is updated and its payment inserted.
CashRecord(r) ==
    /\ pc[r] = "cashRecord"
    /\ recorded' = recorded + 1
    /\ Goto(r, "cashTags")
    /\ UNCHANGED <<shop, hooks, inFlight, again, local, bounds, faults>>

\* Faulty CashTags: the cash tag stays on the draft.
CashTagsKept(r) ==
    /\ pc[r] = "cashTags"
    /\ Put([live EXCEPT !.shown = TagsFor(WithCash(r))])
    /\ Goto(r, "cashMeta")
    /\ UNCHANGED <<net, due, paid, recorded, inFlight, again, local, bounds,
                   faults>>

\* One PUT of the tags of cur: without the cash tag, with the payment's.
CashTags(r) ==
    /\ pc[r] = "cashTags"
    /\ Put([live EXCEPT !.cash = FALSE,
                        !.shown = TagsFor(WithCash(r))])
    /\ Goto(r, "cashMeta")
    /\ UNCHANGED <<net, due, paid, recorded, inFlight, again, local, bounds,
                   faults>>

\* A call that fails ends its step; the pass goes on with the next one.
StepFails(r) ==
    /\ Fault("stepFails")
    /\ \/ pc[r] \in {"cash", "cashTags"} /\ Then(r, "netRead")
       \/ pc[r] = "netRead" /\ IF r \in Direct THEN Return(r) ELSE Then(r, "pay")
       \/ pc[r] \in {"balance", "balanceTags"} /\ Then(r, "pay")
       \/ pc[r] \in {"pay", "payTags"} /\ EndPass(r)
    /\ UNCHANGED <<shop, recorded, hooks, inFlight, again, bounds>>

CashMeta(r) ==
    /\ pc[r] = "cashMeta"
    /\ paid' = seen[r].paid + 1
    /\ due' = WithCash(r)
    /\ Goto(r, "netRead")
    /\ UNCHANGED <<live, net, recorded, hooks, inFlight, again, local, bounds,
                   faults>>

\* syncAmountToCollect: the metafields, then the live total, and the
\* payload's only when that cannot be read.
NetRead(r) ==
    /\ pc[r] = "netRead"
    /\ seen' = [seen EXCEPT ![r] = Snapshot]
    /\ \/ /\ base' = [base EXCEPT ![r] = live.total]
          /\ UNCHANGED faults
       \/ /\ Fault("readFails")
          /\ base' = [base EXCEPT ![r] = cur[r].total]
    /\ Goto(r, "netWrite")
    /\ UNCHANGED <<shop, recorded, hooks, inFlight, again, cur, pass, bounds>>

\* The net is written if it moved, and the balance derived from it at once.
NetWrite(r) ==
    /\ pc[r] = "netWrite"
    /\ IF base[r] = seen[r].net
         THEN Goto(r, "pay") /\ UNCHANGED net
         ELSE net' = base[r] /\ Goto(r, "balance")
    /\ UNCHANGED <<live, due, paid, recorded, hooks, inFlight, again, local,
                   bounds, faults>>

\* applyPaymentTagsToDraftOrder with netOverride, then again as the last
\* step of the pass with the net it reads.
Balance(r) ==
    /\ \/ pc[r] = "balance" /\ Goto(r, "balanceWrite") /\ UNCHANGED base
       \/ /\ pc[r] = "pay"
          /\ Goto(r, "payWrite")
          /\ base' = [base EXCEPT ![r] = net]
    /\ seen' = [seen EXCEPT ![r] = Snapshot]
    /\ UNCHANGED <<shop, recorded, hooks, inFlight, again, cur, pass, bounds,
                   faults>>

\* The balance is written if it differs from what was read.
BalanceWrite(r) ==
    /\ \/ pc[r] = "balanceWrite" /\ Goto(r, "balanceTags")
       \/ pc[r] = "payWrite" /\ Goto(r, "payTags")
    /\ due' = IF seen[r].due = Derived(r) THEN due ELSE Derived(r)
    /\ UNCHANGED <<live, net, paid, recorded, hooks, inFlight, again, local,
                   bounds, faults>>

\* Faulty BalanceTags: the PUT does not depend on a change.
BalanceTagsAlways(r) ==
    /\ \/ pc[r] = "balanceTags" /\ Then(r, "pay")
       \/ pc[r] = "payTags" /\ EndPass(r)
    /\ Put([live EXCEPT !.cash = seen[r].draft.cash,
                        !.shown = TagsFor(Derived(r))])
    /\ UNCHANGED <<net, due, paid, recorded, inFlight, again, bounds, faults>>

\* The tags read before are PUT back with the payment tags of this balance,
\* unless nothing changes.
BalanceTags(r) ==
    /\ \/ pc[r] = "balanceTags" /\ Then(r, "pay")
       \/ pc[r] = "payTags" /\ EndPass(r)
    /\ LET tags == TagsFor(Derived(r)) IN
         IF tags = seen[r].draft.shown
           THEN UNCHANGED <<live, hooks>>
           ELSE Put([live EXCEPT !.cash = seen[r].draft.cash, !.shown = tags])
    /\ UNCHANGED <<net, due, paid, recorded, inFlight, again, bounds, faults>>

\* The finally of the chain.
Free(r) ==
    /\ inFlight' = FALSE
    /\ again' = FALSE
    /\ Return(r)

\* The end of a pass: a delivery that came meanwhile is worth another one.
Trail(r) ==
    /\ pc[r] = "trail"
    /\ IF again
         THEN again' = FALSE /\ Then(r, "refetch") /\ UNCHANGED inFlight
         ELSE Free(r)
    /\ UNCHANGED <<shop, recorded, hooks, bounds, faults>>

\* It works from the draft as it is now.  After MaxPass passes, or when the
\* draft cannot be read, the chain ends, and with it what came meanwhile.
Refetch(r) ==
    /\ pc[r] = "refetch"
    /\ \/ /\ pass[r] < MaxPass
          /\ cur' = [cur EXCEPT ![r] = live]
          /\ pass' = [pass EXCEPT ![r] = @ + 1]
          /\ Goto(r, "cash")
          /\ UNCHANGED <<inFlight, again, seen, base, lost, faults>>
       \/ /\ \/ pass[r] = MaxPass /\ UNCHANGED faults
             \/ Fault("fetchFails")
          /\ lost' = lost \cup {"trail"}
          /\ Free(r)
    /\ UNCHANGED <<shop, recorded, hooks, edits, added, earlier, inlined, patient>>

\* After 120 s the backstop lets go of the lock of a chain that still runs.
Backstop(r) ==
    /\ Fault("hang")
    /\ pc[r] \in ChainStep
    /\ r \notin Direct
    /\ inFlight
    /\ inFlight' = FALSE
    /\ lost' = lost \cup {"lock"}
    /\ UNCHANGED <<shop, recorded, hooks, again, pc, local, edits, added,
                   earlier, inlined, patient>>

PassStep(r) ==
    \/ Cash(r)
    \/ CashRecord(r)
    \/ CashTags(r)
    \/ CashMeta(r)
    \/ NetRead(r)
    \/ NetWrite(r)
    \/ Balance(r)
    \/ BalanceWrite(r)
    \/ BalanceTags(r)
    \/ Trail(r)
    \/ Refetch(r)

Deliver(h) == Coalesce(h) \/ \E r \in Run : Begin(r, h)

Next ==
    \/ EditTotal
    \/ AddCash
    \/ \E h \in hooks : Deliver(h)
    \/ \E r \in Run : BeginDirect(r) \/ PassStep(r)
    \/ \E r \in Run : StepFails(r) \/ Backstop(r)

Spec == Init /\ [][Next]_vars

\* Shopify delivers, and every awaited call is answered.
FairSpec ==
    /\ Spec
    /\ WF_vars(\E h \in hooks : Deliver(h))
    /\ \A r \in Run : WF_vars(PassStep(r))

-----------------------------------------------------------------------------
(* Properties *)

\* Every variable has its type.
TypeOK ==
    /\ live \in Payload
    /\ net \in Total
    /\ due \in Balances
    /\ paid \in Nat
    /\ recorded \in Nat
    /\ hooks \subseteq Payload
    /\ inFlight \in BOOLEAN
    /\ again \in BOOLEAN
    /\ pc \in [Run -> ChainStep \cup {"ready"}]
    /\ cur \in [Run -> Payload \cup {None}]
    /\ pass \in [Run -> 0..MaxPass]
    /\ seen \in [Run -> Read \cup {None}]
    /\ base \in [Run -> Total \cup {None}]
    /\ edits \in 0..MaxEdits
    /\ added \in 0..MaxCash
    /\ earlier \in {0, 1}
    /\ inlined \in 0..MaxInline
    /\ patient \in BOOLEAN
    /\ lost \subseteq {"lock", "trail"}
    /\ faults \in 0..MaxFaults

Working(r) == pc[r] \in ChainStep /\ r \notin Direct

NoFailure == faults = 0

\* Whatever fails, as long as no chain outlives its lock a draft has one chain
\* at a time, and the lock is held just while it runs.
OneChain ==
    "lock" \notin lost => /\ Cardinality({r \in Run : Working(r)}) <= 1
                          /\ inFlight <=> \E r \in Run : Working(r)

\* The variables and the lock are sound.
ChainSound == TypeOK /\ OneChain

\* When nothing is under way any more, the net-to-collect is that of the draft
\* as it stands.
NetFollows == Quiet => net = live.total

\* So it is unless a chain ended with a delivery unanswered, or a recompute
\* stood beside the chains of a draft edited again and again.
NetSettles ==
    NoFailure /\ "trail" \notin lost /\ (inlined = 0 \/ edits <= 1) => NetFollows

\* When nothing is under way any more, the balance and the payment tags are
\* derived from the net and from the payments of the legs ...
BalanceFollows ==
    Quiet => /\ due = [net |-> net, paid |-> paid]
             /\ live.shown = TagsFor(due)

\* ... whatever single step failed and whatever chain ended early, and beside
\* any recompute of a draft that is edited once.
BalanceSettles ==
    (\/ faults <= 1 /\ inlined = 0 /\ "lock" \notin lost
     \/ NoFailure /\ edits <= 1 /\ added = 0)
    => BalanceFollows

\* The collection figures of a draft at rest are those of the draft.
FiguresAgree == NetSettles /\ BalanceSettles

\* A cash tag is recorded once: it is stripped "to prevent webhook re-trigger
\* loops" (server.js:982).
CashOnce == recorded <= earlier + added

\* As long as no call fails, no recompute stands beside the chains and staff wait
\* for the webhooks of what they did before, every cash tag is recorded and none
\* twice.  A PUT that fails after the record (server.js:1086) leaves the tag, which
\* is recorded again; a recompute, or staff who do not wait, may erase or repeat
\* one: all that is in the model and excluded here.
CashCounted ==
    NoFailure /\ inlined = 0 /\ patient =>
        CashOnce /\ (Quiet => recorded = earlier + added)

\* The two surfaces agree when nothing is under way: as many payments in the
\* installment legs as in store_deposits.
LegsAgree == NoFailure /\ Quiet => paid = recorded

\* Under these conditions every payment in cash is counted once, in both places.
PaymentsAgree == CashCounted /\ LegsAgree

\* The writes of a pass are deliveries too, yet the storm dies down: in the
\* end no delivery and no chain is left.
StormEnds == <>[](Quiet /\ ~inFlight)
=============================================================================
