----------------------------- MODULE ChainProofs -----------------------------
(***************************************************************************)
(* Theorems about DraftChain, for any handlers and any bounds: one chain   *)
(* at a time holds the lock of a draft, payments in cash are counted once  *)
(* in both places, and the figures of a draft at rest are those of it.     *)
(* And about BuyPlan, for any schedule and any bounds: the final price of  *)
(* a plan stands, and what is marked as sent went out.                     *)
(***************************************************************************)
EXTENDS DraftChain, BuyPlan, FiniteSetTheorems, TLAPS

--------------------
(* Types *)

DirectStep == {"ready", "netRead", "netWrite", "balance", "balanceWrite",
               "balanceTags", "pay", "payWrite", "payTags"}

\* What a run knows at each of its steps.
StepData ==
    \A r \in Run :
        /\ pc[r] # "ready" => cur[r] \in Payload
        /\ pc[r] \in {"cashRecord", "cashTags", "cashMeta", "netWrite",
                      "balanceWrite", "balanceTags", "payWrite", "payTags"} =>
              seen[r] \in Read
        /\ pc[r] \in {"netWrite", "balance", "balanceWrite", "balanceTags",
                      "payWrite", "payTags"} => base[r] \in Total
        /\ r \in Direct => pc[r] \in DirectStep

TypeInv == TypeOK /\ StepData

LEMMA InitTypes == Init => TypeInv
<1> SUFFICES ASSUME Init
             PROVE  TypeInv
  OBVIOUS
<1>1. 0 \in Total /\ paid \in Nat BY ChainAssumption DEF Init, Total
<1>2. due \in Balances BY <1>1 DEF Init, Balances
<1>3. live \in Payload BY <1>1, <1>2 DEF Init, Payload
<1>4. 0 \in 0..MaxPass /\ 0 \in 0..MaxCash /\ 0 \in 0..MaxInline /\ 0 \in 0..MaxFaults
  BY ChainAssumption
<1>5. TypeOK BY <1>1, <1>2, <1>3, <1>4 DEF Init, TypeOK, Total
<1>6. StepData BY DEF Init, StepData, DirectStep
<1> QED BY <1>5, <1>6 DEF TypeInv

\* The variables of runs only.
RunTypes ==
    /\ pc \in [Run -> ChainStep \cup {"ready"}]
    /\ cur \in [Run -> Payload \cup {None}]
    /\ pass \in [Run -> 0..MaxPass]
    /\ seen \in [Run -> Read \cup {None}]
    /\ base \in [Run -> Total \cup {None}]
    /\ StepData

\* A handler that returns leaves well-typed variables.
LEMMA ReturnTypes ==
  ASSUME TypeInv, NEW r \in Run, Return(r)
  PROVE  RunTypes'
<1>1. 0 \in 0..MaxPass BY ChainAssumption
<1> QED
  BY <1>1 DEF Return, Goto, RunTypes, TypeInv, TypeOK, StepData, DirectStep

\* So does one that goes on, if it knows what the next step needs.
LEMMA GotoTypes ==
  ASSUME TypeInv, NEW r \in Run, NEW step \in ChainStep, Goto(r, step),
         cur' \in [Run -> Payload \cup {None}], pass' \in [Run -> 0..MaxPass],
         seen' \in [Run -> Read \cup {None}], base' \in [Run -> Total \cup {None}],
         \A q \in Run : q # r => cur'[q] = cur[q] /\ seen'[q] = seen[q] /\ base'[q] = base[q],
         cur'[r] \in Payload,
         step \in {"cashRecord", "cashTags", "cashMeta", "netWrite", "balanceWrite",
                   "balanceTags", "payWrite", "payTags"} => seen'[r] \in Read,
         step \in {"netWrite", "balance", "balanceWrite", "balanceTags", "payWrite",
                   "payTags"} => base'[r] \in Total,
         r \in Direct => step \in DirectStep
  PROVE  RunTypes'
<1>1. pc' \in [Run -> ChainStep \cup {"ready"}] BY DEF Goto, TypeInv, TypeOK
<1>2. \A q \in Run : pc'[q] = IF q = r THEN step ELSE pc[q]
  BY DEF Goto, TypeInv, TypeOK
<1>3. StepData'
  <2> SUFFICES ASSUME NEW q \in Run
               PROVE  (/\ pc[q] # "ready" => cur[q] \in Payload
                       /\ pc[q] \in {"cashRecord", "cashTags", "cashMeta", "netWrite",
                                     "balanceWrite", "balanceTags", "payWrite", "payTags"} =>
                             seen[q] \in Read
                       /\ pc[q] \in {"netWrite", "balance", "balanceWrite", "balanceTags",
                                     "payWrite", "payTags"} => base[q] \in Total
                       /\ q \in Direct => pc[q] \in DirectStep)'
    BY DEF StepData
  <2>1. CASE q = r BY <1>2, <2>1
  <2>2. CASE q # r BY <1>2, <2>2 DEF TypeInv, StepData
  <2> QED BY <2>1, <2>2
<1> QED BY <1>1, <1>3 DEF RunTypes

LEMMA SnapshotTypes == TypeInv => Snapshot \in Read
  BY DEF TypeInv, TypeOK, Snapshot, Read

\* The balance of a pass and its tags are well typed.
LEMMA DerivedTypes ==
  ASSUME TypeInv, NEW r \in Run, seen[r] \in Read
  PROVE  /\ seen[r].draft \in Payload /\ seen[r].net \in Total
         /\ seen[r].due \in Balances /\ seen[r].paid \in Nat
         /\ WithCash(r) \in Balances /\ TagsFor(WithCash(r)) \in Balances \cup {None}
         /\ base[r] \in Total => /\ Derived(r) \in Balances
                                 /\ TagsFor(Derived(r)) \in Balances \cup {None}
  BY DEF Read, WithCash, Derived, Balances, TagsFor

LEMMA PutTypes ==
  ASSUME TypeInv, NEW cash \in BOOLEAN, NEW shown \in Balances \cup {None},
         Put([live EXCEPT !.cash = cash, !.shown = shown])
  PROVE  live' \in Payload /\ hooks' \subseteq Payload
  BY DEF TypeInv, TypeOK, Put, Payload

\* A run that goes on knows what it knew.
LEMMA ThenTypes ==
  ASSUME TypeInv, NEW r \in Run, NEW step \in ChainStep, Then(r, step), pc[r] # "ready",
         step \in {"cashRecord", "cashTags", "cashMeta", "netWrite", "balanceWrite",
                   "balanceTags", "payWrite", "payTags"} => seen[r] \in Read,
         step \in {"netWrite", "balance", "balanceWrite", "balanceTags", "payWrite",
                   "payTags"} => base[r] \in Total,
         r \in Direct => step \in DirectStep
  PROVE  RunTypes'
<1>1. Goto(r, step) /\ cur' = cur /\ pass' = pass /\ seen' = seen /\ base' = base
  BY DEF Then, local
<1>2. cur[r] \in Payload BY DEF TypeInv, StepData
<1>3. /\ cur' \in [Run -> Payload \cup {None}] /\ pass' \in [Run -> 0..MaxPass]
      /\ seen' \in [Run -> Read \cup {None}] /\ base' \in [Run -> Total \cup {None}]
  BY <1>1 DEF TypeInv, TypeOK
<1> QED BY <1>1, <1>2, <1>3, GotoTypes

\* The variables other than those of runs.
RestTypes ==
    /\ live \in Payload
    /\ net \in Total
    /\ due \in Balances
    /\ paid \in Nat
    /\ recorded \in Nat
    /\ hooks \subseteq Payload
    /\ inFlight \in BOOLEAN
    /\ again \in BOOLEAN
    /\ edits \in 0..MaxEdits
    /\ added \in 0..MaxCash
    /\ earlier \in {0, 1}
    /\ inlined \in 0..MaxInline
    /\ patient \in BOOLEAN
    /\ lost \subseteq {"lock", "trail"}
    /\ faults \in 0..MaxFaults

LEMMA TypeParts == TypeInv => RunTypes /\ RestTypes
  BY DEF TypeInv, TypeOK, RunTypes, RestTypes

LEMMA PartsNext == RunTypes' /\ RestTypes' => TypeInv'
  BY DEF TypeInv, TypeOK, RunTypes, RestTypes

\* Counting one more failure stays within the bound.
LEMMA FaultTypes ==
  ASSUME RestTypes, NEW kind, Fault(kind)
  PROVE  faults' \in 0..MaxFaults
  BY ChainAssumption DEF RestTypes, Fault

\* Staff.
LEMMA StaffTypes ==
  ASSUME TypeInv, EditTotal \/ AddCash
  PROVE  TypeInv'
<1>1. RunTypes /\ RestTypes BY TypeParts
<1>2. CASE EditTotal
  <2>1. edits + 1 \in 0..MaxEdits BY <1>1, <1>2, ChainAssumption DEF EditTotal, RestTypes
  <2>2. [live EXCEPT !.total = edits + 1] \in Payload
    BY <1>1, <2>1 DEF RestTypes, Payload, Total
  <2>3. RestTypes' BY <1>1, <1>2, <2>1, <2>2 DEF EditTotal, Put, RestTypes
  <2>4. RunTypes' BY <1>1, <1>2 DEF EditTotal, local, RunTypes, StepData
  <2> QED BY <2>3, <2>4, PartsNext
<1>3. CASE AddCash
  <2>1. added + 1 \in 0..MaxCash BY <1>1, <1>3, ChainAssumption DEF AddCash, RestTypes
  <2>2. [live EXCEPT !.cash = TRUE] \in Payload BY <1>1 DEF RestTypes, Payload
  <2>3. RestTypes' BY <1>1, <1>3, <2>1, <2>2 DEF AddCash, Put, RestTypes
  <2>4. RunTypes' BY <1>1, <1>3 DEF AddCash, local, RunTypes, StepData
  <2> QED BY <2>3, <2>4, PartsNext
<1> QED BY <1>2, <1>3

\* A delivery.
LEMMA DeliverTypes ==
  ASSUME TypeInv, NEW h \in hooks, Deliver(h)
  PROVE  TypeInv'
<1>1. RunTypes /\ RestTypes BY TypeParts
<1>2. CASE Coalesce(h)
  <2>1. RestTypes' BY <1>1, <1>2 DEF Coalesce, shop, bounds, RestTypes
  <2>2. RunTypes' BY <1>1, <1>2 DEF Coalesce, local, RunTypes, StepData
  <2> QED BY <2>1, <2>2, PartsNext
<1>3. ASSUME NEW r \in Run, Begin(r, h)
      PROVE  TypeInv'
  <2>1. RestTypes' BY <1>1, <1>3 DEF Begin, shop, bounds, RestTypes
  <2>2. h \in Payload /\ 1 \in 0..MaxPass BY <1>1, ChainAssumption DEF RestTypes
  <2>3. /\ cur' \in [Run -> Payload \cup {None}] /\ pass' \in [Run -> 0..MaxPass]
        /\ seen' \in [Run -> Read \cup {None}] /\ base' \in [Run -> Total \cup {None}]
        /\ \A q \in Run : q # r => cur'[q] = cur[q] /\ seen'[q] = seen[q] /\ base'[q] = base[q]
        /\ cur'[r] = h
    BY <1>1, <1>3, <2>2 DEF Begin, RunTypes
  <2>4. Goto(r, "cash") /\ r \notin Direct BY <1>3 DEF Begin
  <2>5. RunTypes' BY <2>2, <2>3, <2>4, GotoTypes DEF ChainStep
  <2> QED BY <2>1, <2>5, PartsNext
<1> QED BY <1>2, <1>3 DEF Deliver

LEMMA BeginDirectTypes ==
  ASSUME TypeInv, NEW r \in Run, BeginDirect(r)
  PROVE  TypeInv'
<1>1. RunTypes /\ RestTypes BY TypeParts
<1>2. RestTypes' BY <1>1, ChainAssumption DEF BeginDirect, shop, RestTypes
<1>3. live \in Payload BY <1>1 DEF RestTypes
<1>4. /\ cur' \in [Run -> Payload \cup {None}] /\ pass' \in [Run -> 0..MaxPass]
      /\ seen' \in [Run -> Read \cup {None}] /\ base' \in [Run -> Total \cup {None}]
      /\ \A q \in Run : q # r => cur'[q] = cur[q] /\ seen'[q] = seen[q] /\ base'[q] = base[q]
      /\ cur'[r] = live
  BY <1>1, <1>3 DEF BeginDirect, RunTypes
<1>5. Goto(r, "netRead") BY DEF BeginDirect
<1>6. RunTypes' BY <1>3, <1>4, <1>5, GotoTypes DEF ChainStep, DirectStep
<1> QED BY <1>2, <1>6, PartsNext

\* A run at one of its steps; what it can go on with is stated by StepData.
LEMMA AtStep ==
  ASSUME TypeInv, NEW r \in Run, pc[r] # "ready"
  PROVE  /\ cur[r] \in Payload
         /\ r \in Direct => pc[r] \in DirectStep
  BY DEF TypeInv, StepData

LEMMA CashTypes ==
  ASSUME TypeInv, NEW r \in Run, Cash(r)
  PROVE  TypeInv'
<1>1. RunTypes /\ RestTypes BY TypeParts
<1>2. RestTypes' BY <1>1 DEF Cash, shop, bounds, RestTypes
<1>3. pc[r] = "cash" /\ cur' = cur /\ pass' = pass /\ base' = base BY DEF Cash
<1>4. r \notin Direct /\ cur[r] \in Payload BY <1>3, AtStep DEF DirectStep
<1>5. PICK step \in {"cashRecord", "netRead"} :
        /\ Goto(r, step)
        /\ step = "cashRecord" => seen' = [seen EXCEPT ![r] = Snapshot]
        /\ step = "netRead" => seen' = seen
  BY DEF Cash
<1>6. Snapshot \in Read BY SnapshotTypes
<1>7. /\ seen' \in [Run -> Read \cup {None}]
      /\ \A q \in Run : q # r => seen'[q] = seen[q]
      /\ step = "cashRecord" => seen'[r] \in Read
  BY <1>1, <1>5, <1>6 DEF RunTypes
<1>8. /\ cur' \in [Run -> Payload \cup {None}] /\ pass' \in [Run -> 0..MaxPass]
      /\ base' \in [Run -> Total \cup {None}]
  BY <1>1, <1>3 DEF RunTypes
<1>9. RunTypes' BY <1>3, <1>4, <1>5, <1>7, <1>8, GotoTypes DEF ChainStep
<1> QED BY <1>2, <1>9, PartsNext

LEMMA CashWriteTypes ==
  ASSUME TypeInv, NEW r \in Run, CashRecord(r) \/ CashTags(r) \/ CashMeta(r)
  PROVE  TypeInv'
<1>1. RunTypes /\ RestTypes BY TypeParts
<1>2. pc[r] \in {"cashRecord", "cashTags", "cashMeta"}
  BY DEF CashRecord, CashTags, CashMeta
<1>3. seen[r] \in Read /\ r \notin Direct
  BY <1>2, AtStep DEF TypeInv, StepData, DirectStep
<1>4. /\ seen[r].paid \in Nat /\ WithCash(r) \in Balances
      /\ TagsFor(WithCash(r)) \in Balances \cup {None}
  BY <1>3, DerivedTypes
<1>5. CASE CashRecord(r)
  <2>1. RestTypes' BY <1>1, <1>5 DEF CashRecord, shop, bounds, RestTypes
  <2>2. Then(r, "cashTags") BY <1>5 DEF CashRecord, Then
  <2>3. RunTypes' BY <1>2, <1>3, <2>2, ThenTypes DEF ChainStep
  <2> QED BY <2>1, <2>3, PartsNext
<1>6. CASE CashTags(r)
  <2>1. live' \in Payload /\ hooks' \subseteq Payload
    BY <1>4, <1>6, PutTypes DEF CashTags
  <2>2. RestTypes' BY <1>1, <1>6, <2>1 DEF CashTags, bounds, RestTypes
  <2>3. Then(r, "cashMeta") BY <1>6 DEF CashTags, Then
  <2>4. RunTypes' BY <1>2, <1>3, <2>3, ThenTypes DEF ChainStep
  <2> QED BY <2>2, <2>4, PartsNext
<1>7. CASE CashMeta(r)
  <2>1. RestTypes' BY <1>1, <1>4, <1>7 DEF CashMeta, bounds, RestTypes
  <2>2. Then(r, "netRead") BY <1>7 DEF CashMeta, Then
  <2>3. RunTypes' BY <1>2, <1>3, <2>2, ThenTypes DEF ChainStep
  <2> QED BY <2>1, <2>3, PartsNext
<1> QED BY <1>5, <1>6, <1>7

LEMMA NetReadTypes ==
  ASSUME TypeInv, NEW r \in Run, NetRead(r)
  PROVE  TypeInv'
<1>1. RunTypes /\ RestTypes BY TypeParts
<1>2. pc[r] = "netRead" /\ cur' = cur /\ pass' = pass /\ Goto(r, "netWrite")
      /\ seen' = [seen EXCEPT ![r] = Snapshot]
  BY DEF NetRead
<1>3. cur[r] \in Payload BY <1>2, AtStep
<1>4. faults' \in 0..MaxFaults BY <1>1, FaultTypes DEF NetRead, RestTypes
<1>5. RestTypes' BY <1>1, <1>4 DEF NetRead, shop, bounds, RestTypes
<1>6. PICK t \in Total : base' = [base EXCEPT ![r] = t]
  BY <1>1, <1>3 DEF NetRead, RestTypes, Payload
<1>7. Snapshot \in Read BY SnapshotTypes
<1>8. /\ seen' \in [Run -> Read \cup {None}] /\ base' \in [Run -> Total \cup {None}]
      /\ cur' \in [Run -> Payload \cup {None}] /\ pass' \in [Run -> 0..MaxPass]
      /\ seen'[r] \in Read /\ base'[r] \in Total
      /\ \A q \in Run : q # r => seen'[q] = seen[q] /\ base'[q] = base[q]
  BY <1>1, <1>2, <1>6, <1>7 DEF RunTypes
<1>9. RunTypes' BY <1>2, <1>3, <1>8, GotoTypes DEF ChainStep, DirectStep
<1> QED BY <1>5, <1>9, PartsNext

LEMMA NetWriteTypes ==
  ASSUME TypeInv, NEW r \in Run, NetWrite(r)
  PROVE  TypeInv'
<1>1. RunTypes /\ RestTypes BY TypeParts
<1>2. pc[r] = "netWrite" BY DEF NetWrite
<1>3. base[r] \in Total BY <1>2 DEF TypeInv, StepData
<1>4. RestTypes' BY <1>1, <1>3 DEF NetWrite, bounds, RestTypes
<1>5. Then(r, "pay") \/ Then(r, "balance") BY DEF NetWrite, Then
<1>6. RunTypes' BY <1>2, <1>3, <1>5, ThenTypes DEF ChainStep, DirectStep
<1> QED BY <1>4, <1>6, PartsNext

LEMMA BalanceTypes ==
  ASSUME TypeInv, NEW r \in Run, Balance(r)
  PROVE  TypeInv'
<1>1. RunTypes /\ RestTypes BY TypeParts
<1>2. RestTypes' BY <1>1 DEF Balance, shop, bounds, RestTypes
<1>3. pc[r] \in {"balance", "pay"} /\ cur' = cur /\ pass' = pass
      /\ seen' = [seen EXCEPT ![r] = Snapshot]
  BY DEF Balance
<1>4. cur[r] \in Payload BY <1>3, AtStep
<1>5. Snapshot \in Read BY SnapshotTypes
<1>6. /\ base' \in [Run -> Total \cup {None}] /\ base'[r] \in Total
      /\ \A q \in Run : q # r => base'[q] = base[q]
  <2>1. CASE pc[r] = "balance" /\ UNCHANGED base
    BY <1>1, <2>1 DEF RunTypes, StepData
  <2>2. CASE base' = [base EXCEPT ![r] = net]
    BY <1>1, <2>2 DEF RunTypes, RestTypes
  <2> QED BY <2>1, <2>2 DEF Balance
<1>7. /\ seen' \in [Run -> Read \cup {None}] /\ seen'[r] \in Read
      /\ cur' \in [Run -> Payload \cup {None}] /\ pass' \in [Run -> 0..MaxPass]
      /\ \A q \in Run : q # r => seen'[q] = seen[q]
  BY <1>1, <1>3, <1>5 DEF RunTypes
<1>8. Goto(r, "balanceWrite") \/ Goto(r, "payWrite") BY DEF Balance
<1>9. RunTypes' BY <1>3, <1>4, <1>6, <1>7, <1>8, GotoTypes DEF ChainStep, DirectStep
<1> QED BY <1>2, <1>9, PartsNext

LEMMA BalanceWriteTypes ==
  ASSUME TypeInv, NEW r \in Run, BalanceWrite(r)
  PROVE  TypeInv'
<1>1. RunTypes /\ RestTypes BY TypeParts
<1>2. pc[r] \in {"balanceWrite", "payWrite"} BY DEF BalanceWrite
<1>3. seen[r] \in Read /\ base[r] \in Total BY <1>2 DEF TypeInv, StepData
<1>4. Derived(r) \in Balances BY <1>3, DerivedTypes
<1>5. RestTypes' BY <1>1, <1>4 DEF BalanceWrite, bounds, RestTypes
<1>6. Then(r, "balanceTags") \/ Then(r, "payTags") BY DEF BalanceWrite, Then
<1>7. RunTypes' BY <1>2, <1>3, <1>6, ThenTypes DEF ChainStep, DirectStep
<1> QED BY <1>5, <1>7, PartsNext

\* What follows the last step.
LEMMA LastTypes ==
  ASSUME TypeInv, NEW r \in Run, EndPass(r), pc[r] # "ready"
  PROVE  RunTypes'
<1>1. CASE r \in Direct BY <1>1, ReturnTypes DEF EndPass
<1>2. CASE r \notin Direct BY <1>2, ThenTypes DEF EndPass, ChainStep
<1> QED BY <1>1, <1>2

LEMMA BalanceTagsTypes ==
  ASSUME TypeInv, NEW r \in Run, BalanceTags(r)
  PROVE  TypeInv'
<1>1. RunTypes /\ RestTypes BY TypeParts
<1>2. pc[r] \in {"balanceTags", "payTags"} BY DEF BalanceTags
<1>3. seen[r] \in Read /\ base[r] \in Total BY <1>2 DEF TypeInv, StepData
<1>4. TagsFor(Derived(r)) \in Balances \cup {None} /\ seen[r].draft.cash \in BOOLEAN
  BY <1>3, DerivedTypes DEF Payload
<1>5. live' \in Payload /\ hooks' \subseteq Payload
  <2>1. CASE UNCHANGED <<live, hooks>> BY <1>1, <2>1 DEF RestTypes
  <2>2. CASE Put([live EXCEPT !.cash = seen[r].draft.cash, !.shown = TagsFor(Derived(r))])
    BY <1>4, <2>2, PutTypes
  <2> QED BY <2>1, <2>2 DEF BalanceTags
<1>6. RestTypes' BY <1>1, <1>5 DEF BalanceTags, bounds, RestTypes
<1>7. Then(r, "pay") \/ EndPass(r) BY DEF BalanceTags
<1>8. RunTypes' BY <1>2, <1>7, ThenTypes, LastTypes DEF ChainStep, DirectStep
<1> QED BY <1>6, <1>8, PartsNext

LEMMA TrailTypes ==
  ASSUME TypeInv, NEW r \in Run, Trail(r)
  PROVE  TypeInv'
<1>1. RunTypes /\ RestTypes BY TypeParts
<1>2. pc[r] = "trail" BY DEF Trail
<1>3. r \notin Direct BY <1>2, AtStep DEF DirectStep
<1>4. inFlight' \in BOOLEAN /\ again' \in BOOLEAN BY <1>1 DEF Trail, Free, RestTypes
<1>5. RestTypes' BY <1>1, <1>4 DEF Trail, shop, bounds, RestTypes
<1>6. Then(r, "refetch") \/ Return(r) BY DEF Trail, Free
<1>7. RunTypes' BY <1>2, <1>3, <1>6, ThenTypes, ReturnTypes DEF ChainStep
<1> QED BY <1>5, <1>7, PartsNext

LEMMA RefetchTypes ==
  ASSUME TypeInv, NEW r \in Run, Refetch(r)
  PROVE  TypeInv'
<1>1. RunTypes /\ RestTypes BY TypeParts
<1>2. pc[r] = "refetch" BY DEF Refetch
<1>3. r \notin Direct BY <1>2, AtStep DEF DirectStep
<1>4. faults' \in 0..MaxFaults BY <1>1, FaultTypes DEF Refetch, RestTypes
<1>5. inFlight' \in BOOLEAN /\ again' \in BOOLEAN BY <1>1 DEF Refetch, Free, RestTypes
<1>6. RestTypes' BY <1>1, <1>4, <1>5 DEF Refetch, shop, bounds, RestTypes
<1>7. CASE /\ pass[r] < MaxPass
           /\ cur' = [cur EXCEPT ![r] = live]
           /\ pass' = [pass EXCEPT ![r] = @ + 1]
           /\ Goto(r, "cash")
           /\ UNCHANGED <<inFlight, again, seen, base, lost, faults>>
  <2>1. live \in Payload /\ pass[r] + 1 \in 0..MaxPass
    BY <1>1, <1>7, ChainAssumption DEF RestTypes, RunTypes
  <2>2. /\ cur' \in [Run -> Payload \cup {None}] /\ pass' \in [Run -> 0..MaxPass]
        /\ seen' \in [Run -> Read \cup {None}] /\ base' \in [Run -> Total \cup {None}]
        /\ cur'[r] \in Payload
        /\ \A q \in Run : q # r => cur'[q] = cur[q] /\ seen'[q] = seen[q] /\ base'[q] = base[q]
    BY <1>1, <1>7, <2>1 DEF RunTypes
  <2>3. RunTypes' BY <1>3, <1>7, <2>2, GotoTypes DEF ChainStep
  <2> QED BY <1>6, <2>3, PartsNext
<1>8. CASE Return(r) BY <1>6, <1>8, ReturnTypes, PartsNext
<1> QED BY <1>7, <1>8 DEF Refetch, Free

LEMMA FailureTypes ==
  ASSUME TypeInv, NEW r \in Run, StepFails(r) \/ Backstop(r)
  PROVE  TypeInv'
<1>1. RunTypes /\ RestTypes BY TypeParts
<1>2. CASE StepFails(r)
  <2>1. faults' \in 0..MaxFaults BY <1>1, <1>2, FaultTypes DEF StepFails
  <2>2. RestTypes' BY <1>1, <1>2, <2>1 DEF StepFails, shop, bounds, RestTypes
  <2>3. pc[r] # "ready" BY <1>2 DEF StepFails
  <2>4. Then(r, "netRead") \/ Then(r, "pay") \/ Return(r) \/ EndPass(r)
    BY <1>2 DEF StepFails
  <2>5. RunTypes' BY <2>3, <2>4, ThenTypes, ReturnTypes, LastTypes DEF ChainStep, DirectStep
  <2> QED BY <2>2, <2>5, PartsNext
<1>3. CASE Backstop(r)
  <2>1. faults' \in 0..MaxFaults BY <1>1, <1>3, FaultTypes DEF Backstop
  <2>2. RestTypes' BY <1>1, <1>3, <2>1 DEF Backstop, shop, bounds, RestTypes
  <2>3. RunTypes' BY <1>1, <1>3 DEF Backstop, local, RunTypes, StepData
  <2> QED BY <2>2, <2>3, PartsNext
<1> QED BY <1>2, <1>3

LEMMA NextTypes == TypeInv /\ [Next]_vars => TypeInv'
<1> SUFFICES ASSUME TypeInv, [Next]_vars
             PROVE  TypeInv'
  OBVIOUS
<1>1. CASE UNCHANGED vars
  <2>1. RunTypes /\ RestTypes BY TypeParts
  <2>2. RestTypes' BY <1>1, <2>1 DEF vars, RestTypes
  <2>3. RunTypes' BY <1>1, <2>1 DEF vars, RunTypes, StepData
  <2> QED BY <2>2, <2>3, PartsNext
<1>2. CASE EditTotal \/ AddCash BY <1>2, StaffTypes
<1>3. ASSUME NEW h \in hooks, Deliver(h) PROVE TypeInv' BY <1>3, DeliverTypes
<1>4. ASSUME NEW r \in Run, BeginDirect(r) PROVE TypeInv' BY <1>4, BeginDirectTypes
<1>5. ASSUME NEW r \in Run, PassStep(r) PROVE TypeInv'
  BY <1>5, CashTypes, CashWriteTypes, NetReadTypes, NetWriteTypes, BalanceTypes,
     BalanceWriteTypes, BalanceTagsTypes, TrailTypes, RefetchTypes DEF PassStep
<1>6. ASSUME NEW r \in Run, StepFails(r) \/ Backstop(r) PROVE TypeInv'
  BY <1>6, FailureTypes
<1> QED BY <1>1, <1>2, <1>3, <1>4, <1>5, <1>6 DEF Next

\* Every variable keeps its type, and every run knows what its step reads.
THEOREM ChainTypes == Spec => []TypeInv
<1>1. Init => TypeInv BY InitTypes
<1>2. TypeInv /\ [Next]_vars => TypeInv' BY NextTypes
<1> QED BY <1>1, <1>2, PTL DEF Spec

--------------------
(* The lock *)

\* As long as nothing outlives it, the lock is held just while a chain runs,
\* and one chain runs.
Lock ==
    /\ NoFailure => "lock" \notin lost
    /\ "lock" \notin lost => /\ \A r, s \in Run : Working(r) /\ Working(s) => r = s
                             /\ inFlight <=> \E r \in Run : Working(r)

\* A recomputeCollection is at work only after one was called.
DirectIdle == inlined = 0 => \A r \in Direct : pc[r] = "ready"

\* No step makes a failure undone, nor a call of recomputeCollection, nor
\* gives back what was lost.
LEMMA FailuresStay ==
  ASSUME TypeInv, [Next]_vars
  PROVE  /\ faults' = faults \/ faults' = faults + 1
         /\ NoFailure' => NoFailure /\ faults' = faults
         /\ inlined' = 0 => inlined = 0
         /\ lost \subseteq lost'
         /\ "lock" \in lost' => "lock" \in lost \/ faults' = faults + 1
<1>1. faults \in Nat /\ inlined \in Nat BY DEF TypeInv, TypeOK
<1>2. faults' = faults \/ faults' = faults + 1
  BY DEF Next, vars, EditTotal, AddCash, Deliver, Coalesce, Begin, BeginDirect, PassStep,
         Cash, CashRecord, CashTags, CashMeta, NetRead, NetWrite, Balance, BalanceWrite,
         BalanceTags, Trail, Refetch, StepFails, Backstop, Fault
<1>3. inlined' = inlined \/ inlined' = inlined + 1
  BY DEF Next, vars, bounds, EditTotal, AddCash, Deliver, Coalesce, Begin, BeginDirect,
         PassStep, Cash, CashRecord, CashTags, CashMeta, NetRead, NetWrite, Balance,
         BalanceWrite, BalanceTags, Trail, Refetch, StepFails, Backstop
<1>4. \/ lost' = lost
      \/ lost' = lost \cup {"trail"}
      \/ lost' = lost \cup {"lock"} /\ faults' = faults + 1
  <2>1. CASE \E r \in Run : Backstop(r) BY <2>1 DEF Backstop, Fault
  <2>2. CASE \E r \in Run : Refetch(r) BY <2>2 DEF Refetch
  <2>3. CASE \E r \in Run : PassStep(r) /\ ~Refetch(r)
    BY <2>3 DEF PassStep, Cash, CashRecord, CashTags, CashMeta, NetRead, NetWrite, Balance,
       BalanceWrite, BalanceTags, Trail, bounds
  <2>4. CASE \E r \in Run : StepFails(r) BY <2>4 DEF StepFails, bounds
  <2>5. CASE EditTotal \/ AddCash BY <2>5 DEF EditTotal, AddCash
  <2>6. CASE \E h \in hooks : Deliver(h) BY <2>6 DEF Deliver, Coalesce, Begin, bounds
  <2>7. CASE \E r \in Run : BeginDirect(r) BY <2>7 DEF BeginDirect
  <2>8. CASE UNCHANGED vars BY <2>8 DEF vars
  <2> QED BY <2>1, <2>2, <2>3, <2>4, <2>5, <2>6, <2>7, <2>8 DEF Next
<1> QED BY <1>1, <1>2, <1>3, <1>4 DEF NoFailure

\* A run that goes on: it stays at work if it held the lock.
GoesOn(r) ==
    /\ pc[r] \in ChainStep
    /\ \E step \in ChainStep \cup {"ready"} :
          /\ Goto(r, step)
          /\ r \notin Direct => step \in ChainStep
    /\ UNCHANGED inFlight

LEMMA LastGoesOn ==
  ASSUME NEW r \in Run, EndPass(r)
  PROVE  \E step \in {"ready", "trail"} : Goto(r, step) /\ (r \in Direct <=> step = "ready")
<1>1. CASE r \in Direct BY <1>1 DEF EndPass, Return
<1>2. CASE r \notin Direct BY <1>2 DEF EndPass, Then
<1> QED BY <1>1, <1>2

LEMMA StepGoesOn ==
  ASSUME NEW r \in Run, PassStep(r)
  PROVE  GoesOn(r) \/ (pc[r] \in {"trail", "refetch"} /\ Free(r))
<1>1. CASE Cash(r) BY <1>1 DEF Cash, GoesOn, ChainStep
<1>2. CASE CashRecord(r) BY <1>2 DEF CashRecord, GoesOn, ChainStep
<1>3. CASE CashTags(r) BY <1>3 DEF CashTags, GoesOn, ChainStep
<1>4. CASE CashMeta(r) BY <1>4 DEF CashMeta, GoesOn, ChainStep
<1>5. CASE NetRead(r) BY <1>5 DEF NetRead, GoesOn, ChainStep
<1>6. CASE NetWrite(r) BY <1>6 DEF NetWrite, GoesOn, ChainStep
<1>7. CASE Balance(r) BY <1>7 DEF Balance, GoesOn, ChainStep
<1>8. CASE BalanceWrite(r) BY <1>8 DEF BalanceWrite, GoesOn, ChainStep
<1>9. CASE BalanceTags(r)
  <2>1. UNCHANGED inFlight /\ pc[r] \in ChainStep BY <1>9 DEF BalanceTags, ChainStep
  <2>2. CASE Then(r, "pay") BY <2>1, <2>2 DEF Then, GoesOn, ChainStep
  <2>3. CASE EndPass(r) BY <2>1, <2>3, LastGoesOn DEF GoesOn, ChainStep
  <2> QED BY <1>9, <2>2, <2>3 DEF BalanceTags
<1>10. CASE Trail(r) BY <1>10 DEF Trail, Then, GoesOn, ChainStep
<1>11. CASE Refetch(r) BY <1>11 DEF Refetch, GoesOn, ChainStep
<1> QED BY <1>1, <1>2, <1>3, <1>4, <1>5, <1>6, <1>7, <1>8, <1>9, <1>10, <1>11 DEF PassStep

LEMMA NextLock ==
  ASSUME TypeInv, Lock, DirectIdle, [Next]_vars
  PROVE  Lock' /\ DirectIdle'
<1>0. pc \in [Run -> ChainStep \cup {"ready"}] /\ "ready" \notin ChainStep /\ Direct \subseteq Run
  BY ChainAssumption DEF TypeInv, TypeOK, ChainStep
<1>1. ("lock" \notin lost' => "lock" \notin lost) /\ (NoFailure' => "lock" \notin lost')
  BY FailuresStay DEF Lock, TypeInv, TypeOK, NoFailure
<1>2. inlined' = 0 => inlined = 0 BY FailuresStay
<1>3. CASE UNCHANGED <<pc, inFlight>>
  BY <1>1, <1>2, <1>3 DEF Lock, DirectIdle, Working
<1>4. ASSUME NEW r \in Run, NEW h \in hooks, Begin(r, h)
      PROVE  Lock' /\ DirectIdle'
  <2>1. r \notin Direct /\ ~inFlight /\ inFlight' /\ pc' = [pc EXCEPT ![r] = "cash"]
    BY <1>4 DEF Begin, Goto
  <2>2. \A q \in Run : pc'[q] = IF q = r THEN "cash" ELSE pc[q] BY <1>0, <2>1
  <2>3. "cash" \in ChainStep BY DEF ChainStep
  <2>4. Lock' BY <1>1, <2>1, <2>2, <2>3 DEF Lock, Working
  <2>5. DirectIdle' BY <1>0, <1>2, <2>1, <2>2 DEF DirectIdle
  <2> QED BY <2>4, <2>5
<1>5. ASSUME NEW r \in Run, BeginDirect(r)
      PROVE  Lock' /\ DirectIdle'
  <2>1. r \in Direct /\ UNCHANGED inFlight /\ pc' = [pc EXCEPT ![r] = "netRead"]
        /\ inlined' = inlined + 1
    BY <1>5 DEF BeginDirect, Goto
  <2>2. \A q \in Run : q # r => pc'[q] = pc[q] BY <1>0, <2>1
  <2>3. Lock' BY <1>1, <2>1, <2>2 DEF Lock, Working
  <2>4. inlined' # 0 BY <2>1 DEF TypeInv, TypeOK
  <2> QED BY <2>3, <2>4 DEF DirectIdle
<1>6. ASSUME NEW r \in Run, GoesOn(r)
      PROVE  Lock' /\ DirectIdle'
  <2>1. PICK step \in ChainStep \cup {"ready"} :
          Goto(r, step) /\ (r \notin Direct => step \in ChainStep)
    BY <1>6 DEF GoesOn
  <2>2. pc[r] \in ChainStep /\ UNCHANGED inFlight BY <1>6 DEF GoesOn
  <2>3. \A q \in Run : pc'[q] = IF q = r THEN step ELSE pc[q] BY <1>0, <2>1 DEF Goto
  <2>4. \A q \in Run : Working(q)' <=> Working(q) BY <2>1, <2>2, <2>3 DEF Working
  <2>5. Lock' BY <1>1, <2>2, <2>4 DEF Lock
  <2>6. r \in Direct => inlined # 0 BY <1>0, <2>2 DEF DirectIdle
  <2>7. DirectIdle' BY <1>0, <1>2, <2>3, <2>6 DEF DirectIdle
  <2> QED BY <2>5, <2>7
<1>7. ASSUME NEW r \in Run, pc[r] \in {"trail", "refetch"}, Free(r)
      PROVE  Lock' /\ DirectIdle'
  <2>1. r \notin Direct /\ Working(r)
    BY <1>7, AtStep DEF DirectStep, Working, ChainStep
  <2>2. inFlight' = FALSE /\ pc' = [pc EXCEPT ![r] = "ready"]
    BY <1>7 DEF Free, Return, Goto
  <2>3. \A q \in Run : pc'[q] = IF q = r THEN "ready" ELSE pc[q] BY <1>0, <2>2
  <2>4. \A q \in Run : Working(q)' <=> Working(q) /\ q # r BY <1>0, <2>3 DEF Working
  <2>5. Lock' BY <1>1, <2>1, <2>2, <2>4 DEF Lock
  <2>6. DirectIdle' BY <1>0, <1>2, <2>3 DEF DirectIdle
  <2> QED BY <2>5, <2>6
<1>8. ASSUME NEW r \in Run, StepFails(r) \/ Backstop(r)
      PROVE  Lock' /\ DirectIdle'
  <2>1. CASE StepFails(r)
    <3>1. pc[r] \in ChainStep /\ UNCHANGED inFlight BY <2>1 DEF StepFails, ChainStep
    <3>2. PICK step \in {"netRead", "pay", "ready", "trail"} :
            Goto(r, step) /\ (r \notin Direct => step # "ready")
      BY <2>1, LastGoesOn DEF StepFails, Then, Return
    <3>3. GoesOn(r) BY <3>1, <3>2 DEF GoesOn, ChainStep
    <3> QED BY <1>6, <3>3
  <2>2. CASE Backstop(r)
    <3>1. "lock" \in lost' /\ UNCHANGED pc BY <2>2 DEF Backstop
    <3> QED BY <1>1, <1>2, <3>1 DEF Lock, DirectIdle
  <2> QED BY <1>8, <2>1, <2>2
<1>9. CASE EditTotal \/ AddCash BY <1>3, <1>9 DEF EditTotal, AddCash
<1>10. ASSUME NEW h \in hooks, Deliver(h)
       PROVE  Lock' /\ DirectIdle'
  BY <1>3, <1>4, <1>10 DEF Deliver, Coalesce
<1>11. ASSUME NEW r \in Run, PassStep(r)
       PROVE  Lock' /\ DirectIdle'
  BY <1>6, <1>7, <1>11, StepGoesOn
<1> QED BY <1>3, <1>5, <1>8, <1>9, <1>10, <1>11 DEF Next, vars

LockInv == TypeInv /\ Lock /\ DirectIdle

LEMMA LockHolds == Spec => []LockInv
<1>1. Init => LockInv
  <2> SUFFICES ASSUME Init PROVE LockInv OBVIOUS
  <2>1. TypeInv BY InitTypes
  <2>2. Lock /\ DirectIdle
    BY ChainAssumption DEF Init, Lock, Working, ChainStep, DirectIdle
  <2> QED BY <2>1, <2>2 DEF LockInv
<1>2. LockInv /\ [Next]_vars => LockInv' BY NextTypes, NextLock DEF LockInv
<1> QED BY <1>1, <1>2, PTL DEF Spec

\* Types hold, and a draft has one chain at a time (server.js:3744): the
\* second delivery of an update never starts a chain beside the first.
THEOREM ChainSoundHolds == Spec => []ChainSound
<1>1. LockInv => ChainSound
  <2> SUFFICES ASSUME LockInv PROVE ChainSound OBVIOUS
  <2>1. TypeOK BY DEF LockInv, TypeInv
  <2>2. ASSUME "lock" \notin lost
        PROVE  Cardinality({r \in Run : Working(r)}) <= 1
    <3>1. \A r, s \in Run : Working(r) /\ Working(s) => r = s
      BY <2>2 DEF LockInv, Lock
    <3>2. CASE {r \in Run : Working(r)} = {} BY <3>2, FS_EmptySet
    <3>3. CASE \E r \in Run : Working(r)
      <4>1. PICK r \in Run : Working(r) BY <3>3
      <4>2. {q \in Run : Working(q)} = {r} BY <3>1, <4>1
      <4> QED BY <4>2, FS_Singleton
    <3> QED BY <3>2, <3>3
  <2>3. OneChain BY <2>2 DEF OneChain, LockInv, Lock
  <2> QED BY <2>1, <2>3 DEF ChainSound
<1> QED BY <1>1, LockHolds, PTL

--------------------
(* Payments *)

\* The legs and store_deposits count the same payments, except while a cash
\* tag is being recorded.
Legs ==
    NoFailure =>
        /\ (\A r \in Run : pc[r] \notin {"cashTags", "cashMeta"}) => paid = recorded
        /\ \A r \in Run : pc[r] \in {"cashTags", "cashMeta"} => recorded = paid + 1
        /\ \A r \in Run : pc[r] \in {"cashRecord", "cashTags", "cashMeta"} =>
              seen[r].paid = paid

\* A step that counts nothing: only CashRecord and CashMeta do.
CountsNothing ==
    /\ UNCHANGED <<paid, recorded>>
    /\ \A r \in Run :
          /\ pc'[r] \in {"cashTags", "cashMeta"} <=> pc[r] \in {"cashTags", "cashMeta"}
          /\ pc'[r] \in {"cashRecord", "cashTags", "cashMeta"} =>
                \/ pc[r] \in {"cashRecord", "cashTags", "cashMeta"} /\ seen'[r] = seen[r]
                \/ seen'[r].paid = paid

LEMMA SnapshotPaid == Snapshot.paid = paid /\ Snapshot.draft = live
  BY DEF Snapshot

\* A step that leaves the work on cash alone: r goes on to step.
LEMMA Elsewhere ==
  ASSUME TypeInv, NEW r \in Run, NEW step, Goto(r, step), UNCHANGED <<paid, recorded>>,
         step \notin {"cashRecord", "cashTags", "cashMeta"},
         pc[r] \notin {"cashTags", "cashMeta"},
         \A q \in Run : q # r => seen'[q] = seen[q]
  PROVE  CountsNothing
<1>1. \A q \in Run : pc'[q] = IF q = r THEN step ELSE pc[q]
  BY DEF Goto, TypeInv, TypeOK
<1> QED BY <1>1 DEF CountsNothing

\* The only step that enters the work on cash.
LEMMA CashElsewhere ==
  ASSUME TypeInv, NEW r \in Run, Cash(r)
  PROVE  CountsNothing
<1>1. pc[r] = "cash" /\ UNCHANGED <<paid, recorded>> BY DEF Cash, shop
<1>2. CASE Goto(r, "netRead") /\ UNCHANGED seen BY <1>1, <1>2, Elsewhere
<1>3. CASE seen' = [seen EXCEPT ![r] = Snapshot] /\ Goto(r, "cashRecord")
  <2>1. \A q \in Run : pc'[q] = IF q = r THEN "cashRecord" ELSE pc[q]
    BY <1>3 DEF Goto, TypeInv, TypeOK
  <2>2. seen'[r].paid = paid /\ \A q \in Run : q # r => seen'[q] = seen[q]
    BY <1>3, SnapshotPaid DEF TypeInv, TypeOK
  <2> QED BY <1>1, <2>1, <2>2 DEF CountsNothing
<1> QED BY <1>2, <1>3 DEF Cash

\* What a run that returns or goes on forgets or keeps.
LEMMA SeenElsewhere ==
  ASSUME TypeInv, NEW r \in Run, PassStep(r)
  PROVE  \A q \in Run : q # r => seen'[q] = seen[q] /\ pc'[q] = pc[q]
<1>0. seen \in [Run -> Read \cup {None}] /\ pc \in [Run -> ChainStep \cup {"ready"}]
  BY DEF TypeInv, TypeOK
<1>1. CASE Cash(r) \/ NetRead(r) \/ Balance(r)
  BY <1>0, <1>1 DEF Cash, NetRead, Balance, Goto
<1>2. CASE CashRecord(r) \/ CashTags(r) \/ CashMeta(r) \/ NetWrite(r) \/ BalanceWrite(r)
  BY <1>0, <1>2 DEF CashRecord, CashTags, CashMeta, NetWrite, BalanceWrite, Goto, local
<1>3. CASE BalanceTags(r)
  <2>1. Then(r, "pay") \/ Then(r, "trail") \/ Return(r) BY <1>3 DEF BalanceTags, EndPass
  <2> QED BY <1>0, <2>1 DEF Then, Return, Goto, local
<1>4. CASE Trail(r) \/ Refetch(r)
  BY <1>0, <1>4 DEF Trail, Refetch, Free, Then, Return, Goto, local
<1> QED BY <1>1, <1>2, <1>3, <1>4 DEF PassStep

LEMMA StepCounts ==
  ASSUME TypeInv, NEW r \in Run, PassStep(r), ~CashRecord(r), ~CashMeta(r)
  PROVE  CountsNothing
<1>0. \A q \in Run : q # r => seen'[q] = seen[q] /\ pc'[q] = pc[q] BY SeenElsewhere
<1>1. CASE Cash(r) BY <1>1, CashElsewhere
<1>2. CASE CashTags(r)
  <2>1. UNCHANGED <<paid, recorded, seen>> /\ Goto(r, "cashMeta") /\ pc[r] = "cashTags"
    BY <1>2 DEF CashTags, local
  <2>2. pc'[r] = "cashMeta" BY <2>1 DEF Goto, TypeInv, TypeOK
  <2> QED BY <1>0, <2>1, <2>2 DEF CountsNothing
<1>3. CASE NetRead(r) BY <1>0, <1>3, Elsewhere DEF NetRead, shop
<1>4. CASE NetWrite(r)
  BY <1>0, <1>4, Elsewhere DEF NetWrite
<1>5. CASE Balance(r)
  <2>1. UNCHANGED <<paid, recorded>> BY <1>5 DEF Balance, shop
  <2> QED BY <1>0, <1>5, <2>1, Elsewhere DEF Balance
<1>6. CASE BalanceWrite(r) BY <1>0, <1>6, Elsewhere DEF BalanceWrite
<1>7. CASE BalanceTags(r)
  <2>1. /\ UNCHANGED <<paid, recorded>> /\ pc[r] \in {"balanceTags", "payTags"}
        /\ Then(r, "pay") \/ EndPass(r)
    BY <1>7 DEF BalanceTags
  <2>2. Goto(r, "pay") \/ Goto(r, "ready") \/ Goto(r, "trail")
    BY <2>1, LastGoesOn DEF Then
  <2> QED BY <1>0, <2>1, <2>2, Elsewhere
<1>8. CASE Trail(r)
  <2>1. UNCHANGED <<paid, recorded>> BY <1>8 DEF Trail, shop
  <2>2. pc[r] = "trail" /\ (Goto(r, "refetch") \/ Goto(r, "ready"))
    BY <1>8 DEF Trail, Free, Then, Return
  <2> QED BY <1>0, <2>1, <2>2, Elsewhere
<1>9. CASE Refetch(r)
  <2>1. UNCHANGED <<paid, recorded>> BY <1>9 DEF Refetch, shop
  <2>2. pc[r] = "refetch" /\ (Goto(r, "cash") \/ Goto(r, "ready"))
    BY <1>9 DEF Refetch, Free, Return
  <2> QED BY <1>0, <2>1, <2>2, Elsewhere
<1> QED BY <1>1, <1>2, <1>3, <1>4, <1>5, <1>6, <1>7, <1>8, <1>9 DEF PassStep

LEMMA NextLegs ==
  ASSUME LockInv, Legs, [Next]_vars
  PROVE  Legs'
<1>0. TypeInv BY DEF LockInv
<1>1. SUFFICES ASSUME NoFailure'
               PROVE  Legs'
  BY DEF Legs
<1>2. NoFailure /\ faults' = faults /\ faults \in Nat
  BY <1>0, <1>1, FailuresStay DEF TypeInv, TypeOK
<1>3. CASE CountsNothing BY <1>2, <1>3 DEF Legs, CountsNothing
<1>4. CASE UNCHANGED <<pc, paid, recorded, seen>> BY <1>2, <1>4 DEF Legs
<1>5. ASSUME NEW r \in Run, NEW h \in hooks, Begin(r, h)
      PROVE  Legs'
  <2>1. UNCHANGED <<paid, recorded, seen>> /\ Goto(r, "cash") /\ pc[r] = "ready"
    BY <1>5 DEF Begin, shop
  <2> QED BY <1>0, <1>3, <2>1, Elsewhere
<1>6. ASSUME NEW r \in Run, BeginDirect(r)
      PROVE  Legs'
  <2>1. UNCHANGED <<paid, recorded, seen>> /\ Goto(r, "netRead") /\ pc[r] = "ready"
    BY <1>6 DEF BeginDirect, shop
  <2> QED BY <1>0, <1>3, <2>1, Elsewhere
<1>7. ASSUME NEW r \in Run, CashRecord(r) \/ CashMeta(r)
      PROVE  Legs'
  <2>1. pc[r] \in {"cashRecord", "cashMeta"} BY <1>7 DEF CashRecord, CashMeta
  <2>2. r \notin Direct /\ Working(r)
    BY <1>0, <2>1, AtStep DEF DirectStep, Working, ChainStep
  <2>3. \A q \in Run : q # r => pc[q] \notin {"cashRecord", "cashTags", "cashMeta"}
    <3> SUFFICES ASSUME NEW q \in Run, q # r, pc[q] \in {"cashRecord", "cashTags", "cashMeta"}
                 PROVE  FALSE
      OBVIOUS
    <3>1. Working(q) BY <1>0, AtStep DEF DirectStep, Working, ChainStep
    <3> QED BY <1>2, <2>2, <3>1 DEF LockInv, Lock
  <2>4. \A q \in Run : q # r => pc'[q] = pc[q]
    BY <1>0, <1>7 DEF CashRecord, CashMeta, Goto, TypeInv, TypeOK
  <2>5. UNCHANGED seen BY <1>7 DEF CashRecord, CashMeta, local
  <2>6. paid \in Nat /\ recorded \in Nat BY <1>0 DEF TypeInv, TypeOK
  <2>7. CASE CashRecord(r)
    <3>1. /\ pc[r] = "cashRecord" /\ pc'[r] = "cashTags"
          /\ recorded' = recorded + 1 /\ paid' = paid
      BY <1>0, <2>7 DEF CashRecord, Goto, shop, TypeInv, TypeOK
    <3>2. paid = recorded BY <1>2, <2>3, <3>1 DEF Legs
    <3>3. seen[r].paid = paid BY <1>2, <3>1 DEF Legs
    <3> QED BY <2>3, <2>4, <2>5, <2>6, <3>1, <3>2, <3>3 DEF Legs
  <2>8. CASE CashMeta(r)
    <3>1. /\ pc[r] = "cashMeta" /\ pc'[r] = "netRead"
          /\ recorded' = recorded /\ paid' = seen[r].paid + 1
      BY <1>0, <2>8 DEF CashMeta, Goto, TypeInv, TypeOK
    <3>2. recorded = paid + 1 /\ seen[r].paid = paid BY <1>2, <3>1 DEF Legs
    <3> QED BY <2>3, <2>4, <2>5, <2>6, <3>1, <3>2 DEF Legs
  <2> QED BY <1>7, <2>7, <2>8
<1>8. ASSUME NEW r \in Run, PassStep(r) PROVE Legs'
  BY <1>0, <1>3, <1>7, <1>8, StepCounts
<1>9. ASSUME NEW r \in Run, StepFails(r) \/ Backstop(r) PROVE Legs'
  <2>1. faults' = faults + 1 BY <1>9 DEF StepFails, Backstop, Fault
  <2> QED BY <1>2, <2>1
<1>10. CASE EditTotal \/ AddCash BY <1>4, <1>10 DEF EditTotal, AddCash, local
<1>11. ASSUME NEW h \in hooks, Deliver(h) PROVE Legs'
  BY <1>4, <1>5, <1>11 DEF Deliver, Coalesce, shop, local
<1>12. CASE UNCHANGED vars BY <1>4, <1>12 DEF vars
<1> QED BY <1>6, <1>8, <1>9, <1>10, <1>11, <1>12 DEF Next

\* A draft whose cash tag is still to be taken up: its delivery is the only
\* thing under way.
Tagged ==
    /\ live.cash
    /\ hooks = {live}
    /\ \A r \in Run : pc[r] = "ready"
    /\ recorded + 1 = earlier + added

\* One chain is taking it up.
TakenUp ==
    /\ live.cash
    /\ hooks = {}
    /\ \E r \in Run :
          /\ \A q \in Run : q # r => pc[q] = "ready"
          /\ \/ pc[r] = "cash" /\ cur[r].cash /\ recorded + 1 = earlier + added
             \/ pc[r] = "cashRecord" /\ recorded + 1 = earlier + added
             \/ pc[r] = "cashTags" /\ recorded = earlier + added

\* No cash tag is left, and no run or delivery knows of one.
NoTag(r) ==
    /\ pc[r] \notin {"cashRecord", "cashTags"}
    /\ pc[r] = "cash" => ~cur[r].cash
    /\ pc[r] \in {"balanceWrite", "balanceTags", "payWrite", "payTags"} => ~seen[r].draft.cash

Stripped ==
    /\ ~live.cash
    /\ \A h \in hooks : ~h.cash
    /\ \A r \in Run : NoTag(r)
    /\ recorded = earlier + added

\* Neither staff nor a recomputeCollection came in between, and nothing failed.
Undisturbed == NoFailure /\ inlined = 0 /\ patient

CashPhase == Undisturbed => Tagged \/ TakenUp \/ Stripped

PayInv == LockInv /\ Legs /\ CashPhase

LEMMA Undone ==
  ASSUME LockInv, [Next]_vars, Undisturbed'
  PROVE  Undisturbed /\ (EditTotal \/ AddCash => Quiet)
<1>1. NoFailure /\ inlined = 0 BY FailuresStay DEF Undisturbed, LockInv
<1>2. patient /\ (EditTotal \/ AddCash => Quiet)
  BY DEF Next, vars, bounds, Undisturbed, EditTotal, AddCash, Deliver, Coalesce, Begin,
     BeginDirect, PassStep, Cash, CashRecord, CashTags, CashMeta, NetRead, NetWrite, Balance,
     BalanceWrite, BalanceTags, Trail, Refetch, StepFails, Backstop
<1> QED BY <1>1, <1>2 DEF Undisturbed

\* What a step of a pass does to the draft.
LEMMA StrippedStep ==
  ASSUME TypeInv, Stripped, NEW r \in Run, PassStep(r)
  PROVE  Stripped'
<1>0. \A q \in Run : q # r => seen'[q] = seen[q] /\ pc'[q] = pc[q] BY SeenElsewhere
<1>1. /\ live \in Payload /\ seen \in [Run -> Read \cup {None}] /\ cur \in [Run -> Payload \cup {None}]
      /\ pc \in [Run -> ChainStep \cup {"ready"}]
  BY DEF TypeInv, TypeOK
<1>2. NoTag(r) BY DEF Stripped
<1>3. \A q \in Run : q # r => cur'[q] = cur[q]
  BY <1>1 DEF PassStep, Cash, CashRecord, CashTags, CashMeta, NetRead, NetWrite, Balance,
     BalanceWrite, BalanceTags, Trail, Refetch, EndPass, Free, Then, Return, local
<1>4. \A q \in Run : q # r => NoTag(q)' BY <1>0, <1>3 DEF Stripped, NoTag
<1>5. ~CashRecord(r) /\ ~CashTags(r) BY <1>2 DEF NoTag, CashRecord, CashTags
<1>6. recorded' = recorded /\ earlier' = earlier /\ added' = added
  BY <1>5 DEF PassStep, Cash, CashMeta, NetRead, NetWrite, Balance, BalanceWrite,
     BalanceTags, Trail, Refetch, bounds
<1>7. SUFFICES ~live'.cash /\ (\A h \in hooks' : ~h.cash) /\ NoTag(r)'
  BY <1>4, <1>6 DEF Stripped
<1>8. CASE Cash(r)
  <2>1. UNCHANGED <<live, hooks>> BY <1>8 DEF Cash, shop
  <2>2. pc'[r] = "netRead" BY <1>1, <1>2, <1>8 DEF Cash, NoTag, Goto
  <2> QED BY <2>1, <2>2 DEF Stripped, NoTag
<1>9. CASE CashMeta(r)
  <2>1. UNCHANGED <<live, hooks>> /\ pc'[r] = "netRead" BY <1>1, <1>9 DEF CashMeta, Goto
  <2> QED BY <2>1 DEF Stripped, NoTag
<1>10. CASE NetRead(r)
  <2>1. UNCHANGED <<live, hooks>> /\ pc'[r] = "netWrite" BY <1>1, <1>10 DEF NetRead, shop, Goto
  <2> QED BY <2>1 DEF Stripped, NoTag
<1>11. CASE NetWrite(r)
  <2>1. UNCHANGED <<live, hooks>> /\ pc'[r] \in {"pay", "balance"}
    BY <1>1, <1>11 DEF NetWrite, Goto
  <2> QED BY <2>1 DEF Stripped, NoTag
<1>12. CASE Balance(r)
  <2>1. UNCHANGED <<live, hooks>> /\ pc'[r] \in {"balanceWrite", "payWrite"}
    BY <1>1, <1>12 DEF Balance, shop, Goto
  <2>2. seen'[r].draft = live BY <1>1, <1>12, SnapshotPaid DEF Balance
  <2> QED BY <2>1, <2>2 DEF Stripped, NoTag
<1>13. CASE BalanceWrite(r)
  <2>1. /\ UNCHANGED <<live, hooks, seen>>
        /\ pc[r] \in {"balanceWrite", "payWrite"} /\ pc'[r] \in {"balanceTags", "payTags"}
    BY <1>1, <1>13 DEF BalanceWrite, Goto, local
  <2> QED BY <1>2, <2>1 DEF Stripped, NoTag
<1>14. CASE BalanceTags(r)
  <2>1. ~seen[r].draft.cash BY <1>2, <1>14 DEF BalanceTags, NoTag
  <2>2. ~live'.cash /\ \A h \in hooks' : ~h.cash
    <3>1. CASE UNCHANGED <<live, hooks>> BY <3>1 DEF Stripped
    <3>2. CASE Put([live EXCEPT !.cash = seen[r].draft.cash, !.shown = TagsFor(Derived(r))])
      <4>1. ~live'.cash /\ hooks' = hooks \cup {live'} BY <1>1, <2>1, <3>2 DEF Put, Payload
      <4> QED BY <4>1 DEF Stripped
    <3> QED BY <1>14, <3>1, <3>2 DEF BalanceTags
  <2>3. Goto(r, "pay") \/ Goto(r, "ready") \/ Goto(r, "trail")
    BY <1>14, LastGoesOn DEF BalanceTags, Then
  <2>4. pc'[r] \in {"pay", "ready", "trail"} BY <1>1, <2>3 DEF Goto
  <2> QED BY <2>2, <2>4 DEF NoTag
<1>15. CASE Trail(r)
  <2>1. UNCHANGED <<live, hooks>> /\ pc'[r] \in {"ready", "refetch"}
    BY <1>1, <1>15 DEF Trail, Free, Then, Return, shop, Goto
  <2> QED BY <2>1 DEF Stripped, NoTag
<1>16. CASE Refetch(r)
  <2>1. UNCHANGED <<live, hooks>> BY <1>16 DEF Refetch, shop
  <2>2. pc'[r] = "ready" \/ (pc'[r] = "cash" /\ cur'[r] = live)
    BY <1>1, <1>16 DEF Refetch, Free, Return, Goto
  <2> QED BY <2>1, <2>2 DEF Stripped, NoTag
<1> QED BY <1>5, <1>8, <1>9, <1>10, <1>11, <1>12, <1>13, <1>14, <1>15, <1>16 DEF PassStep

LEMMA TakenUpStep ==
  ASSUME TypeInv, TakenUp, NEW r \in Run, PassStep(r)
  PROVE  TakenUp' \/ Stripped'
<1>0. \A q \in Run : q # r => seen'[q] = seen[q] /\ pc'[q] = pc[q] BY SeenElsewhere
<1>1. /\ live \in Payload /\ cur \in [Run -> Payload \cup {None}]
      /\ pc \in [Run -> ChainStep \cup {"ready"}]
  BY DEF TypeInv, TypeOK
<1>2. pc[r] # "ready"
  BY DEF PassStep, Cash, CashRecord, CashTags, CashMeta, NetRead, NetWrite, Balance,
     BalanceWrite, BalanceTags, Trail, Refetch
<1>3. /\ \A q \in Run : q # r => pc[q] = "ready"
      /\ \/ pc[r] = "cash" /\ cur[r].cash /\ recorded + 1 = earlier + added
         \/ pc[r] = "cashRecord" /\ recorded + 1 = earlier + added
         \/ pc[r] = "cashTags" /\ recorded = earlier + added
  BY <1>2 DEF TakenUp
<1>4. live.cash /\ hooks = {} BY DEF TakenUp
<1>5. CASE Cash(r)
  <2>1. /\ UNCHANGED <<live, hooks, recorded, earlier, added>>
        /\ pc'[r] = "cashRecord" /\ recorded + 1 = earlier + added
    BY <1>1, <1>3, <1>5 DEF Cash, shop, bounds, Goto
  <2>2. TakenUp' BY <1>0, <1>3, <1>4, <2>1 DEF TakenUp
  <2> QED BY <2>2
<1>6. CASE CashRecord(r)
  <2>1. /\ UNCHANGED <<live, hooks, earlier, added>> /\ recorded' = recorded + 1
        /\ pc'[r] = "cashTags" /\ recorded + 1 = earlier + added
    BY <1>1, <1>3, <1>6 DEF CashRecord, shop, bounds, Goto
  <2>2. TakenUp' BY <1>0, <1>3, <1>4, <2>1 DEF TakenUp
  <2> QED BY <2>2
<1>7. CASE CashTags(r)
  <2>1. /\ UNCHANGED <<recorded, earlier, added>> /\ pc'[r] = "cashMeta"
        /\ recorded = earlier + added
    BY <1>1, <1>3, <1>7 DEF CashTags, bounds, Goto
  <2>2. ~live'.cash /\ hooks' = {live'} BY <1>1, <1>4, <1>7 DEF CashTags, Put, Payload
  <2>3. \A q \in Run : NoTag(q)' BY <1>0, <1>3, <2>1 DEF NoTag
  <2> QED BY <2>1, <2>2, <2>3 DEF Stripped
<1>8. Cash(r) \/ CashRecord(r) \/ CashTags(r)
  BY <1>3 DEF PassStep, CashMeta, NetRead, NetWrite, Balance, BalanceWrite, BalanceTags,
     Trail, Refetch
<1> QED BY <1>5, <1>6, <1>7, <1>8

LEMMA NextCash ==
  ASSUME LockInv, CashPhase, [Next]_vars
  PROVE  CashPhase'
<1>0. TypeInv BY DEF LockInv
<1>1. SUFFICES ASSUME Undisturbed'
               PROVE  (Tagged \/ TakenUp \/ Stripped)'
  BY DEF CashPhase
<1>2. Undisturbed /\ (EditTotal \/ AddCash => Quiet) BY <1>1, Undone
<1>3. Tagged \/ TakenUp \/ Stripped BY <1>2 DEF CashPhase
<1>4. live \in Payload /\ hooks \subseteq Payload /\ pc \in [Run -> ChainStep \cup {"ready"}]
      /\ cur \in [Run -> Payload \cup {None}] /\ seen \in [Run -> Read \cup {None}]
      /\ recorded \in Nat /\ earlier \in Nat /\ added \in Nat /\ faults \in Nat
      /\ inlined \in Nat
  BY <1>0 DEF TypeInv, TypeOK
<1>5. ~inFlight <=> \A r \in Run : ~Working(r)
  BY <1>2 DEF LockInv, Lock, Undisturbed
<1>6. CASE EditTotal
  <2>1. Quiet /\ Stripped BY <1>2, <1>3, <1>6 DEF Quiet, Tagged, TakenUp
  <2>2. ~live'.cash /\ hooks' = {live'}
    BY <1>4, <1>6, <2>1 DEF EditTotal, Put, Payload, Stripped, Quiet
  <2>3. UNCHANGED <<pc, recorded, earlier, added, cur, seen>> BY <1>6 DEF EditTotal, local
  <2>4. \A q \in Run : NoTag(q)' BY <2>1, <2>3 DEF Stripped, NoTag
  <2>5. Stripped' BY <2>1, <2>2, <2>3, <2>4 DEF Stripped
  <2> QED BY <2>5
<1>7. CASE AddCash
  <2>1. Quiet /\ Stripped BY <1>2, <1>3, <1>7 DEF Quiet, Tagged, TakenUp
  <2>2. live'.cash /\ hooks' = {live'}
    BY <1>4, <1>7, <2>1 DEF AddCash, Put, Payload, Quiet
  <2>3. UNCHANGED <<pc, recorded, earlier>> /\ added' = added + 1 BY <1>7 DEF AddCash
  <2>4. recorded' + 1 = earlier' + added' BY <1>4, <2>1, <2>3 DEF Stripped
  <2>5. Tagged' BY <2>1, <2>2, <2>3, <2>4 DEF Tagged, Quiet
  <2> QED BY <2>5
<1>8. ASSUME NEW h \in hooks, Coalesce(h)
      PROVE  (Tagged \/ TakenUp \/ Stripped)'
  <2>1. inFlight /\ UNCHANGED <<live, recorded, pc, cur, seen, earlier, added>> /\ hooks' \subseteq hooks
    BY <1>8 DEF Coalesce, shop, local, bounds
  <2>2. ~Tagged BY <1>5, <2>1 DEF Tagged, Working, ChainStep
  <2>3. Stripped BY <1>3, <1>8, <2>2 DEF TakenUp
  <2>4. \A q \in Run : NoTag(q)' BY <2>1, <2>3 DEF Stripped, NoTag
  <2>5. Stripped' BY <2>1, <2>3, <2>4 DEF Stripped
  <2> QED BY <2>5
<1>9. ASSUME NEW h \in hooks, NEW r \in Run, Begin(r, h)
      PROVE  (Tagged \/ TakenUp \/ Stripped)'
  <2>1. /\ UNCHANGED <<live, recorded, seen, earlier, added>>
        /\ hooks' = hooks \ {h} /\ cur'[r] = h /\ pc'[r] = "cash" /\ pc[r] = "ready"
        /\ \A q \in Run : q # r => pc'[q] = pc[q] /\ cur'[q] = cur[q]
    BY <1>4, <1>9 DEF Begin, Goto, shop, bounds
  <2>2. CASE Tagged
    <3>1. TakenUp' BY <2>1, <2>2 DEF Tagged, TakenUp
    <3> QED BY <3>1
  <2>3. CASE Stripped
    <3>1. \A q \in Run : NoTag(q)' BY <2>1, <2>3 DEF Stripped, NoTag
    <3>2. Stripped' BY <2>1, <2>3, <3>1 DEF Stripped
    <3> QED BY <3>2
  <2> QED BY <1>3, <1>9, <2>2, <2>3 DEF TakenUp
<1>10. ASSUME NEW r \in Run, BeginDirect(r)
       PROVE  FALSE
  BY <1>1, <1>4, <1>10 DEF BeginDirect, Undisturbed
<1>11. ASSUME NEW r \in Run, StepFails(r) \/ Backstop(r)
       PROVE  FALSE
  <2>1. faults' = faults + 1 BY <1>11 DEF StepFails, Backstop, Fault
  <2> QED BY <1>1, <1>4, <2>1 DEF Undisturbed, NoFailure
<1>12. ASSUME NEW r \in Run, PassStep(r)
       PROVE  (Tagged \/ TakenUp \/ Stripped)'
  <2>1. ~Tagged
    BY <1>12 DEF Tagged, PassStep, Cash, CashRecord, CashTags, CashMeta, NetRead, NetWrite,
       Balance, BalanceWrite, BalanceTags, Trail, Refetch
  <2> QED BY <1>0, <1>3, <1>12, <2>1, StrippedStep, TakenUpStep
<1>13. CASE UNCHANGED vars
  BY <1>3, <1>13 DEF vars, Tagged, TakenUp, Stripped, NoTag
<1> QED BY <1>6, <1>7, <1>8, <1>9, <1>10, <1>11, <1>12, <1>13 DEF Next, Deliver

LEMMA PayInvHolds == Spec => []PayInv
<1>1. Init => Legs /\ CashPhase
  <2> SUFFICES ASSUME Init PROVE Legs /\ CashPhase OBVIOUS
  <2>1. Legs BY DEF Init, Legs
  <2>2. Stripped
    <3>1. ~live.cash BY DEF Init
    <3>2. hooks = {} /\ \A r \in Run : pc[r] = "ready" BY DEF Init
    <3>3. recorded = earlier + added BY DEF Init
    <3> QED BY <3>1, <3>2, <3>3 DEF Stripped, NoTag
  <2> QED BY <2>1, <2>2 DEF CashPhase
<1>2. LockInv /\ Legs /\ CashPhase /\ [Next]_vars => Legs' /\ CashPhase'
  BY NextLegs, NextCash
<1> QED BY <1>1, <1>2, LockHolds, PTL DEF Spec, PayInv

\* While no call fails a draft at rest has as many payments in its legs as in
\* store_deposits; if besides no recompute runs and staff wait for the webhooks of
\* what they did, each cash tag is recorded once, in both places.
THEOREM PaymentsAgreeHolds == Spec => []PaymentsAgree
<1>1. PayInv => PaymentsAgree
  <2> SUFFICES ASSUME PayInv PROVE PaymentsAgree OBVIOUS
  <2>1. recorded \in Nat /\ earlier \in Nat /\ added \in Nat
    BY DEF PayInv, LockInv, TypeInv, TypeOK
  <2>2. LegsAgree BY DEF PayInv, Legs, LegsAgree, Quiet
  <2>3. ASSUME Undisturbed
        PROVE  CashOnce /\ (Quiet => recorded = earlier + added)
    <3>1. CASE Tagged BY <2>1, <3>1 DEF Tagged, CashOnce, Quiet
    <3>2. CASE TakenUp
      <4>1. ~Quiet BY <3>2 DEF TakenUp, Quiet
      <4>2. recorded + 1 = earlier + added \/ recorded = earlier + added BY <3>2 DEF TakenUp
      <4> QED BY <2>1, <4>1, <4>2 DEF CashOnce
    <3>3. CASE Stripped BY <2>1, <3>3 DEF Stripped, CashOnce
    <3> QED BY <2>3, <3>1, <3>2, <3>3 DEF PayInv, CashPhase
  <2>4. CashCounted BY <2>3 DEF CashCounted, Undisturbed
  <2> QED BY <2>2, <2>4 DEF PaymentsAgree
<1> QED BY <1>1, PayInvHolds, PTL

--------------------
(* The balance and the payment tags *)

\* The balance and the tags are those of the net and of the payments.
InStep ==
    /\ due = [net |-> net, paid |-> paid]
    /\ live.shown = TagsFor(due)

\* How far a chain that runs alone has brought them in step again.
Settling(r) ==
    /\ pc[r] \in {"cash", "cashRecord", "cashTags", "netRead", "netWrite", "trail", "refetch"} =>
          InStep
    /\ pc[r] \in {"cashRecord", "cashTags", "cashMeta"} =>
          seen[r].net = net /\ seen[r].paid = paid
    /\ pc[r] = "cashMeta" => live.shown = TagsFor(WithCash(r))
    /\ pc[r] = "netWrite" => seen[r].net = net
    /\ pc[r] \in {"balance", "balanceWrite", "balanceTags", "payWrite", "payTags"} =>
          base[r] = net
    /\ pc[r] \in {"balanceWrite", "balanceTags", "payWrite", "payTags"} =>
          seen[r].paid = paid /\ seen[r].draft.shown = live.shown
    /\ pc[r] \in {"balanceWrite", "payWrite"} => seen[r].due = due
    /\ pc[r] \in {"balanceTags", "payTags"} => due = Derived(r)
    /\ pc[r] \in {"pay", "payWrite", "payTags"} => InStep \/ faults = 1

\* No recomputeCollection came in between, no chain outlived its lock, and one
\* call failed at most.
Alone == faults <= 1 /\ inlined = 0 /\ "lock" \notin lost

BalancePhase ==
    Alone => /\ \A r \in Run : Working(r) => Settling(r)
             /\ (\A r \in Run : ~Working(r)) => InStep

\* A step of the pass of a lone chain.
LEMMA PassSettles ==
  ASSUME TypeInv, NEW r \in Run, r \notin Direct, Settling(r), PassStep(r),
         faults \in {0, 1}, faults' \in {0, 1}
  PROVE  /\ pc'[r] \in ChainStep => Settling(r)'
         /\ pc'[r] = "ready" => InStep'
<1>1. /\ pc \in [Run -> ChainStep \cup {"ready"}] /\ base \in [Run -> Total \cup {None}]
      /\ seen \in [Run -> Read \cup {None}] /\ live \in Payload /\ paid \in Nat
  BY DEF TypeInv, TypeOK
<1>2. Snapshot.net = net /\ Snapshot.paid = paid /\ Snapshot.due = due
      /\ Snapshot.draft.shown = live.shown
  BY DEF Snapshot
<1>3. "ready" \notin ChainStep BY DEF ChainStep
<1>4. CASE Cash(r)
  <2>1. InStep' /\ UNCHANGED <<net, paid>> BY <1>4 DEF Cash, shop, Settling, InStep
  <2>2. \/ pc'[r] = "cashRecord" /\ seen'[r] = Snapshot
        \/ pc'[r] = "netRead"
    BY <1>1, <1>4 DEF Cash, Goto
  <2> QED BY <1>2, <2>1, <2>2 DEF Settling
<1>5. CASE CashRecord(r)
  <2>1. InStep' /\ UNCHANGED <<net, paid, seen>>
    BY <1>5 DEF CashRecord, shop, local, Settling, InStep
  <2>2. pc[r] = "cashRecord" /\ pc'[r] = "cashTags" BY <1>1, <1>5 DEF CashRecord, Goto
  <2> QED BY <2>1, <2>2 DEF Settling
<1>6. CASE CashTags(r)
  <2>1. pc[r] = "cashTags" /\ pc'[r] = "cashMeta" /\ UNCHANGED <<net, paid, seen>>
    BY <1>1, <1>6 DEF CashTags, Goto, local
  <2>2. live'.shown = TagsFor(WithCash(r)) BY <1>1, <1>6 DEF CashTags, Put, Payload
  <2>3. WithCash(r)' = WithCash(r) BY <2>1 DEF WithCash
  <2> QED BY <2>1, <2>2, <2>3 DEF Settling
<1>7. CASE CashMeta(r)
  <2>1. /\ pc[r] = "cashMeta" /\ pc'[r] = "netRead" /\ UNCHANGED <<live, net, seen>>
        /\ paid' = seen[r].paid + 1 /\ due' = WithCash(r)
    BY <1>1, <1>7 DEF CashMeta, Goto, local
  <2>2. InStep' BY <2>1 DEF Settling, InStep, WithCash
  <2> QED BY <2>1, <2>2 DEF Settling
<1>8. CASE NetRead(r)
  <2>1. InStep' /\ UNCHANGED net BY <1>8 DEF NetRead, shop, Settling, InStep
  <2>2. pc'[r] = "netWrite" /\ seen'[r] = Snapshot BY <1>1, <1>8 DEF NetRead, Goto
  <2> QED BY <1>2, <2>1, <2>2 DEF Settling
<1>9. CASE NetWrite(r)
  <2>1. pc[r] = "netWrite" /\ UNCHANGED <<live, due, paid, base, seen>>
    BY <1>9 DEF NetWrite, local
  <2>2. CASE base[r] = seen[r].net
    <3>1. pc'[r] = "pay" /\ UNCHANGED net BY <1>1, <1>9, <2>2 DEF NetWrite, Goto
    <3>2. InStep' BY <2>1, <3>1 DEF Settling, InStep
    <3> QED BY <3>1, <3>2 DEF Settling
  <2>3. CASE base[r] # seen[r].net
    <3>1. pc'[r] = "balance" /\ net' = base[r] BY <1>1, <1>9, <2>3 DEF NetWrite, Goto
    <3> QED BY <1>3, <2>1, <3>1 DEF Settling
  <2> QED BY <2>2, <2>3
<1>10. CASE Balance(r)
  <2>1. UNCHANGED <<live, net, due, paid, faults>> /\ seen'[r] = Snapshot
    BY <1>1, <1>10 DEF Balance, shop, bounds
  <2>2. CASE pc[r] = "balance"
    <3>1. pc'[r] = "balanceWrite" /\ base' = base BY <1>1, <1>10, <2>2 DEF Balance, Goto
    <3> QED BY <1>2, <2>1, <2>2, <3>1 DEF Settling
  <2>3. CASE pc[r] = "pay"
    <3>1. pc'[r] = "payWrite" /\ base'[r] = net BY <1>1, <1>10, <2>3 DEF Balance, Goto
    <3>2. InStep' \/ faults' = 1 BY <2>1, <2>3 DEF Settling, InStep
    <3> QED BY <1>2, <2>1, <3>1, <3>2 DEF Settling
  <2> QED BY <1>10, <2>2, <2>3 DEF Balance
<1>11. CASE BalanceWrite(r)
  <2>0. /\ UNCHANGED <<live, net, paid, seen, base, faults>>
        /\ pc[r] \in {"balanceWrite", "payWrite"}
        /\ due' = IF seen[r].due = Derived(r) THEN due ELSE Derived(r)
    BY <1>11 DEF BalanceWrite, local
  <2>1. /\ UNCHANGED <<live, net, paid, seen, base, faults>>
        /\ due' = Derived(r) /\ Derived(r)' = Derived(r)
    BY <2>0 DEF Settling, Derived
  <2>2. CASE pc[r] = "balanceWrite"
    <3>1. pc'[r] = "balanceTags" BY <1>1, <1>11, <2>2 DEF BalanceWrite, Goto
    <3> QED BY <2>1, <2>2, <3>1 DEF Settling
  <2>3. CASE pc[r] = "payWrite"
    <3>1. pc'[r] = "payTags" BY <1>1, <1>11, <2>3 DEF BalanceWrite, Goto
    <3>2. Derived(r) = [net |-> net, paid |-> paid] BY <2>3 DEF Settling, Derived
    <3>3. InStep' \/ faults' = 1 BY <2>1, <2>3, <3>2 DEF Settling, InStep
    <3> QED BY <2>1, <2>3, <3>1, <3>3 DEF Settling
  <2> QED BY <1>11, <2>2, <2>3 DEF BalanceWrite
<1>12. CASE BalanceTags(r)
  <2>1. UNCHANGED <<net, due, paid>> /\ pc[r] \in {"balanceTags", "payTags"}
    BY <1>12 DEF BalanceTags
  <2>2. due = [net |-> net, paid |-> paid] /\ due = Derived(r)
    BY <2>1 DEF Settling, Derived
  <2>3. live'.shown = TagsFor(Derived(r))
    BY <1>1, <1>12, <2>1 DEF BalanceTags, Put, Payload, Settling
  <2>4. InStep' BY <2>1, <2>2, <2>3 DEF InStep
  <2>5. pc'[r] \in {"pay", "trail"}
    BY <1>1, <1>12, LastGoesOn DEF BalanceTags, Then, Goto
  <2> QED BY <1>3, <2>4, <2>5 DEF Settling
<1>13. CASE Trail(r)
  <2>1. InStep' BY <1>13 DEF Trail, shop, Settling, InStep
  <2>2. pc'[r] \in {"refetch", "ready"}
    BY <1>1, <1>13 DEF Trail, Free, Then, Return, Goto
  <2> QED BY <1>3, <2>1, <2>2 DEF Settling
<1>14. CASE Refetch(r)
  <2>1. InStep' BY <1>14 DEF Refetch, shop, Settling, InStep
  <2>2. pc'[r] \in {"cash", "ready"} BY <1>1, <1>14 DEF Refetch, Free, Return, Goto
  <2> QED BY <1>3, <2>1, <2>2 DEF Settling
<1> QED
  BY <1>4, <1>5, <1>6, <1>7, <1>8, <1>9, <1>10, <1>11, <1>12, <1>13, <1>14 DEF PassStep

\* A first call that fails: what the step left undone is done by the next one,
\* or was done before.
LEMMA FailureSettles ==
  ASSUME TypeInv, NEW r \in Run, r \notin Direct, Settling(r), StepFails(r),
         faults = 0, faults' = 1
  PROVE  pc'[r] \in ChainStep /\ Settling(r)'
<1>1. pc \in [Run -> ChainStep \cup {"ready"}] BY DEF TypeInv, TypeOK
<1>2. UNCHANGED <<live, net, due, paid>> BY DEF StepFails, shop
<1>3. InStep => InStep' BY <1>2 DEF InStep
<1>4. CASE pc[r] \in {"cash", "cashTags"}
  <2>1. pc'[r] = "netRead" BY <1>1, <1>4 DEF StepFails, Then, Goto
  <2> QED BY <1>3, <1>4, <2>1 DEF Settling, ChainStep
<1>5. CASE pc[r] \in {"netRead", "balance", "balanceTags"}
  <2>1. pc'[r] = "pay" BY <1>1, <1>5 DEF StepFails, Then, Goto
  <2> QED BY <2>1 DEF Settling, ChainStep
<1>6. CASE pc[r] \in {"pay", "payTags"}
  <2>1. pc'[r] = "trail" BY <1>1, <1>6 DEF StepFails, EndPass, Then, Goto
  <2> QED BY <1>3, <1>6, <2>1 DEF Settling, ChainStep
<1> QED BY <1>4, <1>5, <1>6 DEF StepFails

LEMMA NextBalance ==
  ASSUME LockInv, BalancePhase, [Next]_vars
  PROVE  BalancePhase'
<1>0. TypeInv /\ faults \in Nat /\ pc \in [Run -> ChainStep \cup {"ready"}] /\ live \in Payload
  BY DEF LockInv, TypeInv, TypeOK
<1>1. SUFFICES ASSUME Alone'
               PROVE  /\ \A r \in Run : Working(r)' => Settling(r)'
                      /\ (\A r \in Run : ~Working(r)') => InStep'
  BY DEF BalancePhase
<1>2. Alone /\ faults \in {0, 1} /\ faults' \in {0, 1} /\ (faults' = faults \/ faults' = faults + 1)
  BY <1>0, <1>1, FailuresStay DEF Alone
<1>3. /\ \A r \in Run : Working(r) => Settling(r)
      /\ (\A r \in Run : ~Working(r)) => InStep
      /\ \A r, s \in Run : Working(r) /\ Working(s) => r = s
      /\ inFlight <=> \E r \in Run : Working(r)
      /\ \A r \in Direct : pc[r] = "ready"
  BY <1>2 DEF BalancePhase, Alone, LockInv, Lock, DirectIdle
<1>4. ASSUME UNCHANGED <<net, due, paid, pc, seen, base, faults>>, live'.shown = live.shown
      PROVE  /\ \A r \in Run : Working(r)' => Settling(r)'
             /\ (\A r \in Run : ~Working(r)') => InStep'
  <2>1. \A r \in Run : Working(r)' <=> Working(r) BY <1>4 DEF Working
  <2>2. InStep => InStep' BY <1>4 DEF InStep
  <2>3. ASSUME NEW r \in Run, Settling(r) PROVE Settling(r)'
    <3>1. Derived(r)' = Derived(r) /\ WithCash(r)' = WithCash(r)
      BY <1>4 DEF Derived, WithCash
    <3> QED BY <1>4, <2>2, <2>3, <3>1 DEF Settling
  <2> QED BY <1>3, <2>1, <2>2, <2>3
\* The chain that steps is the only one.
<1>5. ASSUME NEW r \in Run, r \notin Direct, Working(r),
             \A q \in Run : q # r => pc'[q] = pc[q],
             pc'[r] \in ChainStep \cup {"ready"},
             pc'[r] \in ChainStep => Settling(r)', pc'[r] = "ready" => InStep'
      PROVE  /\ \A q \in Run : Working(q)' => Settling(q)'
             /\ (\A q \in Run : ~Working(q)') => InStep'
  <2>1. \A q \in Run : q # r => ~Working(q)' BY <1>3, <1>5 DEF Working
  <2> QED BY <1>5, <2>1 DEF Working
<1>6. CASE EditTotal \/ AddCash
  <2>1. live'.shown = live.shown BY <1>0, <1>6 DEF EditTotal, AddCash, Put, Payload
  <2> QED BY <1>4, <1>6, <2>1 DEF EditTotal, AddCash, local
<1>7. ASSUME NEW h \in hooks, Coalesce(h)
      PROVE  /\ \A r \in Run : Working(r)' => Settling(r)'
             /\ (\A r \in Run : ~Working(r)') => InStep'
  BY <1>4, <1>7 DEF Coalesce, shop, local
<1>8. ASSUME NEW h \in hooks, NEW s \in Run, Begin(s, h)
      PROVE  /\ \A r \in Run : Working(r)' => Settling(r)'
             /\ (\A r \in Run : ~Working(r)') => InStep'
  <2>1. InStep' BY <1>3, <1>8 DEF Begin, shop, InStep
  <2>2. \A q \in Run : Working(q)' => q = s
    BY <1>0, <1>3, <1>8 DEF Begin, Goto, Working
  <2>3. pc'[s] = "cash" BY <1>0, <1>8 DEF Begin, Goto
  <2> QED BY <2>1, <2>2, <2>3 DEF Settling
<1>9. ASSUME NEW r \in Run, BeginDirect(r)
      PROVE  FALSE
  BY <1>0, <1>1, <1>9 DEF BeginDirect, Alone, TypeInv, TypeOK
<1>10. ASSUME NEW r \in Run, PassStep(r)
       PROVE  /\ \A q \in Run : Working(q)' => Settling(q)'
              /\ (\A q \in Run : ~Working(q)') => InStep'
  <2>1. \A q \in Run : q # r => pc'[q] = pc[q] BY <1>0, <1>10, SeenElsewhere
  <2>2. pc[r] \in ChainStep
    BY <1>10 DEF PassStep, Cash, CashRecord, CashTags, CashMeta, NetRead, NetWrite, Balance,
       BalanceWrite, BalanceTags, Trail, Refetch, ChainStep
  <2>3. r \notin Direct /\ Working(r) BY <1>3, <2>2 DEF Working, ChainStep
  <2>4. pc'[r] \in ChainStep \cup {"ready"}
    BY <1>0, <1>10, NextTypes DEF TypeInv, TypeOK, Next
  <2>5. Settling(r) BY <1>3, <2>3
  <2>6. /\ pc'[r] \in ChainStep => Settling(r)'
        /\ pc'[r] = "ready" => InStep'
    BY <1>0, <1>2, <1>10, <2>3, <2>5, PassSettles
  <2> QED BY <1>5, <2>1, <2>3, <2>4, <2>6
<1>11. ASSUME NEW r \in Run, StepFails(r)
       PROVE  /\ \A q \in Run : Working(q)' => Settling(q)'
              /\ (\A q \in Run : ~Working(q)') => InStep'
  <2>1. pc[r] \in ChainStep BY <1>11 DEF StepFails, ChainStep
  <2>2. r \notin Direct /\ Working(r) BY <1>3, <2>1 DEF Working, ChainStep
  <2>3. PICK step : Goto(r, step) BY <1>11, LastGoesOn DEF StepFails, Then, Return
  <2>4. \A q \in Run : q # r => pc'[q] = pc[q] BY <1>0, <2>3 DEF Goto
  <2>5. faults = 0 /\ faults' = 1 BY <1>2, <1>11 DEF StepFails, Fault
  <2>6. Settling(r) BY <1>3, <2>2
  <2>7. pc'[r] \in ChainStep /\ Settling(r)' BY <1>0, <1>11, <2>2, <2>5, <2>6, FailureSettles
  <2>8. pc'[r] # "ready" BY <2>7 DEF ChainStep
  <2> QED BY <1>5, <2>2, <2>4, <2>7, <2>8
<1>12. ASSUME NEW r \in Run, Backstop(r)
       PROVE  FALSE
  BY <1>1, <1>12 DEF Backstop, Alone
<1>13. CASE UNCHANGED vars BY <1>4, <1>13 DEF vars
<1> QED BY <1>6, <1>7, <1>8, <1>9, <1>10, <1>11, <1>12, <1>13 DEF Next, Deliver

--------------------
(* The net-to-collect *)

\* A total is never older than the net written from it, and a run about to
\* write the net knows one that is no older than the net it has read.
NetData ==
    /\ live.total = edits
    /\ NoFailure =>
          /\ net <= live.total
          /\ \A r \in Run : pc[r] = "netWrite" =>
                /\ seen[r].net <= base[r]
                /\ base[r] <= live.total
                /\ inlined = 0 => seen[r].net = net
                /\ edits <= 1 => seen[r].net <= net

\* A delivery is under way that has not been taken up, or a trailing pass is due.
Asked == hooks # {} \/ (again /\ \E r \in Run : Working(r))

\* A chain has still to read the total, or is about to write it.
Reads(r) ==
    /\ r \notin Direct
    /\ \/ pc[r] \in {"cash", "cashRecord", "cashTags", "cashMeta", "netRead", "refetch"}
       \/ pc[r] = "netWrite" /\ base[r] = live.total

\* No call failed, no delivery was left unanswered, and no total read before
\* another is written after it.
InOrder == NoFailure /\ "trail" \notin lost /\ (inlined = 0 \/ edits <= 1)

NetPhase == InOrder => net = live.total \/ Asked \/ \E r \in Run : Reads(r)

\* The net that a run derives a balance from is its own.
LEMMA BaseElsewhere ==
  ASSUME TypeInv, NEW r \in Run, PassStep(r)
  PROVE  \A q \in Run : q # r => base'[q] = base[q]
<1>0. base \in [Run -> Total \cup {None}] BY DEF TypeInv, TypeOK
<1>1. CASE base' = base BY <1>1
<1>2. CASE Return(r) BY <1>0, <1>2 DEF Return
<1>3. CASE NetRead(r) \/ Balance(r) BY <1>0, <1>3 DEF NetRead, Balance
<1>4. CASE BalanceTags(r) BY <1>1, <1>2, <1>4 DEF BalanceTags, EndPass, Then, local
<1>5. CASE Trail(r) \/ Refetch(r)
  BY <1>1, <1>2, <1>5 DEF Trail, Refetch, Free, Then, local
<1> QED
  BY <1>1, <1>3, <1>4, <1>5 DEF PassStep, Cash, CashRecord, CashTags, CashMeta, NetWrite,
     BalanceWrite, local

\* What a run is about to write is what it has just read.
LEMMA AtNetWrite ==
  ASSUME TypeInv, [Next]_vars, NEW q \in Run, pc'[q] = "netWrite"
  PROVE  \/ NetRead(q)
         \/ pc[q] = "netWrite" /\ seen'[q] = seen[q] /\ base'[q] = base[q]
<1>0. /\ pc \in [Run -> ChainStep \cup {"ready"}] /\ base \in [Run -> Total \cup {None}]
      /\ seen \in [Run -> Read \cup {None}]
  BY DEF TypeInv, TypeOK
<1>1. CASE UNCHANGED <<pc, seen, base>> BY <1>1
<1>2. ASSUME NEW r \in Run, PassStep(r)
      PROVE  \/ NetRead(q)
             \/ pc[q] = "netWrite" /\ seen'[q] = seen[q] /\ base'[q] = base[q]
  <2>1. CASE q = r
    <3>1. CASE BalanceTags(r)
      <4>1. pc'[r] \in {"pay", "ready", "trail"}
        BY <1>0, <3>1, LastGoesOn DEF BalanceTags, Then, Goto
      <4> QED BY <2>1, <4>1
    <3>2. CASE Trail(r) \/ Refetch(r)
      BY <1>0, <2>1, <3>2 DEF Trail, Refetch, Free, Then, Return, Goto
    <3> QED
      BY <1>0, <1>2, <2>1, <3>1, <3>2 DEF PassStep, Cash, CashRecord, CashTags, CashMeta,
         NetWrite, Balance, BalanceWrite, Goto
  <2>2. CASE q # r
    <3>1. pc'[q] = pc[q] /\ seen'[q] = seen[q] BY <1>2, <2>2, SeenElsewhere
    <3>2. base'[q] = base[q] BY <1>2, <2>2, BaseElsewhere
    <3> QED BY <3>1, <3>2
  <2> QED BY <2>1, <2>2
<1>3. ASSUME NEW r \in Run, StepFails(r)
      PROVE  pc[q] = "netWrite" /\ seen'[q] = seen[q] /\ base'[q] = base[q]
  <2>1. Then(r, "netRead") \/ Then(r, "pay") \/ Then(r, "trail") \/ Return(r)
    BY <1>3 DEF StepFails, EndPass
  <2>2. pc'[r] \in {"netRead", "pay", "trail", "ready"}
    BY <1>0, <2>1 DEF Then, Return, Goto
  <2> QED BY <1>0, <2>1, <2>2 DEF Then, Return, Goto, local
<1>4. ASSUME NEW r \in Run, BeginDirect(r)
      PROVE  pc[q] = "netWrite" /\ seen'[q] = seen[q] /\ base'[q] = base[q]
  BY <1>0, <1>4 DEF BeginDirect, Goto
<1>5. ASSUME NEW r \in Run, NEW h \in hooks, Begin(r, h)
      PROVE  pc[q] = "netWrite" /\ seen'[q] = seen[q] /\ base'[q] = base[q]
  BY <1>0, <1>5 DEF Begin, Goto
<1>6. CASE EditTotal \/ AddCash BY <1>1, <1>6 DEF EditTotal, AddCash, local
<1>7. CASE \E h \in hooks : Coalesce(h) BY <1>1, <1>7 DEF Coalesce, local
<1>8. CASE \E r \in Run : Backstop(r) BY <1>1, <1>8 DEF Backstop, local
<1>9. CASE UNCHANGED vars BY <1>1, <1>9 DEF vars
<1> QED BY <1>2, <1>3, <1>4, <1>5, <1>6, <1>7, <1>8, <1>9 DEF Next, Deliver

\* Only the draft's lines make a total, and only a run that read one a net.
LEMMA NetMoves ==
  ASSUME TypeInv, [Next]_vars
  PROVE  /\ \/ net' = net
            \/ \E r \in Run : NetWrite(r) /\ net' = base[r] /\ base[r] # seen[r].net
         /\ \/ EditTotal /\ live'.total = edits + 1 /\ edits' = edits + 1
            \/ live'.total = live.total /\ edits' = edits
<1>0. live \in Payload BY DEF TypeInv, TypeOK
<1>1. ASSUME NEW r \in Run, PassStep(r)
      PROVE  /\ net' = net \/ (NetWrite(r) /\ net' = base[r] /\ base[r] # seen[r].net)
             /\ live'.total = live.total /\ edits' = edits
  <2>1. CASE NetWrite(r) BY <2>1 DEF NetWrite, bounds
  <2>2. CASE CashTags(r) \/ BalanceTags(r)
    BY <1>0, <2>2 DEF CashTags, BalanceTags, Put, Payload, bounds
  <2>3. CASE Refetch(r) BY <2>3 DEF Refetch, shop
  <2> QED
    BY <1>1, <2>1, <2>2, <2>3 DEF PassStep, Cash, CashRecord, CashMeta, NetRead, Balance,
       BalanceWrite, Trail, shop, bounds
<1>2. CASE EditTotal BY <1>0, <1>2 DEF EditTotal, Put, Payload
<1>3. CASE AddCash BY <1>0, <1>3 DEF AddCash, Put, Payload
<1>4. CASE \E r \in Run : StepFails(r) \/ Backstop(r) BY <1>4 DEF StepFails, Backstop, shop, bounds
<1>5. CASE \E r \in Run : BeginDirect(r) BY <1>5 DEF BeginDirect, shop
<1>6. CASE \E h \in hooks : Deliver(h) BY <1>6 DEF Deliver, Coalesce, Begin, shop, bounds
<1>7. CASE UNCHANGED vars BY <1>7 DEF vars
<1> QED BY <1>1, <1>2, <1>3, <1>4, <1>5, <1>6, <1>7 DEF Next

\* A net that is written is the total of one edit, if the draft was edited once.
LEMMA NetOfOneEdit ==
  ASSUME TypeInv, NetData, NoFailure, edits <= 1, NEW r \in Run, pc[r] = "netWrite",
         base[r] # seen[r].net
  PROVE  base[r] = 1 /\ live.total = 1
<1>1. seen[r].net \in Nat /\ base[r] \in Nat /\ edits \in Nat
  BY DEF TypeInv, TypeOK, StepData, Read, Total
<1>2. seen[r].net <= base[r] /\ base[r] <= live.total /\ live.total = edits BY DEF NetData
<1> QED BY <1>1, <1>2

LEMMA NextNetData ==
  ASSUME LockInv, NetData, [Next]_vars
  PROVE  NetData'
<1>0. TypeInv /\ TypeInv' BY NextTypes DEF LockInv
<1>1. net \in Nat /\ net' \in Nat /\ edits \in Nat /\ live.total = edits
  BY <1>0 DEF TypeInv, TypeOK, Total, NetData
<1>2. live'.total = edits' BY <1>0, <1>1, NetMoves
<1>3. SUFFICES ASSUME NoFailure'
               PROVE  /\ net' <= live'.total
                      /\ \A q \in Run : pc'[q] = "netWrite" =>
                            /\ seen'[q].net <= base'[q]
                            /\ base'[q] <= live'.total
                            /\ inlined' = 0 => seen'[q].net = net'
                            /\ edits' <= 1 => seen'[q].net <= net'
  BY <1>2 DEF NetData
<1>4. NoFailure /\ faults' = faults /\ (inlined' = 0 => inlined = 0) /\ faults \in Nat
  BY <1>0, <1>3, FailuresStay DEF TypeInv, TypeOK
<1>5. live.total <= live'.total /\ live'.total \in Nat /\ (edits' <= 1 => edits <= 1)
  BY <1>0, <1>1, <1>2, NetMoves
<1>6. net' <= live'.total
  <2>1. CASE net' = net BY <1>1, <1>4, <1>5, <2>1 DEF NetData
  <2>2. ASSUME NEW r \in Run, NetWrite(r), net' = base[r]
        PROVE  net' <= live'.total
    BY <1>1, <1>4, <1>5, <2>2 DEF NetWrite, NetData
  <2> QED BY <1>0, <2>1, <2>2, NetMoves
<1>7. ASSUME NEW q \in Run, pc'[q] = "netWrite", NetRead(q)
      PROVE  /\ seen'[q].net = net /\ net' = net /\ base'[q] = live.total
             /\ live' = live
  <2>1. base' = [base EXCEPT ![q] = live.total]
    BY <1>4, <1>7 DEF NetRead, Fault
  <2> QED BY <1>0, <1>7, <2>1 DEF NetRead, Snapshot, shop, TypeInv, TypeOK
<1>8. ASSUME NEW q \in Run, pc'[q] = "netWrite", pc[q] = "netWrite",
             seen'[q] = seen[q], base'[q] = base[q]
      PROVE  /\ seen'[q].net <= base'[q]
             /\ base'[q] <= live'.total
             /\ inlined' = 0 => seen'[q].net = net'
             /\ edits' <= 1 => seen'[q].net <= net'
  <2>1. /\ seen[q].net <= base[q] /\ base[q] <= live.total
        /\ inlined = 0 => seen[q].net = net
        /\ edits <= 1 => seen[q].net <= net
    BY <1>4, <1>8 DEF NetData
  <2>2. seen[q].net \in Nat /\ base[q] \in Nat
    BY <1>0, <1>8 DEF TypeInv, StepData, Read, Total
  <2>3. CASE net' = net BY <1>1, <1>4, <1>5, <1>8, <2>1, <2>2, <2>3
  <2>4. ASSUME NEW r \in Run, NetWrite(r), net' = base[r], base[r] # seen[r].net
        PROVE  /\ inlined' = 0 => seen'[q].net = net'
               /\ edits' <= 1 => seen'[q].net <= net'
    <3>1. pc[r] = "netWrite" /\ pc'[r] # "netWrite"
      BY <1>0, <2>4 DEF NetWrite, Goto, TypeInv, TypeOK
    <3>2. q # r BY <1>8, <3>1
    <3>3. inlined' # 0
      <4>1. SUFFICES ASSUME inlined = 0 PROVE FALSE BY <1>4
      <4>2. r \notin Direct /\ q \notin Direct
        BY <1>8, <3>1, <4>1 DEF LockInv, DirectIdle
      <4>3. Working(r) /\ Working(q) BY <1>8, <3>1, <4>2 DEF Working, ChainStep
      <4> QED BY <1>4, <3>2, <4>3 DEF LockInv, Lock
    <3>4. ASSUME edits' <= 1 PROVE seen'[q].net <= net'
      <4>1. base[r] = 1 /\ live.total = 1
        BY <1>0, <1>4, <1>5, <2>4, <3>1, <3>4, NetOfOneEdit
      <4> QED BY <1>8, <2>1, <2>2, <2>4, <4>1
    <3> QED BY <3>3, <3>4
  <2> QED BY <1>0, <1>5, <1>1, <1>8, <2>1, <2>2, <2>3, <2>4, NetMoves
<1>9. ASSUME NEW q \in Run, pc'[q] = "netWrite"
      PROVE  /\ seen'[q].net <= base'[q]
             /\ base'[q] <= live'.total
             /\ inlined' = 0 => seen'[q].net = net'
             /\ edits' <= 1 => seen'[q].net <= net'
  <2>1. CASE NetRead(q) BY <1>1, <1>4, <1>7, <1>9, <2>1 DEF NetData
  <2> QED BY <1>0, <1>8, <1>9, <2>1, AtNetWrite
<1> QED BY <1>6, <1>9

\* A run keeps what it has to do with the net, and whether it is at work, unless
\* it steps.
LEMMA NetElsewhere ==
  ASSUME TypeInv, NEW r \in Run, PassStep(r), r \in Direct, InOrder
  PROVE  /\ Asked => Asked'
         /\ \A q \in Run : Reads(q) => Reads(q)'
<1>0. /\ pc \in [Run -> ChainStep \cup {"ready"}] /\ base \in [Run -> Total \cup {None}]
      /\ pc[r] # "trail" /\ pc[r] # "refetch"
  BY AtStep DEF TypeInv, TypeOK, DirectStep, PassStep, Trail, Refetch
<1>1. \A q \in Run : q # r => pc'[q] = pc[q] BY SeenElsewhere
<1>2. \A q \in Run : q # r => base'[q] = base[q] BY BaseElsewhere
<1>3. hooks \subseteq hooks' /\ again' = again
  BY <1>0 DEF PassStep, Cash, CashRecord, CashTags, CashMeta, NetRead, NetWrite, Balance,
     BalanceWrite, BalanceTags, Trail, Refetch, Put
<1>4. live'.total = live.total
  <2>1. PassStep(r) => [Next]_vars BY DEF Next
  <2>2. ~EditTotal
    BY <1>0 DEF EditTotal, PassStep, Cash, CashRecord, CashTags, CashMeta, NetRead, NetWrite,
       Balance, BalanceWrite, BalanceTags, Trail, Refetch, bounds, TypeInv, TypeOK
  <2> QED BY <2>1, <2>2, NetMoves
<1>5. \A q \in Run : Working(q) => Working(q)' BY <1>1 DEF Working
<1>6. Asked => Asked' BY <1>3, <1>5 DEF Asked
<1>7. \A q \in Run : Reads(q) => Reads(q)' BY <1>1, <1>2, <1>4 DEF Reads
<1> QED BY <1>6, <1>7

\* A net that is that of the draft stays so, if it was written after all that a
\* run still writes; a run that writes what the draft is now makes it so.
LEMMA NetWriteFollows ==
  ASSUME TypeInv, NetData, InOrder, NEW r \in Run, NetWrite(r),
         net = live.total \/ base[r] = live.total
  PROVE  net' = live'.total
<1>1. /\ pc[r] = "netWrite" /\ live' = live
      /\ net' = IF base[r] = seen[r].net THEN net ELSE base[r]
  BY DEF NetWrite
<1>2. /\ seen[r].net \in Nat /\ base[r] \in Nat /\ net \in Nat /\ live.total \in Nat
  BY <1>1 DEF TypeInv, TypeOK, StepData, Read, Total, Payload
<1>3. /\ seen[r].net <= base[r] /\ base[r] <= live.total /\ net <= live.total
      /\ inlined = 0 => seen[r].net = net
      /\ edits <= 1 => seen[r].net <= net
  BY <1>1 DEF NetData, InOrder
<1>4. CASE inlined = 0 BY <1>1, <1>2, <1>3, <1>4
<1>5. CASE edits <= 1
  <2>1. base[r] # seen[r].net => base[r] = 1 /\ live.total = 1
    BY <1>1, <1>5, NetOfOneEdit DEF InOrder
  <2> QED BY <1>1, <1>2, <1>3, <1>5, <2>1
<1> QED BY <1>4, <1>5 DEF InOrder

\* What a step of a chain does to the net that is to follow the draft.
LEMMA ChainFollows ==
  ASSUME LockInv, NetData, InOrder, InOrder', NEW r \in Run, r \notin Direct, PassStep(r),
         net = live.total \/ Asked \/ \E q \in Run : Reads(q)
  PROVE  net' = live'.total \/ Asked' \/ Reads(r)'
<1>0. TypeInv /\ pc \in [Run -> ChainStep \cup {"ready"}] /\ base \in [Run -> Total \cup {None}]
      /\ live \in Payload
  BY DEF LockInv, TypeInv, TypeOK
<1>1. pc[r] \in ChainStep /\ Working(r)
  BY DEF PassStep, Cash, CashRecord, CashTags, CashMeta, NetRead, NetWrite, Balance,
     BalanceWrite, BalanceTags, Trail, Refetch, ChainStep, Working
<1>2. \A q \in Run : Working(q) => q = r
  BY <1>1 DEF LockInv, Lock, InOrder
<1>3. \A q \in Run : Reads(q) => q = r BY <1>2 DEF Reads, Working, ChainStep
<1>4. ASSUME pc'[r] \in {"cash", "cashRecord", "cashTags", "cashMeta", "netRead", "refetch"}
      PROVE  Reads(r)'
  BY <1>4 DEF Reads
<1>5. CASE Cash(r) \/ CashRecord(r) \/ CashTags(r) \/ CashMeta(r)
  <2>1. pc'[r] \in {"cash", "cashRecord", "cashTags", "cashMeta", "netRead", "refetch"}
    BY <1>0, <1>5 DEF Cash, CashRecord, CashTags, CashMeta, Goto
  <2> QED BY <1>4, <2>1
<1>6. CASE NetRead(r)
  <2>1. faults = 0 /\ faults' = 0 BY DEF InOrder, NoFailure
  <2>2. base'[r] = live.total /\ live' = live /\ pc'[r] = "netWrite"
    BY <1>0, <1>6, <2>1 DEF NetRead, Fault, Goto, shop
  <2> QED BY <2>2 DEF Reads
<1>7. CASE NetWrite(r)
  <2>1. CASE Asked
    <3>1. pc'[r] \in ChainStep /\ UNCHANGED <<hooks, again>>
      BY <1>0, <1>7 DEF NetWrite, Goto, ChainStep
    <3>2. Working(r)' BY <1>1, <3>1 DEF Working
    <3> QED BY <2>1, <3>1, <3>2 DEF Asked
  <2>2. CASE ~Asked
    <3>1. pc[r] = "netWrite" BY <1>7 DEF NetWrite
    <3>2. net = live.total \/ base[r] = live.total BY <1>3, <2>2, <3>1 DEF Reads
    <3> QED BY <1>0, <1>7, <3>2, NetWriteFollows
  <2> QED BY <2>1, <2>2
<1>8. CASE Balance(r) \/ BalanceWrite(r) \/ BalanceTags(r)
  <2>1. /\ net' = net /\ live'.total = live.total
        /\ hooks \subseteq hooks' /\ again' = again
    BY <1>0, <1>8 DEF Balance, BalanceWrite, BalanceTags, Put, Payload, shop
  <2>2. pc'[r] \in ChainStep
    BY <1>0, <1>8, LastGoesOn DEF Balance, BalanceWrite, BalanceTags, Then, Goto, ChainStep
  <2>3. Working(r)' BY <1>1, <2>2 DEF Working
  <2>4. ~Reads(r) BY <1>8 DEF Balance, BalanceWrite, BalanceTags, Reads
  <2>5. Asked => Asked' BY <2>1, <2>3 DEF Asked
  <2> QED BY <1>3, <2>1, <2>4, <2>5
<1>9. CASE Trail(r)
  <2>1. CASE again
    <3>1. pc'[r] = "refetch" BY <1>0, <1>9, <2>1 DEF Trail, Then, Goto
    <3> QED BY <1>4, <3>1
  <2>2. CASE ~again
    <3>1. UNCHANGED <<live, net, hooks>> /\ pc[r] = "trail" BY <1>9 DEF Trail, shop
    <3>2. ~Reads(r) BY <3>1 DEF Reads
    <3>3. net = live.total \/ hooks # {} BY <1>3, <2>2, <3>2 DEF Asked
    <3> QED BY <3>1, <3>3 DEF Asked
  <2> QED BY <2>1, <2>2
<1>10. CASE Refetch(r)
  <2>1. "trail" \notin lost' BY DEF InOrder
  <2>2. pc'[r] = "cash" BY <1>0, <1>10, <2>1 DEF Refetch, Goto
  <2> QED BY <1>4, <2>2
<1> QED BY <1>5, <1>6, <1>7, <1>8, <1>9, <1>10 DEF PassStep

LEMMA NextNet ==
  ASSUME LockInv, NetData, NetPhase, [Next]_vars
  PROVE  NetPhase'
<1>0. TypeInv /\ pc \in [Run -> ChainStep \cup {"ready"}] /\ edits \in Nat /\ faults \in Nat
      /\ base \in [Run -> Total \cup {None}] /\ live \in Payload
  BY DEF LockInv, TypeInv, TypeOK
<1>1. SUFFICES ASSUME InOrder'
               PROVE  net' = live'.total \/ Asked' \/ \E r \in Run : Reads(r)'
  BY DEF NetPhase
<1>2. InOrder
  <2>1. edits' <= 1 => edits <= 1 BY <1>0, NetMoves
  <2> QED BY <1>0, <1>1, <2>1, FailuresStay DEF InOrder
<1>3. net = live.total \/ Asked \/ \E r \in Run : Reads(r) BY <1>2 DEF NetPhase
<1>4. inFlight <=> \E r \in Run : Working(r) BY <1>2 DEF InOrder, LockInv, Lock
<1>5. CASE EditTotal \/ AddCash BY <1>5 DEF EditTotal, AddCash, Put, Asked
<1>6. ASSUME NEW h \in hooks, Coalesce(h)
      PROVE  Asked'
  <2>1. again' /\ inFlight /\ pc' = pc BY <1>6 DEF Coalesce
  <2> QED BY <1>4, <2>1 DEF Asked, Working
<1>7. ASSUME NEW h \in hooks, NEW r \in Run, Begin(r, h)
      PROVE  Reads(r)'
  BY <1>0, <1>7 DEF Begin, Goto, Reads
<1>8. ASSUME NEW r \in Run, BeginDirect(r)
      PROVE  net' = live'.total \/ Asked' \/ \E q \in Run : Reads(q)'
  <2>1. /\ UNCHANGED <<live, net, hooks, again, base>> /\ r \in Direct
        /\ \A q \in Run : q # r => pc'[q] = pc[q]
    BY <1>0, <1>8 DEF BeginDirect, shop, Goto
  <2>2. Asked => Asked' BY <2>1 DEF Asked, Working
  <2>3. \A q \in Run : Reads(q) => Reads(q)' BY <2>1 DEF Reads
  <2> QED BY <1>3, <2>1, <2>2, <2>3
<1>9. ASSUME NEW r \in Run, PassStep(r)
      PROVE  net' = live'.total \/ Asked' \/ \E q \in Run : Reads(q)'
  <2>1. CASE r \notin Direct BY <1>1, <1>2, <1>3, <1>9, <2>1, ChainFollows
  <2>2. CASE r \in Direct
    <3>1. /\ Asked => Asked'
          /\ \A q \in Run : Reads(q) => Reads(q)'
      BY <1>0, <1>2, <1>9, <2>2, NetElsewhere
    <3>2. net = live.total => net' = live'.total
      <4>1. CASE NetWrite(r) BY <1>0, <1>2, <4>1, NetWriteFollows
      <4>2. CASE ~NetWrite(r)
        <5>1. UNCHANGED <<net>> /\ live'.total = live.total
          BY <1>0, <1>9, <4>2 DEF PassStep, Cash, CashRecord, CashTags, CashMeta, NetRead,
             Balance, BalanceWrite, BalanceTags, Trail, Refetch, Put, Payload, shop
        <5> QED BY <5>1
      <4> QED BY <4>1, <4>2
    <3> QED BY <1>3, <3>1, <3>2
  <2> QED BY <2>1, <2>2
<1>10. ASSUME NEW r \in Run, StepFails(r) \/ Backstop(r)
       PROVE  FALSE
  <2>1. faults' = faults + 1 BY <1>10 DEF StepFails, Backstop, Fault
  <2> QED BY <1>0, <1>1, <2>1 DEF InOrder, NoFailure
<1>11. CASE UNCHANGED vars
  BY <1>3, <1>11 DEF vars, Asked, Reads, Working
<1> QED BY <1>5, <1>6, <1>7, <1>8, <1>9, <1>10, <1>11 DEF Next, Deliver

--------------------
(* A draft without a cash tag that is edited once, beside recomputes *)

\* Where no cash tag was added there is none to take up.
Untagged == added = 0 => Stripped /\ \A r \in Run : pc[r] # "cashMeta"

LEMMA UntaggedStep ==
  ASSUME TypeInv, Stripped, \A r \in Run : pc[r] # "cashMeta", NEW r \in Run, PassStep(r)
  PROVE  /\ ~CashRecord(r) /\ ~CashTags(r) /\ ~CashMeta(r)
         /\ pc'[r] \notin {"cashRecord", "cashTags", "cashMeta"}
         /\ paid' = paid
<1>0. pc \in [Run -> ChainStep \cup {"ready"}] BY DEF TypeInv, TypeOK
<1>1. ~CashRecord(r) /\ ~CashTags(r) /\ ~CashMeta(r)
  BY DEF Stripped, NoTag, CashRecord, CashTags, CashMeta
<1>2. Cash(r) => pc'[r] = "netRead" BY <1>0 DEF Cash, Goto, Stripped, NoTag
<1>3. BalanceTags(r) => pc'[r] \in {"pay", "ready", "trail"}
  BY <1>0, LastGoesOn DEF BalanceTags, Then, Goto
<1>4. pc'[r] \notin {"cashRecord", "cashTags", "cashMeta"}
  BY <1>0, <1>1, <1>2, <1>3 DEF PassStep, NetRead, NetWrite, Balance, BalanceWrite,
     Trail, Refetch, Free, Return, Then, Goto
<1>5. paid' = paid
  BY <1>1 DEF PassStep, Cash, NetRead, NetWrite, Balance, BalanceWrite, BalanceTags,
     Trail, Refetch, shop
<1> QED BY <1>1, <1>4, <1>5

LEMMA NextUntagged ==
  ASSUME TypeInv, Untagged, [Next]_vars
  PROVE  Untagged'
<1>0. /\ pc \in [Run -> ChainStep \cup {"ready"}] /\ cur \in [Run -> Payload \cup {None}]
      /\ seen \in [Run -> Read \cup {None}] /\ live \in Payload /\ added \in Nat
  BY DEF TypeInv, TypeOK
<1>1. SUFFICES ASSUME added' = 0
               PROVE  Stripped' /\ \A r \in Run : pc'[r] # "cashMeta"
  BY DEF Untagged
<1>2. ASSUME NEW r \in Run, PassStep(r)
      PROVE  Stripped' /\ \A q \in Run : pc'[q] # "cashMeta"
  <2>1. added' = added
    BY <1>2 DEF PassStep, Cash, CashRecord, CashTags, CashMeta, NetRead, NetWrite, Balance,
       BalanceWrite, BalanceTags, Trail, Refetch, bounds
  <2>2. Stripped /\ \A q \in Run : pc[q] # "cashMeta" BY <1>1, <2>1 DEF Untagged
  <2>3. Stripped' BY <1>2, <2>2, StrippedStep
  <2>4. \A q \in Run : pc'[q] # "cashMeta" BY <1>2, <2>2, UntaggedStep, SeenElsewhere
  <2> QED BY <2>3, <2>4
<1>3. CASE AddCash BY <1>0, <1>1, <1>3 DEF AddCash
<1>4. ASSUME ~AddCash, \A r \in Run : ~PassStep(r)
      PROVE  /\ added' = added /\ recorded' = recorded /\ earlier' = earlier
             /\ live'.cash = live.cash
             /\ \A h \in hooks' : h \in hooks \/ h = live'
  <2>1. CASE EditTotal BY <1>0, <2>1 DEF EditTotal, Put, Payload
  <2>2. CASE \E r \in Run : StepFails(r) \/ Backstop(r)
    BY <2>2 DEF StepFails, Backstop, shop, bounds
  <2>3. CASE \E r \in Run : BeginDirect(r) BY <2>3 DEF BeginDirect, shop
  <2>4. CASE \E h \in hooks : Deliver(h) BY <2>4 DEF Deliver, Coalesce, Begin, shop, bounds
  <2>5. CASE UNCHANGED vars BY <2>5 DEF vars
  <2> QED BY <1>4, <2>1, <2>2, <2>3, <2>4, <2>5 DEF Next
<1>5. ASSUME ~AddCash, \A r \in Run : ~PassStep(r), added = 0, NEW q \in Run
      PROVE  NoTag(q)' /\ pc'[q] # "cashMeta"
  <2>0. NoTag(q) /\ pc[q] # "cashMeta" /\ \A h \in hooks : ~h.cash
    BY <1>5 DEF Untagged, Stripped
  <2>1. CASE UNCHANGED <<pc, cur, seen>> BY <2>0, <2>1 DEF NoTag
  <2>2. ASSUME NEW r \in Run, StepFails(r)
        PROVE  NoTag(q)' /\ pc'[q] # "cashMeta"
    <3>1. Then(r, "netRead") \/ Then(r, "pay") \/ Then(r, "trail") \/ Return(r)
      BY <2>2 DEF StepFails, EndPass
    <3>2. pc'[r] \in {"netRead", "pay", "trail", "ready"}
      BY <1>0, <3>1 DEF Then, Return, Goto
    <3>3. q # r => pc'[q] = pc[q] /\ cur'[q] = cur[q] /\ seen'[q] = seen[q]
      BY <1>0, <3>1 DEF Then, Return, Goto, local
    <3> QED BY <2>0, <3>2, <3>3 DEF NoTag
  <2>3. ASSUME NEW r \in Run, NEW h \in hooks, Begin(r, h)
        PROVE  NoTag(q)' /\ pc'[q] # "cashMeta"
    BY <1>0, <2>0, <2>3 DEF Begin, Goto, NoTag
  <2>4. ASSUME NEW r \in Run, BeginDirect(r)
        PROVE  NoTag(q)' /\ pc'[q] # "cashMeta"
    BY <1>0, <2>0, <2>4 DEF BeginDirect, Goto, NoTag
  <2> QED
    BY <1>5, <2>1, <2>2, <2>3, <2>4 DEF Next, vars, EditTotal, Deliver, Coalesce, Backstop, local
<1>6. CASE ~AddCash /\ \A r \in Run : ~PassStep(r)
  <2>1. added = 0 BY <1>1, <1>4, <1>6
  <2>2. Stripped BY <2>1 DEF Untagged
  <2> QED BY <1>4, <1>5, <1>6, <2>1, <2>2 DEF Stripped
<1> QED BY <1>2, <1>3, <1>6

\* The balance that a net of n derives.
Of(n) == [net |-> n, paid |-> paid]

\* What a run knows of a draft whose total moves from 0 to 1: what it read before
\* changes nothing, and what it writes is the new one.
OnceRead(r) ==
    /\ pc[r] \in {"balance", "balanceWrite", "balanceTags", "payWrite", "payTags"} =>
          base[r] \in {0, 1} /\ base[r] <= net
    /\ pc[r] \in {"balance", "balanceWrite", "balanceTags"} => base[r] = 1
    /\ pc[r] \in {"balanceWrite", "balanceTags", "payWrite", "payTags"} =>
          /\ seen[r].paid = paid
          /\ base[r] = 0 => seen[r].due = Of(0) /\ seen[r].draft.shown = TagsFor(Of(0))
          /\ seen[r].due = Of(1) => due = Of(1)
          /\ seen[r].draft.shown = TagsFor(Of(1)) => live.shown = TagsFor(Of(1))
    /\ pc[r] \in {"balanceTags", "payTags"} /\ base[r] = 1 => due = Of(1)

\* Balance and tags follow the net, or the run that is to derive them has begun.
OnceDue == due = Of(1) \/ \E r \in Run : pc[r] \in {"balance", "balanceWrite"}
OnceShown ==
    \/ live.shown = TagsFor(Of(1))
    \/ \E r \in Run : pc[r] \in {"balance", "balanceWrite", "balanceTags"}

EditedOnce == NoFailure /\ edits <= 1 /\ added = 0

Once ==
    EditedOnce =>
        /\ net \in {0, 1}
        /\ net = 0 => due = Of(0) /\ live.shown = TagsFor(Of(0))
        /\ net = 1 => OnceDue /\ OnceShown
        /\ \A r \in Run : OnceRead(r)

\* Nothing goes back: neither the net nor what was derived from it.
Onward ==
    /\ paid' = paid
    /\ net' \in {0, 1} /\ net <= net'
    /\ due = Of(1) => due' = Of(1)
    /\ live.shown = TagsFor(Of(1)) => live'.shown = TagsFor(Of(1))

\* A run that does not step knows what it knew.
LEMMA OnceElsewhere ==
  ASSUME TypeInv, NEW q \in Run, OnceRead(q), Onward, net \in {0, 1},
         pc'[q] = pc[q], base'[q] = base[q], seen'[q] = seen[q]
  PROVE  OnceRead(q)'
<1>1. Of(0)' = Of(0) /\ Of(1)' = Of(1) BY DEF Of, Onward
<1>2. pc[q] \in {"balance", "balanceWrite", "balanceTags", "payWrite", "payTags"} =>
        base'[q] \in {0, 1} /\ base'[q] <= net'
  BY DEF OnceRead, Onward
<1> QED BY <1>1, <1>2 DEF OnceRead, Onward

\* One step of a pass, or of a recompute.
LEMMA OnceStep ==
  ASSUME TypeInv, NetData, Untagged, Once, EditedOnce, NEW r \in Run, PassStep(r),
         faults' = 0
  PROVE  /\ Onward
         /\ net' = 0 => due' = Of(0) /\ live'.shown = TagsFor(Of(0))
         /\ OnceRead(r)'
         /\ net' = 1 => /\ due' = Of(1) \/ pc'[r] \in {"balance", "balanceWrite"}
                           \/ \E q \in Run : q # r /\ pc[q] \in {"balance", "balanceWrite"}
                        /\ \/ live'.shown = TagsFor(Of(1))
                           \/ pc'[r] \in {"balance", "balanceWrite", "balanceTags"}
                           \/ \E q \in Run : /\ q # r
                                             /\ pc[q] \in {"balance", "balanceWrite", "balanceTags"}
<1>0. /\ pc \in [Run -> ChainStep \cup {"ready"}] /\ base \in [Run -> Total \cup {None}]
      /\ seen \in [Run -> Read \cup {None}] /\ live \in Payload
  BY DEF TypeInv, TypeOK
<1>1. /\ net \in {0, 1}
      /\ net = 0 => due = Of(0) /\ live.shown = TagsFor(Of(0))
      /\ net = 1 => OnceDue /\ OnceShown
      /\ OnceRead(r)
  BY DEF Once
<1>2. /\ ~CashRecord(r) /\ ~CashTags(r) /\ ~CashMeta(r)
      /\ pc'[r] \notin {"cashRecord", "cashTags", "cashMeta"}
      /\ paid' = paid
  BY UntaggedStep DEF Untagged, EditedOnce
<1>3. Of(0)' = Of(0) /\ Of(1)' = Of(1) BY <1>2 DEF Of
<1>4. Snapshot.net = net /\ Snapshot.paid = paid /\ Snapshot.due = due
      /\ Snapshot.draft.shown = live.shown
  BY DEF Snapshot
\* A step that writes none of the figures, from a point where r derives nothing.
<1>5. ASSUME UNCHANGED <<net, due, live>>,
             pc[r] \notin {"balance", "balanceWrite", "balanceTags"},
             pc'[r] \notin {"balance", "balanceWrite", "balanceTags", "payWrite", "payTags"}
      PROVE  /\ Onward
             /\ net' = 0 => due' = Of(0) /\ live'.shown = TagsFor(Of(0))
             /\ OnceRead(r)'
             /\ net' = 1 => /\ due' = Of(1) \/ pc'[r] \in {"balance", "balanceWrite"}
                               \/ \E q \in Run : q # r /\ pc[q] \in {"balance", "balanceWrite"}
                            /\ \/ live'.shown = TagsFor(Of(1))
                               \/ pc'[r] \in {"balance", "balanceWrite", "balanceTags"}
                               \/ \E q \in Run : /\ q # r
                                                 /\ pc[q] \in {"balance", "balanceWrite",
                                                               "balanceTags"}
  <2>1. Onward BY <1>1, <1>2, <1>5 DEF Onward
  <2>2. OnceRead(r)' BY <1>5 DEF OnceRead
  <2> QED BY <1>1, <1>5, <2>1, <2>2 DEF OnceDue, OnceShown
<1>6. CASE Cash(r) \/ NetRead(r)
  <2>1. /\ UNCHANGED <<net, due, live>> /\ pc[r] \in {"cash", "netRead"}
        /\ pc'[r] \in {"netRead", "netWrite", "cashRecord"}
    BY <1>0, <1>6 DEF Cash, NetRead, Goto, shop
  <2> QED BY <1>2, <1>5, <2>1
<1>7. CASE NetWrite(r)
  <2>1. pc[r] = "netWrite" /\ UNCHANGED <<due, live, base>> BY <1>7 DEF NetWrite, local
  <2>2. CASE base[r] = seen[r].net
    <3>1. pc'[r] = "pay" /\ net' = net BY <1>0, <1>7, <2>2 DEF NetWrite, Goto
    <3> QED BY <1>5, <2>1, <3>1
  <2>3. CASE base[r] # seen[r].net
    <3>1. pc'[r] = "balance" /\ net' = base[r] BY <1>0, <1>7, <2>3 DEF NetWrite, Goto
    <3>2. base[r] = 1 BY <2>1, <2>3, NetOfOneEdit DEF EditedOnce
    <3>3. Onward BY <1>1, <1>2, <2>1, <3>1, <3>2 DEF Onward
    <3>4. OnceRead(r)' BY <2>1, <3>1, <3>2 DEF OnceRead
    <3> QED BY <3>1, <3>2, <3>3, <3>4
  <2> QED BY <2>2, <2>3
<1>8. CASE Balance(r)
  <2>1. UNCHANGED <<net, due, live>> /\ seen'[r] = Snapshot
    BY <1>0, <1>8 DEF Balance, shop
  <2>2. Onward BY <1>1, <1>2, <2>1 DEF Onward
  <2>3. CASE pc[r] = "balance"
    <3>1. pc'[r] = "balanceWrite" /\ base' = base BY <1>0, <1>8, <2>3 DEF Balance, Goto
    <3>2. base[r] = 1 /\ base[r] <= net BY <1>1, <2>3 DEF OnceRead
    <3>3. OnceRead(r)' BY <1>2, <1>3, <1>4, <2>1, <3>1, <3>2 DEF OnceRead
    <3> QED BY <1>1, <2>1, <2>2, <3>1, <3>3
  <2>4. CASE pc[r] = "pay"
    <3>1. pc'[r] = "payWrite" /\ base'[r] = net BY <1>0, <1>8, <2>4 DEF Balance, Goto
    <3>2. OnceRead(r)' BY <1>1, <1>2, <1>3, <1>4, <2>1, <3>1 DEF OnceRead
    <3> QED BY <1>1, <2>1, <2>2, <2>4, <3>1, <3>2 DEF OnceDue, OnceShown
  <2> QED BY <1>8, <2>3, <2>4 DEF Balance
<1>9. CASE BalanceWrite(r)
  <2>1. /\ UNCHANGED <<net, live, base, seen>> /\ pc[r] \in {"balanceWrite", "payWrite"}
        /\ due' = IF seen[r].due = Derived(r) THEN due ELSE Derived(r)
        /\ pc[r] = "balanceWrite" => pc'[r] = "balanceTags"
        /\ pc[r] = "payWrite" => pc'[r] = "payTags"
    BY <1>0, <1>9 DEF BalanceWrite, local, Goto
  <2>2. /\ base[r] \in {0, 1} /\ base[r] <= net
        /\ pc[r] = "balanceWrite" => base[r] = 1
        /\ seen[r].paid = paid
        /\ base[r] = 0 => seen[r].due = Of(0)
        /\ seen[r].due = Of(1) => due = Of(1)
    BY <1>1, <2>1 DEF OnceRead
  <2>3. Derived(r) = Of(base[r]) BY <2>2 DEF Derived, Of
  <2>4. IF base[r] = 1 THEN due' = Of(1) ELSE due' = due BY <2>1, <2>2, <2>3
  <2>5. Onward BY <1>1, <1>2, <2>1, <2>4 DEF Onward
  <2>6. OnceRead(r)'
    <3>1. /\ base[r] = 0 => seen[r].draft.shown = TagsFor(Of(0))
          /\ seen[r].draft.shown = TagsFor(Of(1)) => live.shown = TagsFor(Of(1))
      BY <1>1, <2>1 DEF OnceRead
    <3> QED BY <1>2, <1>3, <2>1, <2>2, <2>4, <3>1 DEF OnceRead
  <2>7. net = 0 => base[r] = 0 BY <2>2
  <2>8. due = Of(1) => due' = Of(1) BY <2>5 DEF Onward
  <2> QED BY <1>1, <2>1, <2>2, <2>4, <2>5, <2>6, <2>7, <2>8 DEF OnceDue, OnceShown
<1>10. CASE BalanceTags(r)
  <2>1. /\ UNCHANGED <<net, due>> /\ pc[r] \in {"balanceTags", "payTags"}
        /\ pc'[r] \in {"pay", "ready", "trail"}
    BY <1>0, <1>10, LastGoesOn DEF BalanceTags, Then, Goto
  <2>2. /\ base[r] \in {0, 1} /\ base[r] <= net
        /\ pc[r] = "balanceTags" => base[r] = 1
        /\ seen[r].paid = paid
        /\ base[r] = 0 => seen[r].draft.shown = TagsFor(Of(0))
        /\ seen[r].draft.shown = TagsFor(Of(1)) => live.shown = TagsFor(Of(1))
    BY <1>1, <2>1 DEF OnceRead
  <2>3. Derived(r) = Of(base[r]) BY <2>2 DEF Derived, Of
  <2>4. live'.shown = IF TagsFor(Derived(r)) = seen[r].draft.shown
                        THEN live.shown ELSE TagsFor(Derived(r))
    BY <1>0, <1>10 DEF BalanceTags, Put, Payload
  <2>5. IF base[r] = 1 THEN live'.shown = TagsFor(Of(1)) ELSE live'.shown = live.shown
    BY <2>2, <2>3, <2>4
  <2>6. Onward BY <1>1, <1>2, <2>1, <2>5 DEF Onward
  <2>7. OnceRead(r)' BY <2>1 DEF OnceRead
  <2>8. net = 0 => base[r] = 0 BY <2>2
  <2>9. live.shown = TagsFor(Of(1)) => live'.shown = TagsFor(Of(1)) BY <2>6 DEF Onward
  <2> QED BY <1>1, <2>1, <2>2, <2>5, <2>6, <2>7, <2>8, <2>9 DEF OnceDue, OnceShown
<1>11. CASE Trail(r) \/ Refetch(r)
  <2>1. /\ UNCHANGED <<net, due, live>> /\ pc[r] \in {"trail", "refetch"}
        /\ pc'[r] \in {"refetch", "ready", "cash"}
    BY <1>0, <1>11 DEF Trail, Refetch, Free, Then, Return, Goto, shop
  <2> QED BY <1>5, <2>1
<1> QED BY <1>2, <1>6, <1>7, <1>8, <1>9, <1>10, <1>11 DEF PassStep

LEMMA NextOnce ==
  ASSUME TypeInv, NetData, Untagged, Once, [Next]_vars
  PROVE  Once'
<1>0. /\ pc \in [Run -> ChainStep \cup {"ready"}] /\ base \in [Run -> Total \cup {None}]
      /\ seen \in [Run -> Read \cup {None}] /\ live \in Payload
      /\ edits \in Nat /\ added \in Nat /\ faults \in Nat
  BY DEF TypeInv, TypeOK
<1>1. SUFFICES ASSUME EditedOnce'
               PROVE  /\ net' \in {0, 1}
                      /\ net' = 0 => due' = Of(0)' /\ live'.shown = TagsFor(Of(0)')
                      /\ net' = 1 => OnceDue' /\ OnceShown'
                      /\ \A q \in Run : OnceRead(q)'
  BY DEF Once, TagsFor
<1>2. EditedOnce
  <2>1. edits' <= 1 => edits <= 1 BY <1>0, NetMoves
  <2>2. added' = 0 => added = 0
    <3>1. CASE AddCash BY <1>0, <3>1 DEF AddCash
    <3>2. CASE \E r \in Run : PassStep(r)
      BY <3>2 DEF PassStep, Cash, CashRecord, CashTags, CashMeta, NetRead, NetWrite, Balance,
         BalanceWrite, BalanceTags, Trail, Refetch, bounds
    <3>3. CASE \E r \in Run : BeginDirect(r) \/ StepFails(r) \/ Backstop(r)
      BY <3>3 DEF BeginDirect, StepFails, Backstop, bounds
    <3> QED BY <3>1, <3>2, <3>3 DEF Next, vars, EditTotal, Deliver, Coalesce, Begin, bounds
  <2> QED BY <1>1, <2>1, <2>2, FailuresStay DEF EditedOnce
<1>3. /\ net \in {0, 1}
      /\ net = 0 => due = Of(0) /\ live.shown = TagsFor(Of(0))
      /\ net = 1 => OnceDue /\ OnceShown
      /\ \A r \in Run : OnceRead(r)
  BY <1>2 DEF Once
\* A step that writes none of the figures, of a run that derives nothing.
<1>4. ASSUME UNCHANGED <<net, due, paid>>, live'.shown = live.shown,
             \A q \in Run : \/ pc'[q] = pc[q] /\ base'[q] = base[q] /\ seen'[q] = seen[q]
                            \/ pc[q] = "ready" /\ pc'[q] \in {"cash", "netRead"}
      PROVE  /\ net' \in {0, 1}
             /\ net' = 0 => due' = Of(0)' /\ live'.shown = TagsFor(Of(0)')
             /\ net' = 1 => OnceDue' /\ OnceShown'
             /\ \A q \in Run : OnceRead(q)'
  <2>1. Of(0)' = Of(0) /\ Of(1)' = Of(1) /\ Onward BY <1>3, <1>4 DEF Of, Onward
  <2>2. \A q \in Run : OnceRead(q)'
    <3> TAKE q \in Run
    <3>1. CASE pc'[q] = pc[q] /\ base'[q] = base[q] /\ seen'[q] = seen[q]
      BY <1>3, <2>1, <3>1, OnceElsewhere
    <3>2. CASE pc'[q] \in {"cash", "netRead"} BY <3>2 DEF OnceRead
    <3> QED BY <1>4, <3>1, <3>2
  <2>3. /\ OnceDue => OnceDue'
        /\ OnceShown => OnceShown'
    BY <1>4, <2>1 DEF OnceDue, OnceShown, TagsFor
  <2> QED BY <1>3, <1>4, <2>1, <2>2, <2>3
<1>5. CASE EditTotal
  <2>1. live'.shown = live.shown BY <1>0, <1>5 DEF EditTotal, Put, Payload
  <2> QED BY <1>4, <1>5, <2>1 DEF EditTotal, local
<1>6. CASE AddCash BY <1>0, <1>1, <1>6 DEF AddCash, EditedOnce
<1>7. ASSUME NEW h \in hooks, Coalesce(h)
      PROVE  UNCHANGED <<net, due, paid, live, pc, base, seen>>
  BY <1>7 DEF Coalesce, shop, local
<1>8. ASSUME NEW r \in Run, (\E h \in hooks : Begin(r, h)) \/ BeginDirect(r)
      PROVE  /\ UNCHANGED <<net, due, paid, live>>
             /\ \A q \in Run : \/ pc'[q] = pc[q] /\ base'[q] = base[q] /\ seen'[q] = seen[q]
                               \/ pc[q] = "ready" /\ pc'[q] \in {"cash", "netRead"}
  BY <1>0, <1>8 DEF Begin, BeginDirect, Goto, shop
<1>9. ASSUME NEW r \in Run, PassStep(r)
      PROVE  /\ net' \in {0, 1}
             /\ net' = 0 => due' = Of(0)' /\ live'.shown = TagsFor(Of(0)')
             /\ net' = 1 => OnceDue' /\ OnceShown'
             /\ \A q \in Run : OnceRead(q)'
  <2>0. faults' = 0 BY <1>1 DEF EditedOnce, NoFailure
  <2>1. /\ Onward
        /\ net' = 0 => due' = Of(0) /\ live'.shown = TagsFor(Of(0))
        /\ OnceRead(r)'
        /\ net' = 1 => /\ due' = Of(1) \/ pc'[r] \in {"balance", "balanceWrite"}
                          \/ \E q \in Run : q # r /\ pc[q] \in {"balance", "balanceWrite"}
                       /\ \/ live'.shown = TagsFor(Of(1))
                          \/ pc'[r] \in {"balance", "balanceWrite", "balanceTags"}
                          \/ \E q \in Run : /\ q # r
                                            /\ pc[q] \in {"balance", "balanceWrite", "balanceTags"}
    BY <1>2, <1>9, <2>0, OnceStep
  <2>2. Of(0)' = Of(0) /\ Of(1)' = Of(1) BY <2>1 DEF Of, Onward
  <2>3. \A q \in Run : q # r => pc'[q] = pc[q] /\ seen'[q] = seen[q] BY <1>9, SeenElsewhere
  <2>4. \A q \in Run : q # r => base'[q] = base[q] BY <1>9, BaseElsewhere
  <2>5. \A q \in Run : OnceRead(q)' BY <1>3, <2>1, <2>3, <2>4, OnceElsewhere
  <2>6. net' = 1 => OnceDue' /\ OnceShown' BY <2>1, <2>2, <2>3 DEF OnceDue, OnceShown, TagsFor
  <2> QED BY <2>1, <2>2, <2>5, <2>6 DEF Onward
<1>10. ASSUME NEW r \in Run, StepFails(r) \/ Backstop(r)
       PROVE  FALSE
  <2>1. faults' = faults + 1 BY <1>10 DEF StepFails, Backstop, Fault
  <2> QED BY <1>0, <1>1, <2>1 DEF EditedOnce, NoFailure
<1>11. CASE \E h \in hooks : Coalesce(h) BY <1>4, <1>7, <1>11
<1>12. CASE \E r \in Run : (\E h \in hooks : Begin(r, h)) \/ BeginDirect(r)
  BY <1>4, <1>8, <1>12
<1>13. CASE UNCHANGED vars BY <1>4, <1>13 DEF vars
<1> QED BY <1>5, <1>6, <1>9, <1>10, <1>11, <1>12, <1>13 DEF Next, Deliver

\* All of it.
FiguresInv ==
    /\ LockInv
    /\ BalancePhase
    /\ NetData
    /\ NetPhase
    /\ Untagged
    /\ Once

LEMMA FiguresInvHolds == Spec => []FiguresInv
<1>1. Init => BalancePhase /\ NetData /\ NetPhase /\ Untagged /\ Once
  <2> SUFFICES ASSUME Init PROVE BalancePhase /\ NetData /\ NetPhase /\ Untagged /\ Once
    OBVIOUS
  <2>1. /\ live.total = 0 /\ ~live.cash /\ net = 0 /\ edits = 0 /\ hooks = {}
        /\ due = [net |-> 0, paid |-> paid]
        /\ live.shown = IF paid = 0 THEN None ELSE due
        /\ \A r \in Run : pc[r] = "ready"
        /\ recorded = earlier + added
    BY DEF Init
  <2>2. live.shown = TagsFor(due) /\ due.paid = paid BY <2>1 DEF TagsFor
  <2>3. BalancePhase BY <2>1, <2>2 DEF BalancePhase, InStep, Working, ChainStep
  <2>4. NetData BY <2>1 DEF NetData
  <2>5. NetPhase BY <2>1 DEF NetPhase
  <2>6. Untagged BY <2>1 DEF Untagged, Stripped, NoTag
  <2>7. Once BY <2>1, <2>2 DEF Once, Of, OnceRead
  <2> QED BY <2>3, <2>4, <2>5, <2>6, <2>7
<1>2. LockInv /\ BalancePhase /\ NetData /\ NetPhase /\ Untagged /\ Once /\ [Next]_vars =>
        BalancePhase' /\ NetData' /\ NetPhase' /\ Untagged' /\ Once'
  BY NextBalance, NextNetData, NextNet, NextUntagged, NextOnce DEF LockInv
<1> QED BY <1>1, <1>2, LockHolds, PTL DEF Spec, FiguresInv

\* The collection figures of a draft at rest are those of the draft: without a
\* failure the net is its total unless a chain ended with a delivery unanswered,
\* and balance and tags follow the net, whatever single call fails.
THEOREM FiguresAgreeHolds == Spec => []FiguresAgree
<1>1. FiguresInv => FiguresAgree
  <2> SUFFICES ASSUME FiguresInv, Quiet
               PROVE  /\ InOrder => net = live.total
                      /\ Alone \/ EditedOnce => InStep
    BY DEF FiguresAgree, NetSettles, NetFollows, BalanceSettles, BalanceFollows, InOrder,
       Alone, EditedOnce, InStep
  <2>1. \A r \in Run : pc[r] = "ready" /\ ~Working(r) BY DEF Quiet, Working, ChainStep
  <2>2. InOrder => net = live.total
    BY <2>1 DEF FiguresInv, NetPhase, Asked, Reads, Quiet
  <2>3. Alone => InStep BY <2>1 DEF FiguresInv, BalancePhase
  <2>4. EditedOnce => InStep
    BY <2>1 DEF FiguresInv, Once, OnceDue, OnceShown, Of, InStep
  <2> QED BY <2>2, <2>3, <2>4
<1> QED BY <1>1, FiguresInvHolds, PTL

--------------------
(* Buy plans: the final price stands, and what is marked was mailed. *)

HasPlan(p) == {"final", "pending", "mode", "changes", "lines", "snap", "did", "status", "ack"} \subseteq DOMAIN p

\* The calls at which a sweep may still set the price of the plan.
PricePc == {"read", "change", "credit", "price"}

(* The one sweep under way is the only one to move the final price: what   *)
(* it holds of it, and of a pending change, is still so when it writes.    *)
FinalKnown ==
    /\ row = NoRow \/ HasPlan(row)
    /\ "pc" \in DOMAIN desk /\ (desk.pc = "insert" => row = NoRow)
    /\ sweep = Idle \/ ({"pc", "plan", "d", "st"} \subseteq DOMAIN sweep /\ HasPlan(sweep.plan))
    /\ sweep.pc = "change" => sweep.plan.pending
    /\ sweep.pc = "price" => sweep.plan.final = NoPrice
    /\ row # NoRow /\ sweep.pc \in {"read", "change"} /\ sweep.plan.pending => row.pending \/ row.final = NoPrice
    /\ row # NoRow /\ sweep.pc \in PricePc /\ sweep.plan.final = NoPrice => row.final = NoPrice

\* What a step makes of the row and of the sweep: x is the next call, m what is held.
KeepsFinal ==
    /\ row = NoRow => row' = NoRow
    /\ row # NoRow => HasPlan(row') /\ row'.final = row.final /\ row'.pending = row.pending
Goes(m, x) == {"pc", "plan", "d", "st"} \subseteq DOMAIN sweep' /\ sweep'.pc = x /\ sweep'.plan = m.plan
GoesPast(m) == sweep' = Idle \/ \E x : Goes(m, x) /\ x \notin PricePc
LeavesPrice ==
    /\ KeepsFinal /\ (UNCHANGED sweep \/ (sweep # Idle /\ GoesPast(sweep)))
    /\ UNCHANGED desk \/ ("pc" \in DOMAIN desk' /\ (desk'.pc = "insert" => row = NoRow))

LEMMA ProceedIs ==
  ASSUME NEW m, {"pc", "plan", "d", "st"} \subseteq DOMAIN m, Proceed(m)
  PROVE  GoesPast(m) \/ (Goes(m, "price") /\ m.plan.final = NoPrice)
  BY DEF Proceed, Stop, FinalDue, AwaitingFinalPrice, Goes, GoesPast, PricePc

LEMMA AfterIs ==
  ASSUME NEW k \in {0, 1, 3, 4, 5}, NEW m, {"pc", "plan", "d", "st"} \subseteq DOMAIN m, After(k, m)
  PROVE  GoesPast(m)
<1> DEFINE next == {j \in k + 1 .. Len(Step) : (j > 1 => m.st.balance > 0) /\ Wanted(Step[j], m.plan, m.st)}
           j == CHOOSE j \in next : \A l \in next : j <= l
<1>1. CASE next = {} BY <1>1 DEF After, Over, GoesPast
<1>2. CASE next # {}
  <2>1. sweep' = [m EXCEPT !.pc = Step[j]] BY <1>2 DEF After
  <2>2. next \subseteq 1..5 BY DEF Step
  <2>3. \E x \in next : \A l \in next : x <= l
    <3>1. CASE 1 \in next BY <3>1, <2>2
    <3>2. CASE 1 \notin next /\ 2 \in next BY <3>2, <2>2
    <3>3. CASE 1 \notin next /\ 2 \notin next /\ 3 \in next BY <3>3, <2>2
    <3>4. CASE 1 \notin next /\ 2 \notin next /\ 3 \notin next /\ 4 \in next BY <3>4, <2>2
    <3>5. CASE next \cap 1..4 = {} BY <3>5, <2>2, <1>2
    <3> QED BY <3>1, <3>2, <3>3, <3>4, <3>5
  <2>4. j \in 1..5 BY <2>2, <2>3
  <2> HIDE DEF j
  <2>5. \A x \in 1..5 : Step[x] \in {"ack", "close", "warn", "due", "overdue"} BY DEF Step
  <2> QED BY <2>1, <2>4, <2>5 DEF Goes, GoesPast, PricePc
<1> QED BY <1>1, <1>2

\* All but a few steps leave the final price and pending changes alone.
LEMMA PlanStepIs ==
  ASSUME FinalKnown, [PlanNext]_planVars
  PROVE  \/ LeavesPrice \/ SweepList \/ SweepRead \/ FinishChange \/ ChangeVoucher \/ FinalPrice
         \/ StartInsert \/ StartLock \/ ChangePending
<1> USE DEF Idle
<1>1. UNCHANGED row => KeepsFinal BY DEF FinalKnown, KeepsFinal
<1>2. CASE UNCHANGED planVars \/ DraftWebhook \/ (\E a \in PayAmount : Pay(a)) \/ NextDay
           \/ \E i \in Draft : Nudge(i) \/ Delete(i) \/ Complete(i) \/ \E p \in Piece : Edit(i, p)
  BY <1>1, <1>2 DEF planVars, LeavesPrice, DraftWebhook, Recompute, EngineReprice, Pay, NextDay, Nudge, Delete, Complete, Edit
<1>3. CASE Crash BY <1>1, <1>3 DEF Crash, Restart, LeavesPrice, GoesPast, FinalKnown
<1>4. CASE Restoring \/ RestoreSweep
  BY <1>1, <1>4 DEF Restoring, RestoreWebhook, RestoreSweep, RestoreBegin, RestoreComplete, RestoreCreate, RestoreRekey,
     Stop, Update, LeavesPrice, KeepsFinal, GoesPast, FinalKnown, HasPlan
<1>5. CASE \E mode \in Mode : StartRead(mode) BY <1>1, <1>5 DEF StartRead, LeavesPrice, FinalKnown
<1>6. CASE ChangeRead \/ ChangeTags BY <1>1, <1>6 DEF ChangeRead, ChangeTags, LeavesPrice, FinalKnown
<1>7. CASE SweepComplete \/ FinalMarked \/ Release
  BY <1>1, <1>7 DEF SweepComplete, FinalMarked, Release, Over, Stop, Update, LeavesPrice, KeepsFinal, GoesPast, FinalKnown, HasPlan
<1>8. CASE StartFinalReprice \/ PutBack \/ Forfeit \/ ForfeitVoucher
  <2>1. sweep' = Idle \/ \E x \in {"finalMark", "snapshot", "voucher", "release"} : sweep' = [sweep EXCEPT !.pc = x]
    BY <1>8 DEF StartFinalReprice, PutBack, Forfeit, ForfeitVoucher, Holding, Stop
  <2>2. sweep.pc # "idle" /\ UNCHANGED desk BY <1>8, Zenon DEF StartFinalReprice, PutBack, Forfeit, ForfeitVoucher
  <2>3. GoesPast(sweep) BY <2>1, <2>2 DEF FinalKnown, Goes, GoesPast, PricePc
  <2>4. KeepsFinal
    BY <1>1, <1>8 DEF StartFinalReprice, PutBack, Forfeit, ForfeitVoucher, Update, KeepsFinal, FinalKnown, HasPlan
  <2> QED BY <2>2, <2>3, <2>4 DEF LeavesPrice
<1>9. CASE FinalPriceMail \/ SendMessage
  <2>1. sweep # Idle /\ UNCHANGED row BY <1>9 DEF FinalPriceMail, SendMessage
  <2>2. \/ sweep' = Idle /\ (UNCHANGED desk \/ desk' = Idle)
        \/ UNCHANGED desk /\ \E k \in {3, 4, 5} : After(k, sweep)
    BY <1>9 DEF FinalPriceMail, SendMessage, Stop, Restart
  <2> QED BY <1>1, <2>1, <2>2, AfterIs DEF LeavesPrice, GoesPast, FinalKnown
<1>10. CASE Acknowledge
  <2>1. sweep # Idle /\ UNCHANGED desk /\ After(1, sweep) BY <1>10 DEF Acknowledge
  <2>2. KeepsFinal BY <1>10 DEF Acknowledge, Update, KeepsFinal, FinalKnown, HasPlan
  <2> QED BY <2>1, <2>2, AfterIs DEF LeavesPrice, FinalKnown
<1>11. CASE KeepSnapshot
  <2>1. sweep # Idle /\ UNCHANGED desk BY <1>11 DEF KeepSnapshot
  <2>2. KeepsFinal BY <1>11 DEF KeepSnapshot, Update, KeepsFinal, FinalKnown, HasPlan
  <2>3. PICK st : After(0, [sweep EXCEPT !.st = st]) BY <1>11 DEF KeepSnapshot
  <2> DEFINE m == [sweep EXCEPT !.st = st]
  <2>4. {"pc", "plan", "d", "st"} \subseteq DOMAIN m /\ m.plan = sweep.plan BY <2>1 DEF FinalKnown
  <2> HIDE DEF m
  <2>5. GoesPast(m) BY <2>3, <2>4, AfterIs DEF m
  <2> QED BY <2>1, <2>2, <2>4, <2>5 DEF LeavesPrice, GoesPast, Goes
<1> QED BY <1>2, <1>3, <1>4, <1>5, <1>6, <1>7, <1>8, <1>9, <1>10, <1>11 DEF PlanNext, Sweeping, Serving

\* A product change taken over: the final price follows the draft's, if there was one.
LEMMA FinishIs ==
  ASSUME FinalKnown, FinishChange
  PROVE  \E new : /\ HasPlan(new) /\ (sweep.plan.final = NoPrice => new.final = NoPrice)
                  /\ row = NoRow => row' = NoRow
                  /\ row # NoRow => HasPlan(row') /\ row'.final = new.final
                  /\ sweep' = Idle \/ \E x : /\ Goes([plan |-> new], x) /\ x \notin {"read", "change"}
                                             /\ x = "price" => new.final = NoPrice
<1> USE DEF Idle
<1> DEFINE c == Append(sweep.plan.changes, [date |-> today, total |-> sweep.d.net])
           f == IF sweep.plan.final = NoPrice THEN NoPrice ELSE sweep.d.net
           new == [sweep.plan EXCEPT !.changes = c, !.final = f, !.pending = FALSE, !.lines = sweep.d.piece,
                                     !.snap = SnapshotOf(sweep.d)]
           m == [sweep EXCEPT !.pc = "credit", !.plan = new]
<1>1. {"pc", "plan", "d", "st"} \subseteq DOMAIN sweep /\ HasPlan(sweep.plan) BY DEF FinalKnown, FinishChange
<1>2. HasPlan(new) /\ new.final = f BY <1>1 DEF HasPlan
<1>3. /\ Update([row EXCEPT !.changes = new.changes, !.final = new.final, !.pending = FALSE,
                            !.lines = new.lines, !.snap = new.snap])
      /\ sweep' = m \/ Proceed(m)
  BY <1>1 DEF FinishChange, HasPlan
<1>4. {"pc", "plan", "d", "st"} \subseteq DOMAIN m /\ m.plan = new /\ m.pc = "credit" BY <1>1
<1>5. sweep.plan.final = NoPrice => new.final = NoPrice BY <1>2
<1> HIDE DEF c, f, new, m
<1>6. (row = NoRow => row' = NoRow) /\ (row # NoRow => HasPlan(row') /\ row'.final = new.final)
  BY <1>3 DEF Update, FinalKnown, HasPlan
<1>7. sweep' = Idle \/ \E x : /\ Goes([plan |-> new], x) /\ x \notin {"read", "change"}
                              /\ x = "price" => new.final = NoPrice
  BY <1>3, <1>4, ProceedIs DEF Goes, GoesPast, PricePc
<1> QED BY <1>2, <1>5, <1>6, <1>7

LEMMA FinalKnownNext ==
  ASSUME FinalKnown, [PlanNext]_planVars
  PROVE  FinalKnown'
<1> USE DEF Idle
<1>1. CASE LeavesPrice
  <2>1. /\ row' = NoRow \/ HasPlan(row')
        /\ row' # NoRow => row # NoRow /\ row'.final = row.final /\ row'.pending = row.pending
    BY <1>1 DEF LeavesPrice, KeepsFinal, FinalKnown
  <2>2. "pc" \in DOMAIN desk' /\ (desk'.pc = "insert" => row' = NoRow) BY <1>1 DEF LeavesPrice, KeepsFinal, FinalKnown
  <2>3. CASE UNCHANGED sweep BY <2>1, <2>2, <2>3 DEF FinalKnown
  <2>4. CASE sweep # Idle /\ GoesPast(sweep) BY <2>1, <2>2, <2>4 DEF FinalKnown, Goes, GoesPast, PricePc
  <2> QED BY <1>1, <2>3, <2>4 DEF LeavesPrice
<1>2. CASE SweepList BY <1>2 DEF SweepList, Active, NoRow, Listed, FinalKnown, PricePc
<1>3. CASE SweepRead
  <2> DEFINE m == [sweep EXCEPT !.d = draft[sweep.plan.did]]
  <2>1. {"pc", "plan", "d", "st"} \subseteq DOMAIN m /\ m.plan = sweep.plan BY <1>3 DEF FinalKnown, SweepRead
  <2>2. \/ sweep' = Idle
        \/ \E x \in {"missing", "complete", "change"} :
             sweep' = [m EXCEPT !.pc = x] /\ (x = "change" => sweep.plan.pending)
        \/ Proceed(m)
    BY <1>3, <2>1 DEF SweepRead, Stop
  <2> HIDE DEF m
  <2>3. GoesPast(m) \/ (Goes(m, "price") /\ m.plan.final = NoPrice) \/ (Goes(m, "change") /\ m.plan.pending)
    BY <2>1, <2>2, ProceedIs DEF Goes, GoesPast, PricePc
  <2>4. UNCHANGED <<row, desk>> /\ sweep.pc = "read" BY <1>3 DEF SweepRead
  <2> QED BY <2>1, <2>3, <2>4 DEF Goes, GoesPast, FinalKnown, PricePc
<1>4. CASE FinishChange
  <2>1. UNCHANGED desk /\ sweep.pc = "change" BY <1>4 DEF FinishChange
  <2> QED BY <1>4, <2>1, FinishIs DEF Goes, FinalKnown, PricePc
<1>5. CASE ChangeVoucher
  <2>1. Proceed(sweep) /\ sweep.pc = "credit" /\ UNCHANGED <<row, desk>> BY <1>5 DEF ChangeVoucher
  <2>2. GoesPast(sweep) \/ (Goes(sweep, "price") /\ sweep.plan.final = NoPrice) BY <2>1, ProceedIs DEF FinalKnown
  <2> QED BY <2>1, <2>2 DEF Goes, GoesPast, FinalKnown, PricePc
<1>6. CASE FinalPrice BY <1>6 DEF FinalPrice, Holding, Update, FinalKnown, HasPlan, PricePc
<1>7. CASE StartInsert
  <2>1. "pc" \in DOMAIN desk' /\ desk'.pc = "lock" /\ UNCHANGED sweep BY <1>7 DEF StartInsert, FinalKnown
  <2>2. HasPlan(row') /\ row'.final = NoPrice BY <1>7 DEF StartInsert, HasPlan
  <2> QED BY <2>1, <2>2 DEF FinalKnown, PricePc
<1>8. CASE StartLock BY <1>8 DEF StartLock, FinalKnown
<1>9. CASE ChangePending BY <1>9 DEF ChangePending, Update, FinalKnown, HasPlan, PricePc
<1> QED BY <1>1, <1>2, <1>3, <1>4, <1>5, <1>6, <1>7, <1>8, <1>9, PlanStepIs

(* The final price of a floating plan is set once (FinalPriceStands):      *)
(* between a sweep's listing of the plan and its write of the price lie    *)
(* reads, messages, restores, staff requests and crashes, and still only a *)
(* pending product change moves a final price again.                       *)
THEOREM FinalPriceHolds == PlanSpec => FinalPriceStands
<1>1. PlanInit => FinalKnown BY DEF PlanInit, FinalKnown, Idle
<1>2. ASSUME FinalKnown, [PlanNext]_planVars, row.status # "none", row'.status # "none", row.final # NoPrice, ~row.pending
      PROVE  row'.final = row.final
  <2>1. row # NoRow /\ row' # NoRow BY <1>2 DEF NoRow
  <2>2. CASE LeavesPrice BY <2>1, <2>2 DEF LeavesPrice, KeepsFinal
  <2>3. CASE SweepList \/ SweepRead \/ ChangeVoucher BY <2>3 DEF SweepList, SweepRead, ChangeVoucher
  <2>4. CASE FinishChange BY <1>2, <2>1, <2>4, FinishIs DEF FinishChange, FinalKnown, PricePc
  <2>5. CASE FinalPrice BY <1>2, <2>1, <2>5 DEF FinalPrice, FinalKnown, PricePc
  <2>6. CASE StartInsert BY <1>2, <2>1, <2>6 DEF StartInsert, FinalKnown
  <2>7. CASE StartLock BY <2>1, <2>7 DEF StartLock
  <2>8. CASE ChangePending BY <1>2, <2>1, <2>8 DEF ChangePending, Update, FinalKnown, HasPlan
  <2> QED BY <1>2, <2>2, <2>3, <2>4, <2>5, <2>6, <2>7, <2>8, PlanStepIs
<1>3. FinalKnown /\ [PlanNext]_planVars =>
        [row.status # "none" /\ row'.status # "none" /\ row.final # NoPrice /\ ~row.pending
           => row'.final = row.final]_planVars
  BY <1>2
<1> QED BY <1>1, <1>3, FinalKnownNext, PTL DEF PlanSpec, FinalPriceStands

(* What is marked as sent went out (MarkedWasMailed), whatever crash falls *)
(* between a message and its mark: a message may go out twice, none is     *)
(* skipped.                                                                *)
THEOREM MarkedHolds == PlanSpec => []MarkedWasMailed
<1>1. PlanInit => MarkedWasMailed BY DEF PlanInit, MarkedWasMailed
<1>2. ASSUME MarkedWasMailed, [PlanNext]_planVars PROVE MarkedWasMailed'
  <2>1. \/ sent' = sent /\ mailed \subseteq mailed'
        \/ FinalMarked \/ FinalPriceMail \/ Release \/ SendMessage
    BY <1>2 DEF PlanNext, planVars, Sweeping, Restoring, Serving, DraftWebhook, Recompute, EngineReprice, Pay,
       NextDay, Nudge, Delete, Complete, Edit, Crash, RestoreWebhook, RestoreComplete, RestoreCreate, RestoreRekey,
       StartRead, StartInsert, StartLock, ChangeRead, ChangeTags, ChangePending, SweepList, SweepRead,
       SweepComplete, FinishChange, ChangeVoucher, StartFinalReprice, FinalPrice, PutBack, KeepSnapshot, Acknowledge,
       Forfeit, ForfeitVoucher, RestoreSweep
  <2>2. CASE sent' = sent /\ mailed \subseteq mailed' BY <1>2, <2>2 DEF MarkedWasMailed
  <2>3. CASE FinalMarked \/ Release
    <3>1. PICK k \in {"final_reprice", "forfeited"} : sent' = sent \cup {<<N, k, 0>>} /\ mailed' = mailed
      BY <2>3 DEF FinalMarked, Release, Mark, FinalMark
    <3> QED BY <1>2, <3>1 DEF MarkedWasMailed
  <2>4. CASE FinalPriceMail BY <1>2, <2>4 DEF FinalPriceMail, Mail, MarkedWasMailed
  <2>5. CASE SendMessage
    <3>1. PICK m : mailed' = mailed \cup {m} /\ (sent' = sent \/ sent' = sent \cup {m})
      BY <2>5 DEF SendMessage, Mail, Mark
    <3> QED BY <1>2, <3>1 DEF MarkedWasMailed
  <2> QED BY <2>1, <2>2, <2>3, <2>4, <2>5
<1> QED BY <1>1, <1>2, PTL DEF PlanSpec
=============================================================================
