------------------------- MODULE RepairLinksProofs -------------------------
(***************************************************************************)
(* Theorems about Repair and about Links, for any values of their          *)
(* constants.  A repair is paid by links of its own; the two specifications*)
(* share no variable and the two parts no lemma.                           *)
(*                                                                         *)
(* The invariant of Repair has a part for each thing its cases allow:      *)
(*   TypeInv, Ordered, Unbalanced   in every case                          *)
(*   Apart       where requests do not overlap                             *)
(*   Afforded    ... and no estimate or completion is entered again        *)
(*   OrderlyInv  where requests do not overlap and no call fails           *)
(*   BackInv     ... and no estimate or completion is entered again        *)
(*   QuoteInv, PaidInv   where only notifications are late or come twice   *)
(*   FairInv     where notifications come in time                          *)
(***************************************************************************)
EXTENDS Repair, Links, FiniteSetTheorems, TLAPS

--------------------
(* The steps that are due on the tags, and how far a pass has come. *)

GateDue(t) == "intake" \in t /\ "hq-notified" \notin t
FreeDue(t) == "free" \in t /\ "free-notified" \notin t
ApproveDue(t) == "store-approved" \in t /\ "store-hq-notified" \notin t
QuoteDue(t) == "estimate-ready" \in t /\ "estimate-sent" \notin t
ReadyDue(t) == "complete" \in t /\ "completion-notified" \notin t

NothingDue(t) ==
    /\ ~GateDue(t) /\ ~FreeDue(t) /\ ~ApproveDue(t) /\ ~QuoteDue(t) /\ ~ReadyDue(t)
    /\ "resync" \notin t

\* Tags that come after a class was given and its intake mailed.
Later == {"free-notified", "store-approved", "store-hq-notified", "estimate-ready",
          "estimate-sent", "paid", "complete", "completion-notified", "refund-requested"}

GatePc == {"gate", "unhold", "mailReceived", "markReceived"}
FreePc == {"mailFree", "markFree"}
ApprovePc == {"mailApproved", "markApproved"}
QuotePc == {"link", "mailQuote", "markQuoted"}
ReadyPc == {"fields", "balance", "mailReady", "markReady"}
AfterPc == {"end", "recopy", "serial"}
ChainPc == {"fetch", "copy", "zero", "reread", "resync", "resynced"}
             \cup GatePc \cup FreePc \cup ApprovePc \cup QuotePc \cup ReadyPc \cup AfterPc

ReqPc == {"read", "put", "final", "specs", "delta", "voucher", "paid"}
Job == {"estimate", "complete", "approve", "refund", "pay"} \cup Class

--------------------
(* Types *)

DraftRec == [tags : SUBSET Tag, price : Money, item : BOOLEAN]
Ask == [mode : AskMode, amount : Nat]
ChainRec == [pc : ChainPc, pass : 1 .. 3, pending : BOOLEAN, tags : SUBSET Tag,
             price : Money, item : BOOLEAN, ask : Ask \cup {None}]
ReqRec == [pc : ReqPc, job : Job, amount : Nat \cup {None}, extra : BOOLEAN,
           tags : SUBSET Tag, price : Money, item : BOOLEAN]
GotRec == [mode : AskMode, amount : Nat, got : Nat]
ToldRec == [received : Nat, free : Nat, approved : Nat, ready : Nat,
            quote : Money \cup {None}, ask : GotRec \cup {None}]
LinkRec == [n : Nat, kind : {"estimate", "balance"}, amount : Nat, paid : BOOLEAN]

\* What a request may be about to do.
JobOK(r) ==
    /\ r.job = "estimate" => r.amount \in Money
    /\ r.job = "complete" => r.amount \in Money \cup {None}
    /\ r.pc \in {"final", "specs"} => r.job = "complete"
    /\ r.pc \in {"delta", "voucher"} => r.job = "refund"
    /\ r.pc = "voucher" => r.amount \in Nat
    /\ r.pc = "specs" => r.extra
    /\ r.pc = "paid" => r.job = "pay"

TypeInv ==
    /\ case \in Case /\ events \in Nat
    /\ draft \in DraftRec
    /\ known \in BOOLEAN
    /\ fields \in [paid : Money, final : Money \cup {None}]
    /\ due \in 0 .. MaxDue
    /\ chain \in {Idle} \cup ChainRec
    /\ Running /\ chain.pc \in {"balance", "mailReady", "markReady"} => chain.ask \in Ask
    /\ req \in [Slot -> {Idle} \cup ReqRec]
    /\ \A s \in Slot : Busy(s) => JobOK(req[s])
    /\ links \subseteq LinkRec /\ IsFiniteSet(links)
    /\ calls \subseteq Nat
    /\ told \in ToldRec
    /\ money \in [got : Nat, back : Nat, vouchers : Nat]
    /\ serials \subseteq {"TS", "FS"}
    /\ wanted \in Money \cup {None}

Quoting == {"estimate-ready", "estimate-sent"}
Paying(s) == Busy(s) /\ req[s].job = "pay"

\* Nothing is quoted or paid before staff have set a price, and no price is
\* set before the intake was mailed.
Ordered ==
    /\ wanted = None =>
          /\ links = {} /\ calls = {} /\ fields.paid = 0 /\ told.quote = None
          /\ draft.tags \cap Quoting = {}
          /\ Running => chain.tags \cap Quoting = {} /\ chain.pc \notin QuotePc \cup {"balance"}
          /\ \A s \in Slot : Busy(s) => req[s].tags \cap Quoting = {} /\ req[s].job # "pay"
    /\ wanted # None => told.received > 0
    /\ told.ask # None => told.ready > 0
    /\ \A s \in Slot : Busy(s) =>
          /\ req[s].job = "estimate" => told.received > 0
          /\ req[s].job = "approve" => told.quote # None
          /\ req[s].job = "refund" => told.ready > 0

--------------------
(* Requests do not overlap *)

Alone == due = 0 /\ ~Running
\* The calls of a request after a write of its own has started a pass.
Overlaps(r) == r.pc = "paid" \/ (r.pc = "put" /\ r.job = "complete" /\ r.extra)

\* One request at a time: until its first write no pass runs, and what it
\* read is what the draft still says.
Apart ==
    /\ ~Busy("b")
    /\ Busy("a") =>
          /\ ~Overlaps(req["a"]) => Alone
          /\ req["a"].pc \notin {"read", "paid"} /\ ~Overlaps(req["a"]) =>
                req["a"].tags = draft.tags /\ req["a"].price = draft.price /\ req["a"].item = draft.item

\* The price never rises above what was paid, once anything was paid.
Charged ==
    \/ calls # {} \/ fields.paid > 0 \/ Paying("a")
    \/ \E l \in links : l.kind = "balance"
    \/ Running /\ chain.pc = "balance"

Afforded ==
    /\ Charged => draft.price <= money.got /\ (Running => chain.price <= money.got)
    /\ Paying("a") /\ req["a"].pc # "read" => req["a"].price <= money.got
    /\ fields.paid <= money.got
    /\ \A l \in links : l.kind = "estimate" /\ l.amount > 0 =>
          draft.price <= l.amount /\ (Running => chain.price <= l.amount)
    /\ Running => draft.price \in {chain.price, 0}
    /\ Busy("a") /\ req["a"].job = "estimate" => wanted = None \/ req["a"].amount = 0

--------------------
(* Orderly repairs *)

\* A pass goes by the tags it read; an intake waits for what it must know.
Same == chain.tags = draft.tags

Blocked ==
    GateDue(draft.tags) /\ (IF "outside" \in draft.tags THEN ~draft.item ELSE ~known)

AnyDue(t) == GateDue(t) \/ FreeDue(t) \/ ApproveDue(t) \/ QuoteDue(t) \/ ReadyDue(t)
Work == ~Blocked /\ AnyDue(draft.tags)

\* One step is due at a time, and the later ones only after the intake.
Sense ==
    /\ draft.tags \cap Later # {} => draft.tags \cap Class # {} /\ ~GateDue(draft.tags)
    /\ "hq-notified" \in draft.tags => "intake" \in draft.tags
    /\ FreeDue(draft.tags) => ~ApproveDue(draft.tags) /\ ~QuoteDue(draft.tags) /\ ~ReadyDue(draft.tags)
    /\ ApproveDue(draft.tags) => ~QuoteDue(draft.tags) /\ ~ReadyDue(draft.tags)
    /\ QuoteDue(draft.tags) => ~ReadyDue(draft.tags)

\* What a pass read is still so where it acts on it.
View ==
    Running =>
      /\ chain.pc # "reread" => chain.price = draft.price
      /\ chain.pc \in {"copy", "zero", "gate"} => chain.item = draft.item
      /\ chain.pc \in GatePc => Same /\ GateDue(draft.tags)
      /\ chain.pc \in GatePc \ {"gate"} => ~Blocked
      /\ chain.pc \in FreePc => Same /\ ~GateDue(draft.tags) /\ FreeDue(draft.tags)
      /\ chain.pc \in ApprovePc => Same /\ ApproveDue(draft.tags)
      /\ chain.pc \in QuotePc => Same /\ QuoteDue(draft.tags)
      /\ chain.pc \in ReadyPc => Same /\ ReadyDue(draft.tags)
      /\ chain.pc \in {"resync", "resynced"} => Same
      /\ chain.pc \in {"copy", "zero", "reread"} => Same \/ NothingDue(chain.tags)
      /\ chain.pc \in {"copy", "zero", "reread"} /\ "free" \in chain.tags => "free" \in draft.tags
      /\ chain.pc = "zero" => "free" \in draft.tags
      /\ chain.pc = "copy" => ~draft.item /\ "outside" \notin draft.tags
      /\ chain.pc = "recopy" => ~AnyDue(draft.tags)
      /\ chain.pc = "serial" => ~AnyDue(draft.tags)

\* Where a step is due a pass will come for it, and the third pass of a
\* chain has nothing left that a fourth would be needed for.
Passes ==
    /\ ~Running /\ Work => due > 0
    /\ Running /\ Work /\ (chain.pc \in AfterPc \/ (chain.pc \in {"copy", "zero", "reread"} /\ ~Same)) =>
          (due > 0 \/ chain.pending) /\ chain.pass <= 2
          /\ (chain.pass = 2 => ~(GateDue(draft.tags) /\ FreeDue(draft.tags)))
    /\ Running /\ chain.pass = 3 /\ ~Blocked => ~(GateDue(draft.tags) /\ FreeDue(draft.tags))

FreeUnpaid == "free" \in draft.tags /\ draft.price # 0
Uncopied == known /\ ~draft.item /\ "outside" \notin draft.tags /\ draft.tags # {}

\* So with the price of a free repair, the specs to copy and a resync.
Tidy ==
    /\ FreeUnpaid => IF Running THEN chain.pc \in {"fetch", "copy", "zero"} /\ (chain.pc # "fetch" => Same)
                     ELSE due > 0
    /\ Uncopied => IF Running THEN chain.pc \in {"fetch", "copy"} ELSE due > 0
    /\ "resync" \in draft.tags =>
          IF Running THEN chain.pc \in {"fetch", "copy", "zero", "reread", "resync", "resynced"}
                          /\ (chain.pc # "fetch" => Same)
          ELSE due > 0

\* Nothing is left to do, and at most one webhook tells of it.
Idling ==
    /\ NothingDue(draft.tags) /\ ~FreeUnpaid /\ ~Uncopied
    /\ IF Running
       THEN /\ due = 0 /\ ~chain.pending /\ chain.pass = 1
            /\ chain.pc \in {"fetch", "copy", "end"}
            /\ chain.pc = "copy" => Same /\ ~known
       ELSE due <= 1

\* What was told is marked, or about to be.
ToldInv ==
    /\ told.received <= 1 /\ (told.received > 0 => "hq-notified" \in draft.tags \/ chain.pc = "markReceived")
    /\ told.free <= 1 /\ (told.free > 0 => "free-notified" \in draft.tags \/ chain.pc = "markFree")
    /\ told.approved <= 1 /\ (told.approved > 0 => "store-hq-notified" \in draft.tags \/ chain.pc = "markApproved")
    /\ told.ready <= 1 /\ (told.ready > 0 => "completion-notified" \in draft.tags \/ chain.pc = "markReady")
    /\ told.ready > 0 => "complete" \in draft.tags
    /\ serials # {} => told.ready > 0
    /\ chain.pc \in {"markReady", "serial"} => serials = {} /\ told.ready > 0
    /\ \A x, y \in serials : x = y

\* What a request may count on at its later calls.
Requests ==
    Busy("a") =>
      /\ Overlaps(req["a"]) => Idling
      /\ req["a"].job = "complete" /\ req["a"].pc \in {"read", "final", "specs", "put"} =>
            draft.tags \cap Later # {}
      /\ req["a"].pc = "put" => req["a"].tags = draft.tags
      /\ req["a"].pc = "put" /\ req["a"].job = "pay" => draft.tags \cap Quoting # {}
      /\ req["a"].job = "refund" /\ req["a"].pc \in {"delta", "voucher"} => money.vouchers = 0

\* The price is the last one staff set.
Priced ==
    "free" \notin draft.tags => draft.price = IF wanted = None THEN case.price ELSE wanted

\* A voucher is followed by the tag that keeps a second one away.
RefundInv ==
    /\ money.vouchers <= 1
    /\ money.vouchers > 0 => \/ "refund-requested" \in draft.tags
                             \/ Busy("a") /\ req["a"].job = "refund" /\ req["a"].pc = "put"
    /\ money.vouchers = 0 => money.back = 0
    /\ money.vouchers > 0 => told.ready > 0

OrderlyInv == Sense /\ View /\ Passes /\ Tidy /\ ToldInv /\ Requests /\ Priced /\ RefundInv

--------------------
(* The quote, the payment, what is asked and given back at the end *)

\* What was quoted is the price as long as it may still be paid.
QuoteInv ==
    /\ "estimate-sent" \in draft.tags => told.quote = draft.price
    /\ Running /\ chain.pc = "markQuoted" => told.quote = draft.price
    /\ "free" \in draft.tags => told.quote = None /\ "estimate-ready" \notin draft.tags
    /\ Busy("a") /\ req["a"].job = "estimate" =>
          wanted = None /\ (req["a"].amount # 0 => "free" \notin draft.tags)

\* One estimate, paid once.
Plain == \A l \in links : l.paid => l.kind = "estimate"
LinkPaid == \E l \in links : l.paid
Estimated == \E l \in links : l.kind = "estimate"

EstimateInv ==
    /\ \A l, m \in links : l.kind = "estimate" /\ m.kind = "estimate" => l = m
    /\ \A l \in links : l.kind = "estimate" => l.amount = draft.price
    /\ told.quote # None =>
          (Running /\ chain.pc = "markQuoted") \/ "estimate-sent" \in draft.tags \/ "estimate-ready" \notin draft.tags
    /\ Estimated => told.quote # None \/ (Running /\ chain.pc = "mailQuote")
    /\ Estimated /\ ~LinkPaid => "estimate-ready" \in draft.tags

\* The balance is asked for when the repair is ready, after a payment.
BalanceInv ==
    /\ \A l \in links : l.kind = "balance" => told.ready > 0 \/ (Running /\ chain.pc = "mailReady")
    /\ Running /\ chain.pc = "balance" => LinkPaid

\* The payment is recorded, or on its way to be.
OnItsWay ==
    \/ "estimate-sent" \in draft.tags /\ calls # {}
    \/ "estimate-sent" \in draft.tags /\ Paying("a") /\ req["a"].pc \in {"read", "put"}
    \/ Paying("a") /\ req["a"].pc = "paid"

PaymentInv ==
    /\ ~LinkPaid => money.got = 0 /\ calls = {} /\ fields.paid = 0 /\ ~Paying("a")
    /\ LinkPaid /\ Plain => money.got = draft.price /\ (fields.paid = money.got \/ OnItsWay)
    /\ Paying("a") /\ req["a"].pc = "paid" => req["a"].price = draft.price

PaidInv == EstimateInv /\ BalanceInv /\ PaymentInv

Fair(amount, paid) ==
    LET cost == IF "free" \in draft.tags THEN 0
                ELSE IF fields.final # None THEN fields.final
                ELSE IF paid > 0 THEN paid ELSE draft.price
    IN amount = IF cost > paid THEN cost - paid ELSE paid - cost

Completing == Busy("a") /\ req["a"].job = "complete"

\* Nothing is completed before it was paid for, approved, or made free.
Grounds ==
    /\ "free-notified" \in draft.tags => "free" \in draft.tags
    /\ draft.tags \cap {"paid", "store-approved", "store-hq-notified"} # {} => wanted # None
    /\ "complete" \in draft.tags \/ Completing => wanted # None \/ "free" \in draft.tags

\* What the ready mail will say was worked out with the payment known.
FairInv ==
    /\ Running /\ chain.pc \in {"balance", "mailReady"} => Fair(chain.ask.amount, money.got)
    /\ told.ask # None => Fair(told.ask.amount, told.ask.got)
    /\ calls # {} => Idling /\ (Busy("a") => Paying("a"))
    /\ Grounds

\* What is given back was worked out from the final price, which stands.
BackInv ==
    /\ Completing => "complete" \notin draft.tags
    /\ Running /\ chain.pc \in {"balance", "mailReady"} /\ chain.ask.mode = "refund" => fields.final # None
    /\ told.ask # None /\ told.ask.mode = "refund" => fields.final # None
    /\ Busy("a") /\ req["a"].job = "refund" => fields.final # None
    /\ Busy("a") /\ req["a"].pc = "voucher" => req["a"].amount <= money.got - fields.final
    /\ money.vouchers > 0 => fields.final # None /\ money.back <= money.got - fields.final

\* Only links of the estimate are paid where the balance never is.
Unbalanced == ~Allowed("balance") => Plain

IInv ==
    /\ TypeInv /\ Ordered /\ Unbalanced
    /\ Only(Trouble \ {"overlap"}) => Apart
    /\ Only(Trouble \ {"revise", "overlap"}) => Afforded
    /\ Only(Trouble \ {"fault", "overlap"}) => OrderlyInv
    /\ Only({"balance", "late", "again"}) => QuoteInv /\ PaidInv
    /\ Only({"balance", "again"}) => FairInv
    /\ Only(Trouble \ {"revise", "fault", "overlap"}) => BackInv

--------------------
(* What the writers do, field by field *)

LEMMA MoneyIsNat == Money \subseteq Nat /\ None \notin Money
<1>1. Amount \subseteq Nat \ {0} /\ None \notin Nat BY RepairAssumption
<1>2. ASSUME NEW m \in Money PROVE m \in Nat
  <2>1. CASE m = 0 BY <2>1
  <2>2. CASE m \in Amount BY <1>1, <2>2
  <2> QED BY <2>1, <2>2 DEF Money
<1>3. Money \subseteq Nat BY <1>2
<1> QED BY <1>1, <1>3

\* A write of the draft asks for a pass.
LEMMA Tells ==
  ASSUME TypeInv, Told(1)
  PROVE  due' \in 1 .. MaxDue /\ due' >= due /\ due' <= due + 1
<1>1. MaxDue \in Nat \ {0} /\ due \in 0 .. MaxDue BY RepairAssumption DEF TypeInv
<1>2. \A x, y \in Nat : Min({x, y}) = IF x <= y THEN x ELSE y
  <2> TAKE x, y \in Nat
  <2> DEFINE m == IF x <= y THEN x ELSE y
  <2>1. m \in {x, y} /\ \A z \in {x, y} : m <= z OBVIOUS
  <2>2. \A a \in {x, y} : (\A z \in {x, y} : a <= z) => a = m OBVIOUS
  <2> QED BY <2>1, <2>2 DEF Min
<1>3. Min({due + 1, MaxDue}) = IF due + 1 <= MaxDue THEN due + 1 ELSE MaxDue BY <1>1, <1>2
<1> QED BY <1>1, <1>3 DEF Told

LEMMA TagsPut ==
  ASSUME TypeInv, NEW tags \in SUBSET Tag, PutTags(tags)
  PROVE  /\ draft' \in DraftRec
         /\ draft'.tags = tags /\ draft'.price = draft.price /\ draft'.item = draft.item
         /\ due' \in 1 .. MaxDue /\ due' >= due /\ due' <= due + 1
<1>1. Told(1) /\ draft' = [draft EXCEPT !.tags = tags] BY DEF PutTags
<1>2. draft \in DraftRec BY DEF TypeInv
<1> QED BY <1>1, <1>2, Tells DEF DraftRec

LEMMA LinePut ==
  ASSUME TypeInv, NEW price \in Money, NEW item \in BOOLEAN, PutLine(price, item)
  PROVE  /\ draft' \in DraftRec
         /\ draft'.tags = draft.tags /\ draft'.price = price /\ draft'.item = item
         /\ due' \in 1 .. MaxDue /\ due' >= due /\ due' <= due + 1
<1>1. Told(1) /\ draft' = [draft EXCEPT !.price = price, !.item = item] BY DEF PutLine
<1>2. draft \in DraftRec BY DEF TypeInv
<1> QED BY <1>1, <1>2, Tells DEF DraftRec

\* A pass that runs is a record.
LEMMA PassRec ==
  ASSUME TypeInv, Running
  PROVE  chain \in ChainRec
<1>1. Idle.pc = "idle" BY DEF Idle
<1> QED BY <1>1 DEF TypeInv, Running

LEMMA Goes ==
  ASSUME TypeInv, Running, NEW at \in ChainPc, Goto(at)
  PROVE  /\ chain' \in ChainRec /\ Running' /\ chain'.pc = at
         /\ chain'.tags = chain.tags /\ chain'.price = chain.price /\ chain'.item = chain.item
         /\ chain'.pass = chain.pass /\ chain'.pending = chain.pending /\ chain'.ask = chain.ask
<1>1. chain \in ChainRec BY PassRec
<1>2. chain' = [chain EXCEPT !.pc = at] BY DEF Goto
<1>3. at # "idle"
  BY DEF ChainPc, GatePc, FreePc, ApprovePc, QuotePc, ReadyPc, AfterPc
<1> QED BY <1>1, <1>2, <1>3 DEF ChainRec, Running

LEMMA PassStarts ==
  ASSUME TypeInv, NEW n \in 1 .. 3, chain' = Pass(n)
  PROVE  /\ chain' \in ChainRec /\ Running' /\ chain'.pc = "fetch"
         /\ chain'.tags = draft.tags /\ chain'.price = draft.price /\ chain'.item = draft.item
         /\ chain'.pass = n /\ chain'.pending = FALSE
<1>1. draft \in DraftRec BY DEF TypeInv
<1>2. "fetch" \in ChainPc BY DEF ChainPc
<1> QED BY <1>1, <1>2 DEF Pass, ChainRec, Running, DraftRec

\* A request that runs is a record.
LEMMA RequestRec ==
  ASSUME TypeInv, NEW s \in Slot, Busy(s)
  PROVE  req[s] \in ReqRec /\ JobOK(req[s])
<1>1. Idle.pc = "idle" BY DEF Idle
<1> QED BY <1>1 DEF TypeInv, Busy

LEMMA Finishes ==
  ASSUME TypeInv, NEW s \in Slot, Done(s)
  PROVE  /\ req' \in [Slot -> {Idle} \cup ReqRec]
         /\ ~Busy(s)' /\ \A q \in Slot \ {s} : req'[q] = req[q]
  BY DEF TypeInv, Done, Busy, Idle

--------------------
(* Types *)

LEMMA InitTypes == Init => TypeInv
<1> SUFFICES ASSUME Init PROVE TypeInv OBVIOUS
<1>1. PICK k \in Case : case = k /\ events = k.events
                        /\ draft = [tags |-> {}, price |-> k.price, item |-> FALSE] /\ known = k.known
  BY DEF Init
<1>2. k.events \in Nat /\ k.price \in Money /\ k.known \in BOOLEAN
  BY RepairAssumption DEF Money
<1>3. links = {} /\ IsFiniteSet(links) BY FS_EmptySet DEF Init
<1>4. req \in [Slot -> {Idle} \cup ReqRec] /\ \A s \in Slot : ~Busy(s) BY DEF Init, Busy, Idle
<1>5. ~Running BY DEF Init, Running, Idle
<1>6. due \in 0 .. MaxDue BY RepairAssumption DEF Init
<1>7. draft \in DraftRec BY <1>1, <1>2 DEF DraftRec
<1>8. told \in ToldRec BY DEF Init, ToldRec, Money
<1> QED BY <1>1, <1>2, <1>3, <1>4, <1>5, <1>6, <1>7, <1>8 DEF Init, TypeInv, Money

\* A step of the pass that neither mails nor counts.
LEMMA PassTypes ==
  ASSUME TypeInv,
         draft' \in DraftRec, due' \in 0 .. MaxDue,
         chain' \in {Idle} \cup ChainRec,
         Running' /\ chain'.pc \in {"balance", "mailReady", "markReady"} => chain'.ask \in Ask,
         UNCHANGED <<case, known, fields, req, links, calls, serials, ghosts>>,
         events' \in Nat
  PROVE  TypeInv'
  BY DEF TypeInv, DraftRec, Busy, ghosts, JobOK

LEMMA CopyTypes ==
  ASSUME TypeInv, Running, CopySpecs
  PROVE  /\ draft' \in DraftRec /\ due' \in 0 .. MaxDue /\ draft'.tags = draft.tags
         /\ due' >= due /\ due' <= due + 1
         /\ known => draft'.price = chain.price /\ draft'.item = TRUE /\ due' > 0
         /\ ~known => draft' = draft /\ due' = due
<1>1. chain \in ChainRec BY PassRec
<1>2. chain.price \in Money BY <1>1 DEF ChainRec
<1>3. CASE known
  <2>1. PutLine(chain.price, TRUE) BY <1>3 DEF CopySpecs
  <2>2. due \in 0 .. MaxDue /\ MaxDue \in Nat BY RepairAssumption DEF TypeInv
  <2>3. /\ draft' \in DraftRec
        /\ draft'.tags = draft.tags /\ draft'.price = chain.price /\ draft'.item = TRUE
        /\ due' \in 1 .. MaxDue /\ due' >= due /\ due' <= due + 1
    BY <1>2, <2>1, LinePut
  <2> QED BY <1>3, <2>2, <2>3 DEF DraftRec
<1>4. CASE ~known
  BY <1>4, RepairAssumption DEF CopySpecs, TypeInv, DraftRec
<1> QED BY <1>3, <1>4

\* Where a pass goes from the tags it has read.
LEMMA OnwardPc ==
  ASSUME NEW t \in SUBSET Tag
  PROVE  /\ Trigger(t) \in {"gate", "mailFree", "mailApproved", "link", "fields", "end"}
         /\ Onward(t) \in {"resync", "gate", "mailFree", "mailApproved", "link", "fields", "end"}
         /\ Onward(t) \in ChainPc
  BY DEF Trigger, Onward, ChainPc, GatePc, FreePc, ApprovePc, QuotePc, ReadyPc, AfterPc

LEMMA ToZeroPc ==
  ASSUME NEW c, c.tags \in SUBSET Tag, NEW w
  PROVE  /\ ToZero(c, w) \in {"zero", "reread", "resync", "gate", "mailFree", "mailApproved",
                              "link", "fields", "end"}
         /\ ToZero(c, w) \in ChainPc
<1>1. Onward(c.tags) \in {"resync", "gate", "mailFree", "mailApproved", "link", "fields", "end"}
  BY OnwardPc
<1> QED BY <1>1 DEF ToZero, ChainPc, GatePc, FreePc, ApprovePc, QuotePc, ReadyPc, AfterPc

Asks == {"balance", "mailReady", "markReady"}

LEMMA StartPassTypes == TypeInv /\ (Deliver \/ EndPass \/ Fetch) => TypeInv'
<1> SUFFICES ASSUME TypeInv, Deliver \/ EndPass \/ Fetch PROVE TypeInv' OBVIOUS
<1> USE DEF Asks
<1>0. draft \in DraftRec /\ due \in 0 .. MaxDue /\ MaxDue \in Nat /\ events \in Nat
  BY RepairAssumption DEF TypeInv, DraftRec
<1>i. Idle.pc = "idle" BY DEF Idle
<1>1. CASE Deliver
  <2>1. /\ due > 0 /\ due' = due - 1 /\ draft' = draft
        /\ UNCHANGED <<case, known, fields, req, links, calls, serials, ghosts, events>>
    BY <1>1 DEF Deliver
  <2>2. CASE Running
    <3>1. chain \in ChainRec BY <2>2, PassRec
    <3>2. chain' = [chain EXCEPT !.pending = TRUE] BY <1>1, <2>2 DEF Deliver
    <3>3. chain' \in ChainRec /\ chain'.pc = chain.pc /\ chain'.ask = chain.ask
      BY <3>1, <3>2 DEF ChainRec
    <3>4. Running' /\ chain'.pc \in Asks => chain'.ask \in Ask
      BY <2>2, <3>3 DEF TypeInv, Running
    <3> QED BY <1>0, <2>1, <3>3, <3>4, PassTypes
  <2>3. CASE ~Running
    <3>1. chain' = Pass(1) BY <1>1, <2>3 DEF Deliver
    <3>2. chain' \in ChainRec /\ chain'.pc = "fetch" BY <3>1, PassStarts
    <3> QED BY <1>0, <2>1, <3>2, PassTypes
  <2> QED BY <2>2, <2>3
<1>2. CASE EndPass
  <2>1. UNCHANGED <<case, draft, known, fields, due, req, links, calls, serials, ghosts, events>>
    BY <1>2 DEF EndPass
  <2>2. Running BY <1>2 DEF EndPass, Running
  <2>3. chain \in ChainRec BY <2>2, PassRec
  <2>4. CASE chain.pending /\ chain.pass < 3
    <3>1. chain.pass + 1 \in 1 .. 3 /\ chain' = Pass(chain.pass + 1)
      BY <1>2, <2>3, <2>4 DEF EndPass, ChainRec
    <3>2. chain' \in ChainRec /\ chain'.pc = "fetch" BY <3>1, PassStarts
    <3> QED BY <1>0, <2>1, <3>2, PassTypes
  <2>5. CASE ~(chain.pending /\ chain.pass < 3)
    <3>1. chain' = Idle BY <1>2, <2>5 DEF EndPass
    <3> QED BY <1>0, <1>i, <2>1, <3>1, PassTypes
  <2> QED BY <2>4, <2>5
<1>3. CASE Fetch
  <2>1. UNCHANGED <<case, draft, known, fields, due, req, links, calls, serials, ghosts, events>>
    BY <1>3 DEF Fetch
  <2>2. Running BY <1>3 DEF Fetch, Running
  <2>3. chain \in ChainRec BY <2>2, PassRec
  <2>4. PICK c : c = Pass(chain.pass) OBVIOUS
  <2>5. PICK at : at = IF c.tags = {} THEN "end"
                       ELSE IF ~c.item /\ "outside" \notin c.tags THEN "copy"
                       ELSE ToZero(c, FALSE)
    OBVIOUS
  <2>6. chain' = [c EXCEPT !.pending = chain.pending, !.pc = at] BY <1>3, <2>4, <2>5 DEF Fetch
  <2>7. c = [pc |-> "fetch", pass |-> chain.pass, pending |-> FALSE, tags |-> draft.tags,
             price |-> draft.price, item |-> draft.item, ask |-> None]
    BY <2>4 DEF Pass
  <2>8. c.tags \in SUBSET Tag BY <1>0, <2>7 DEF DraftRec
  <2>9. at \in ChainPc /\ at \notin Asks
    BY <2>5, <2>8, ToZeroPc DEF ChainPc, AfterPc
  <2>10. chain' \in ChainRec /\ chain'.pc = at
    BY <1>0, <2>3, <2>6, <2>7, <2>9 DEF ChainRec, DraftRec
  <2> QED BY <1>0, <2>1, <2>9, <2>10, PassTypes
<1> QED BY <1>1, <1>2, <1>3

LEMMA TidyTypes ==
  TypeInv /\ (Copy \/ Zero \/ Reread \/ Resync \/ Resynced \/ Recopy) => TypeInv'
<1> SUFFICES ASSUME TypeInv, Copy \/ Zero \/ Reread \/ Resync \/ Resynced \/ Recopy PROVE TypeInv'
  OBVIOUS
<1> USE DEF Asks
<1>0. draft \in DraftRec /\ due \in 0 .. MaxDue /\ MaxDue \in Nat /\ events \in Nat /\ known \in BOOLEAN
  BY RepairAssumption DEF TypeInv, DraftRec
<1>1. Running BY DEF Copy, Zero, Reread, Resync, Resynced, Recopy, Running
<1>2. chain \in ChainRec BY <1>1, PassRec
<1>3. /\ chain.price \in Money /\ chain.item \in BOOLEAN /\ chain.tags \in SUBSET Tag
  BY <1>2 DEF ChainRec
<1>4. UNCHANGED <<case, known, fields, req, links, calls, serials, ghosts, events>>
  BY DEF Copy, Zero, Reread, Resync, Resynced, Recopy
<1>5. {"reread", "resynced", "end"} \subseteq ChainPc BY DEF ChainPc, AfterPc
<1>6. CASE Copy
  <2>1. draft' \in DraftRec /\ due' \in 0 .. MaxDue BY <1>1, <1>6, CopyTypes DEF Copy
  <2>2. PICK at : at = ToZero(chain, known) OBVIOUS
  <2>3. at \in ChainPc /\ at \notin Asks BY <1>3, <2>2, ToZeroPc
  <2>4. chain' = [chain EXCEPT !.pc = at, !.item = known] BY <1>6, <2>2 DEF Copy
  <2>5. chain' \in ChainRec /\ chain'.pc = at BY <1>0, <1>2, <2>3, <2>4 DEF ChainRec
  <2> QED BY <1>0, <1>4, <2>1, <2>3, <2>5, PassTypes
<1>7. CASE Zero
  <2>1. PutLine(0, chain.item) /\ Goto("reread") BY <1>7 DEF Zero
  <2>2. 0 \in Money BY DEF Money
  <2>3. draft' \in DraftRec /\ due' \in 1 .. MaxDue BY <1>3, <2>1, <2>2, LinePut DEF DraftRec
  <2>4. chain' \in ChainRec /\ chain'.pc = "reread" BY <1>1, <1>5, <2>1, Goes
  <2> QED BY <1>0, <1>4, <2>3, <2>4, PassTypes
<1>8. CASE Reread
  <2>1. PICK at : at = Onward(chain.tags) OBVIOUS
  <2>2. at \in ChainPc /\ at \notin Asks BY <1>3, <2>1, OnwardPc
  <2>3. chain' = [chain EXCEPT !.pc = at, !.price = draft.price, !.item = draft.item]
    BY <1>8, <2>1 DEF Reread
  <2>4. chain' \in ChainRec /\ chain'.pc = at BY <1>0, <1>2, <2>2, <2>3 DEF ChainRec, DraftRec
  <2>5. draft' = draft /\ due' = due BY <1>8 DEF Reread
  <2> QED BY <1>0, <1>4, <2>2, <2>4, <2>5, PassTypes
<1>9. CASE Resync \/ Recopy
  <2>1. draft' \in DraftRec /\ due' \in 0 .. MaxDue
    BY <1>0, <1>1, <1>9, CopyTypes DEF Resync, Recopy
  <2>2. Goto("resynced") \/ Goto("end") BY <1>9 DEF Resync, Recopy
  <2>3. chain' \in ChainRec /\ chain'.pc \in {"resynced", "end"} BY <1>1, <1>5, <2>2, Goes
  <2> QED BY <1>0, <1>4, <2>1, <2>3, PassTypes
<1>10. CASE Resynced
  <2>1. PutTags(chain.tags \ {"resync"}) BY <1>10 DEF Resynced
  <2>2. PICK t \in SUBSET Tag : t = chain.tags \ {"resync"} BY <1>3
  <2>3. draft' \in DraftRec /\ due' \in 1 .. MaxDue BY <2>1, <2>2, TagsPut DEF DraftRec
  <2>4. chain' = [chain EXCEPT !.pc = "reread", !.tags = t] BY <1>10, <2>2 DEF Resynced
  <2>5. chain' \in ChainRec /\ chain'.pc = "reread" BY <1>2, <1>5, <2>2, <2>4 DEF ChainRec
  <2> QED BY <1>0, <1>4, <2>3, <2>5, PassTypes
<1> QED BY <1>6, <1>7, <1>8, <1>9, <1>10

LEMMA HoldTypes ==
  ASSUME TypeInv, Running, NEW tag \in Hold, HoldFor(tag)
  PROVE  /\ draft' \in DraftRec /\ due' \in 0 .. MaxDue /\ chain' \in ChainRec /\ chain'.pc = "end"
         /\ chain'.pass = chain.pass /\ chain'.pending = chain.pending
         /\ chain'.price = chain.price /\ chain'.tags = chain.tags
         /\ draft'.price = draft.price /\ draft'.item = draft.item
         /\ draft'.tags = (IF tag \in chain.tags THEN draft.tags ELSE chain.tags \cup {tag})
         /\ tag \notin chain.tags => due' > 0
         /\ due' >= due /\ due' <= due + 1
<1>1. Goto("end") /\ "end" \in ChainPc BY DEF HoldFor, ChainPc, AfterPc
<1>2. chain \in ChainRec BY PassRec
<1>3. PICK t \in SUBSET Tag : t = chain.tags \cup {tag} BY <1>2 DEF ChainRec, Tag
<1>4. draft \in DraftRec /\ due \in 0 .. MaxDue /\ MaxDue \in Nat
  BY RepairAssumption DEF TypeInv, DraftRec
<1>5. /\ chain' \in ChainRec /\ chain'.pc = "end"
      /\ chain'.tags = chain.tags /\ chain'.price = chain.price
      /\ chain'.pass = chain.pass /\ chain'.pending = chain.pending
  BY <1>1, Goes
<1>6. CASE tag \in chain.tags
  BY <1>4, <1>5, <1>6 DEF HoldFor
<1>7. CASE tag \notin chain.tags
  <2>1. PutTags(t) BY <1>3, <1>7 DEF HoldFor
  <2>2. /\ draft' \in DraftRec /\ draft'.tags = t /\ draft'.price = draft.price /\ draft'.item = draft.item
        /\ due' \in 1 .. MaxDue /\ due' >= due /\ due' <= due + 1
    BY <2>1, TagsPut DEF DraftRec
  <2> QED BY <1>3, <1>4, <1>5, <1>7, <2>2
<1> QED BY <1>6, <1>7

LEMMA GateTypes == TypeInv /\ (Gate \/ Unhold) => TypeInv'
<1> SUFFICES ASSUME TypeInv, Gate \/ Unhold PROVE TypeInv' OBVIOUS
<1> USE DEF Asks
<1>0. draft \in DraftRec /\ due \in 0 .. MaxDue /\ MaxDue \in Nat /\ events \in Nat
  BY RepairAssumption DEF TypeInv, DraftRec
<1>1. Running BY DEF Gate, Unhold, Running
<1>2. chain \in ChainRec BY <1>1, PassRec
<1>4. UNCHANGED <<case, known, fields, req, links, calls, serials, ghosts, events>>
  BY DEF Gate, Unhold
<1>5. {"unhold", "mailReceived"} \subseteq ChainPc BY DEF ChainPc, GatePc
<1>6. CASE Gate
  <2>1. CASE \E tag \in Hold : HoldFor(tag)
    <3>1. PICK tag \in Hold : HoldFor(tag) BY <2>1
    <3>2. draft' \in DraftRec /\ due' \in 0 .. MaxDue /\ chain' \in ChainRec /\ chain'.pc = "end"
      BY <1>1, <3>1, HoldTypes
    <3> QED BY <1>0, <1>4, <3>2, PassTypes
  <2>2. CASE (UNCHANGED <<draft, due>> \/ CopySpecs) /\ (Goto("unhold") \/ Goto("mailReceived"))
    <3>1. draft' \in DraftRec /\ due' \in 0 .. MaxDue BY <1>0, <1>1, <2>2, CopyTypes
    <3>2. chain' \in ChainRec /\ chain'.pc \in {"unhold", "mailReceived"}
      BY <1>1, <1>5, <2>2, Goes
    <3> QED BY <1>0, <1>4, <3>1, <3>2, PassTypes
  <2> QED BY <1>6, <2>1, <2>2 DEF Gate, Hold
<1>7. CASE Unhold
  <2>1. PICK t \in SUBSET Tag : t = chain.tags \ {"missing-order-ref"} BY <1>2 DEF ChainRec
  <2>2. PutTags(t) /\ chain' = [chain EXCEPT !.pc = "mailReceived", !.tags = t]
    BY <1>7, <2>1 DEF Unhold
  <2>3. draft' \in DraftRec /\ due' \in 1 .. MaxDue BY <2>1, <2>2, TagsPut DEF DraftRec
  <2>4. chain' \in ChainRec /\ chain'.pc = "mailReceived" BY <1>2, <1>5, <2>1, <2>2 DEF ChainRec
  <2> QED BY <1>0, <1>4, <2>3, <2>4, PassTypes
<1> QED BY <1>6, <1>7

\* A mail: nothing but what was told and the step of the pass changes.
LEMMA MailTypes ==
  ASSUME TypeInv, NEW step, step # "idle", NEW next \in ChainPc, NEW mailed \in ToldRec,
         Mails(step, next, mailed),
         next \in Asks => step \in Asks
  PROVE  TypeInv'
<1>1. Running BY DEF Mails, Running
<1>2. /\ chain' \in ChainRec /\ chain'.pc = next /\ chain'.ask = chain.ask
  BY <1>1, Goes DEF Mails
<1>3. next \in Asks => chain'.ask \in Ask BY <1>1, <1>2 DEF TypeInv, Asks, Mails
<1>4. told' \in ToldRec BY DEF Mails
<1> QED BY <1>2, <1>3, <1>4 DEF TypeInv, Mails, ToldRec, Asks, Busy, JobOK

LEMMA MarkTypes ==
  ASSUME TypeInv, NEW step, step # "idle", NEW tag \in Tag, NEW next \in ChainPc \ Asks,
         Marks(step, tag, next)
  PROVE  TypeInv'
<1>1. Running BY DEF Marks, Running
<1>2. /\ chain' \in ChainRec /\ chain'.pc = next BY <1>1, Goes DEF Marks
<1>3. chain \in ChainRec BY <1>1, PassRec
<1>4. PICK t \in SUBSET Tag : t = chain.tags \cup {tag} BY <1>3 DEF ChainRec
<1>5. PutTags(t) BY <1>4 DEF Marks
<1>6. draft' \in DraftRec /\ due' \in 1 .. MaxDue BY <1>5, TagsPut DEF DraftRec
<1>7. /\ UNCHANGED <<case, known, fields, req, links, calls, serials, ghosts, events>>
      /\ due' \in 0 .. MaxDue /\ events \in Nat
  BY <1>6, RepairAssumption DEF Marks, TypeInv
<1>8. chain'.pc \notin {"balance", "mailReady", "markReady"} BY <1>2 DEF Asks
<1> QED BY <1>2, <1>6, <1>7, <1>8, PassTypes

\* A link more.
LEMMA NewLinkTypes ==
  ASSUME TypeInv, NEW kind \in {"estimate", "balance"}, NEW amount \in Nat, NewLink(kind, amount)
  PROVE  /\ links' \subseteq LinkRec /\ IsFiniteSet(links')
         /\ \E l \in LinkRec : l.kind = kind /\ l.amount = amount /\ ~l.paid /\ links' = links \cup {l}
<1>1. links \subseteq LinkRec /\ IsFiniteSet(links) BY DEF TypeInv
<1>2. Cardinality(links) \in Nat BY <1>1, FS_CardinalityType
<1>3. PICK n \in Nat : n = Cardinality(links) + 1 BY <1>2
<1>4. PICK l : l = [n |-> n, kind |-> kind, amount |-> amount, paid |-> FALSE] OBVIOUS
<1>5. l \in LinkRec /\ l.kind = kind /\ l.amount = amount /\ ~l.paid BY <1>3, <1>4 DEF LinkRec
<1>6. links' = links \cup {l} BY <1>3, <1>4 DEF NewLink
<1>7. IsFiniteSet(links \cup {l}) BY <1>1, FS_AddElement
<1> QED BY <1>1, <1>5, <1>6, <1>7

LEMMA MailedTypes ==
  ASSUME TypeInv
  PROVE  /\ [told EXCEPT !.received = @ + 1] \in ToldRec
         /\ [told EXCEPT !.free = @ + 1] \in ToldRec
         /\ [told EXCEPT !.approved = @ + 1] \in ToldRec
         /\ Running => [told EXCEPT !.quote = chain.price] \in ToldRec
<1>1. told \in ToldRec BY DEF TypeInv, ToldRec
<1>2. Running => chain.price \in Money BY PassRec DEF ChainRec
<1> QED BY <1>1, <1>2 DEF ToldRec

LEMMA StepTypes == TypeInv /\ (Received \/ MadeFree \/ Approved) => TypeInv'
<1> SUFFICES ASSUME TypeInv, Received \/ MadeFree \/ Approved PROVE TypeInv' OBVIOUS
<1>1. {"markReceived", "markFree", "markApproved", "end", "recopy"} \subseteq ChainPc \ Asks
  BY DEF ChainPc, GatePc, FreePc, ApprovePc, AfterPc, Asks
<1>2. {"hq-notified", "free-notified", "store-hq-notified"} \subseteq Tag BY DEF Tag
<1>3. CASE Received
  <2>1. CASE Mails("mailReceived", "markReceived", [told EXCEPT !.received = @ + 1])
    BY <1>1, <2>1, MailTypes, MailedTypes
  <2>2. CASE Marks("markReceived", "hq-notified", "end") BY <1>1, <1>2, <2>2, MarkTypes
  <2> QED BY <1>3, <2>1, <2>2 DEF Received
<1>4. CASE MadeFree
  <2>1. CASE Mails("mailFree", "markFree", [told EXCEPT !.free = @ + 1])
    BY <1>1, <2>1, MailTypes, MailedTypes
  <2>2. CASE Marks("markFree", "free-notified", "recopy") BY <1>1, <1>2, <2>2, MarkTypes
  <2> QED BY <1>4, <2>1, <2>2, TidyTypes DEF MadeFree
<1>5. CASE Approved
  <2>1. CASE Mails("mailApproved", "markApproved", [told EXCEPT !.approved = @ + 1])
    BY <1>1, <2>1, MailTypes, MailedTypes
  <2>2. CASE Marks("markApproved", "store-hq-notified", "end") BY <1>1, <1>2, <2>2, MarkTypes
  <2> QED BY <1>5, <2>1, <2>2 DEF Approved
<1> QED BY <1>3, <1>4, <1>5

\* A link is made: links and the step of the pass change.
LEMMA MadeLinkTypes ==
  ASSUME TypeInv, Running, NEW kind \in {"estimate", "balance"}, NEW amount \in Nat, NEW next \in ChainPc,
         NewLink(kind, amount), Goto(next), next \in Asks => chain.pc \in Asks,
         UNCHANGED <<case, draft, known, fields, due, req, calls, serials, ghosts, events>>
  PROVE  TypeInv'
<1>1. /\ chain' \in ChainRec /\ chain'.pc = next /\ chain'.ask = chain.ask BY Goes
<1>2. next \in Asks => chain'.ask \in Ask BY <1>1 DEF TypeInv, Asks
<1>3. links' \subseteq LinkRec /\ IsFiniteSet(links') BY NewLinkTypes
<1> QED BY <1>1, <1>2, <1>3 DEF TypeInv, ghosts, Asks, Busy, JobOK

LEMMA QuotedTypes == TypeInv /\ Quoted => TypeInv'
<1> SUFFICES ASSUME TypeInv, Quoted PROVE TypeInv' OBVIOUS
<1>1. {"mailQuote", "markQuoted", "end"} \subseteq ChainPc \ Asks
  BY DEF ChainPc, QuotePc, AfterPc, Asks
<1>2. CASE MakeLink
  <2>1. Running BY <1>2 DEF MakeLink, Running
  <2>2. PICK amount \in Nat : amount = chain.price
    BY <2>1, PassRec, RepairAssumption DEF ChainRec, Money
  <2> QED BY <1>1, <1>2, <2>1, <2>2, MadeLinkTypes DEF MakeLink
<1>3. CASE Mails("mailQuote", "markQuoted", [told EXCEPT !.quote = chain.price])
  <2>1. Running BY <1>3 DEF Mails, Running
  <2> QED BY <1>1, <1>3, <2>1, MailTypes, MailedTypes
<1>4. CASE Marks("markQuoted", "estimate-sent", "end")
  BY <1>1, <1>4, MarkTypes DEF Tag
<1> QED BY <1>2, <1>3, <1>4 DEF Quoted

\* What a completion comes to.
LEMMA CompletionTypes ==
  ASSUME NEW paid \in Money, NEW final \in Money \cup {None}, NEW price \in Money, NEW free
  PROVE  Completion(paid, final, price, free) \in Ask
<1>1. /\ paid \in Nat /\ price \in Nat /\ (final # None => final \in Nat)
  BY RepairAssumption DEF Money
<1>2. PICK cost : cost = IF final # None THEN final ELSE IF paid > 0 THEN paid ELSE price OBVIOUS
<1>3. cost \in Nat BY <1>1, <1>2
<1>4. Completion(paid, final, price, free) =
        IF free \/ (paid = 0 /\ cost = 0) THEN [mode |-> "free", amount |-> 0]
        ELSE IF paid = 0 THEN [mode |-> "collect", amount |-> cost]
        ELSE IF cost - paid < 0 THEN [mode |-> "refund", amount |-> -(cost - paid)]
        ELSE IF cost - paid > 0 THEN [mode |-> "balance", amount |-> cost - paid]
        ELSE [mode |-> "settled", amount |-> 0]
  BY <1>2 DEF Completion
<1> QED BY <1>1, <1>3, <1>4 DEF Ask, AskMode

LEMMA ReckonTypes ==
  ASSUME TypeInv, Running, NEW paid \in Money, NEW final \in Money \cup {None}, Reckon(paid, final)
  PROVE  /\ chain' \in ChainRec /\ chain'.ask \in Ask
         /\ chain'.ask = Completion(paid, final, chain.price, "free" \in chain.tags)
         /\ chain'.pc = (IF chain'.ask.mode = "balance" THEN "balance" ELSE "mailReady")
         /\ chain'.tags = chain.tags /\ chain'.price = chain.price
         /\ chain'.pass = chain.pass /\ chain'.pending = chain.pending
<1>1. chain \in ChainRec BY PassRec
<1>2. PICK ask : ask = Completion(paid, final, chain.price, "free" \in chain.tags) OBVIOUS
<1>3. ask \in Ask
  <2>1. PICK price \in Money : price = chain.price BY <1>1 DEF ChainRec
  <2>2. Completion(paid, final, price, "free" \in chain.tags) \in Ask BY CompletionTypes
  <2> QED BY <1>2, <2>1, <2>2
<1>4. chain' = [chain EXCEPT !.ask = ask, !.pc = IF ask.mode = "balance" THEN "balance" ELSE "mailReady"]
  BY <1>2 DEF Reckon
<1>5. {"balance", "mailReady"} \subseteq ChainPc BY DEF ChainPc, ReadyPc
<1> QED BY <1>1, <1>2, <1>3, <1>4, <1>5 DEF ChainRec

LEMMA ReadyTypes == TypeInv /\ Ready => TypeInv'
<1> SUFFICES ASSUME TypeInv, Ready PROVE TypeInv' OBVIOUS
<1>1. {"mailReady", "markReady", "serial", "end"} \subseteq ChainPc /\ {"serial", "end"} \cap Asks = {}
  BY DEF ChainPc, ReadyPc, AfterPc, Asks
<1>2. CASE ReadFields
  <2>1. Running /\ Reckon(fields.paid, fields.final) BY <1>2 DEF ReadFields, Running
  <2>2. PICK paid \in Money, final \in Money \cup {None} : paid = fields.paid /\ final = fields.final
    BY DEF TypeInv
  <2>3. chain' \in ChainRec /\ chain'.ask \in Ask BY <2>1, <2>2, ReckonTypes
  <2>4. /\ UNCHANGED <<case, known, fields, req, links, calls, serials, ghosts>>
        /\ draft' \in DraftRec /\ due' \in 0 .. MaxDue /\ events' \in Nat
    BY <1>2 DEF ReadFields, TypeInv, DraftRec
  <2> QED BY <2>3, <2>4, PassTypes
<1>3. CASE MakeBalanceLink
  <2>1. Running BY <1>3 DEF MakeBalanceLink, Running
  <2>2. PICK amount \in Nat : amount = chain.ask.amount
    BY <1>3, <2>1 DEF TypeInv, Ask, MakeBalanceLink
  <2> QED BY <1>1, <1>3, <2>1, <2>2, MadeLinkTypes DEF MakeBalanceLink, Asks
<1>4. CASE Mails("mailReady", "markReady",
             [told EXCEPT !.ready = @ + 1,
                          !.ask = [mode |-> chain.ask.mode, amount |-> chain.ask.amount, got |-> money.got]])
  <2>1. Running BY <1>4 DEF Mails, Running
  <2>2. chain.ask \in Ask BY <1>4, <2>1 DEF Mails, TypeInv
  <2>3. PICK ask : ask = [mode |-> chain.ask.mode, amount |-> chain.ask.amount, got |-> money.got] OBVIOUS
  <2>4. ask \in GotRec BY <2>2, <2>3 DEF Ask, TypeInv, GotRec
  <2>5. told \in ToldRec BY DEF TypeInv, ToldRec
  <2>6. [told EXCEPT !.ready = @ + 1, !.ask = ask] \in ToldRec
    <3>1. PICK n \in Nat : n = told.ready + 1 BY <2>5 DEF ToldRec
    <3>2. ask \in GotRec \cup {None} BY <2>4
    <3>3. [told EXCEPT !.ready = n, !.ask = ask] \in ToldRec BY <2>5, <3>2 DEF ToldRec
    <3> QED BY <3>1, <3>3
  <2>7. Mails("mailReady", "markReady", [told EXCEPT !.ready = @ + 1, !.ask = ask]) BY <1>4, <2>3
  <2> QED BY <1>1, <2>6, <2>7, MailTypes DEF Asks
<1>5. CASE Marks("markReady", "completion-notified", "serial")
  BY <1>1, <1>5, MarkTypes DEF Tag
<1>6. CASE MintService
  <2>1. Running /\ Goto("end") BY <1>6 DEF MintService, Running
  <2>2. chain' \in ChainRec /\ chain'.pc = "end" BY <1>1, <2>1, Goes
  <2>3. serials' \subseteq {"TS", "FS"} BY <1>6 DEF MintService, TypeInv
  <2> QED BY <1>6, <2>2, <2>3 DEF MintService, TypeInv, ghosts, Busy, JobOK
<1> QED BY <1>2, <1>3, <1>4, <1>5, <1>6 DEF Ready

--------------------
(* Requests *)

LEMMA Starts ==
  ASSUME TypeInv, NEW s \in Slot, NEW task \in Job, NEW amount \in Nat \cup {None}, NEW extra \in BOOLEAN,
         Start(s, task, amount, extra)
  PROVE  /\ req' \in [Slot -> {Idle} \cup ReqRec] /\ \A q \in Slot \ {s} : req'[q] = req[q]
         /\ req'[s] \in ReqRec /\ Busy(s)' /\ CanStart(s)
         /\ req'[s].pc = "read" /\ req'[s].job = task /\ req'[s].amount = amount
         /\ req'[s].extra = extra /\ req'[s].tags = {}
<1>1. PICK r : r = [pc |-> "read", job |-> task, amount |-> amount, extra |-> extra,
                    tags |-> {}, price |-> 0, item |-> FALSE]
  OBVIOUS
<1>2. r \in ReqRec BY <1>1 DEF ReqRec, ReqPc, Money
<1>3. req' = [req EXCEPT ![s] = r] /\ CanStart(s) BY <1>1 DEF Start
<1>4. req' \in [Slot -> {Idle} \cup ReqRec] /\ req'[s] = r BY <1>2, <1>3 DEF TypeInv
<1>5. \A q \in Slot \ {s} : req'[q] = req[q] BY <1>3 DEF TypeInv
<1> QED BY <1>1, <1>2, <1>3, <1>4, <1>5 DEF Busy

LEMMA Proceeds ==
  ASSUME TypeInv, NEW s \in Slot, Busy(s), NEW at \in ReqPc, Proceed(s, at)
  PROVE  /\ req' \in [Slot -> {Idle} \cup ReqRec] /\ \A q \in Slot \ {s} : req'[q] = req[q]
         /\ req'[s] \in ReqRec /\ Busy(s)'
         /\ req'[s].pc = at /\ req'[s].job = req[s].job /\ req'[s].amount = req[s].amount
         /\ req'[s].extra = req[s].extra /\ req'[s].tags = req[s].tags
         /\ req'[s].price = req[s].price /\ req'[s].item = req[s].item
<1>1. req[s] \in ReqRec BY RequestRec
<1>2. PICK r : r = [req[s] EXCEPT !.pc = at] OBVIOUS
<1>3. /\ r \in ReqRec /\ r.pc = at /\ r.job = req[s].job /\ r.amount = req[s].amount
      /\ r.extra = req[s].extra /\ r.tags = req[s].tags /\ r.price = req[s].price /\ r.item = req[s].item
  BY <1>1, <1>2 DEF ReqRec
<1>4. req' = [req EXCEPT ![s] = r] BY <1>2 DEF Proceed
<1>5. req' \in [Slot -> {Idle} \cup ReqRec] /\ req'[s] = r BY <1>3, <1>4 DEF TypeInv
<1>6. \A q \in Slot \ {s} : req'[q] = req[q] BY <1>4 DEF TypeInv
<1>7. at # "idle" BY DEF ReqPc
<1> QED BY <1>3, <1>5, <1>6, <1>7 DEF Busy

\* A read: the request ends, or keeps what it read and goes on.
LEMMA Reads ==
  ASSUME TypeInv, NEW s \in Slot, Read(s)
  PROVE  /\ req' \in [Slot -> {Idle} \cup ReqRec] /\ \A q \in Slot \ {s} : req'[q] = req[q]
         /\ Busy(s) /\ req[s] \in ReqRec /\ req[s].pc = "read"
         /\ AfterRead(req[s]) = "idle" => ~Busy(s)'
         /\ AfterRead(req[s]) # "idle" =>
               /\ req'[s] \in ReqRec /\ Busy(s)' /\ req'[s].pc = AfterRead(req[s])
               /\ req'[s].job = req[s].job /\ req'[s].amount = req[s].amount
               /\ req'[s].extra = req[s].extra /\ req'[s].tags = draft.tags
               /\ req'[s].price = draft.price /\ req'[s].item = draft.item
         /\ UNCHANGED <<case, draft, known, fields, due, chain, links, calls, serials, ghosts, events>>
<1>1. Busy(s) /\ req[s].pc = "read"
      /\ UNCHANGED <<case, draft, known, fields, due, chain, links, calls, serials, ghosts, events>>
  BY DEF Read, Busy
<1>2. req[s] \in ReqRec BY <1>1, RequestRec
<1>3. CASE AfterRead(req[s]) = "idle"
  <2>1. Done(s) BY <1>3 DEF Read
  <2> QED BY <1>1, <1>2, <1>3, <2>1, Finishes
<1>4. CASE AfterRead(req[s]) # "idle"
  <2>1. PICK at : at = AfterRead(req[s]) OBVIOUS
  <2>2. at \in {"final", "idle", "delta", "put"} BY <2>1 DEF AfterRead
  <2>3. PICK r : r = [req[s] EXCEPT !.pc = at, !.tags = draft.tags, !.price = draft.price,
                                    !.item = draft.item]
    OBVIOUS
  <2>4. /\ r \in ReqRec /\ r.pc = at /\ r.job = req[s].job /\ r.amount = req[s].amount
        /\ r.extra = req[s].extra /\ r.tags = draft.tags /\ r.price = draft.price /\ r.item = draft.item
    BY <1>2, <1>4, <2>1, <2>2, <2>3 DEF ReqRec, ReqPc, TypeInv, DraftRec
  <2>5. req' = [req EXCEPT ![s] = r]
    <3>1. req' = [req EXCEPT ![s].pc = at, ![s].tags = draft.tags,
                             ![s].price = draft.price, ![s].item = draft.item]
      BY <1>4, <2>1 DEF Read
    <3> QED BY <1>2, <2>3, <3>1 DEF TypeInv, ReqRec
  <2>6. req' \in [Slot -> {Idle} \cup ReqRec] /\ req'[s] = r BY <2>4, <2>5 DEF TypeInv
  <2>7. \A q \in Slot \ {s} : req'[q] = req[q] BY <2>5 DEF TypeInv
  <2> QED BY <1>1, <1>2, <1>4, <2>1, <2>4, <2>6, <2>7 DEF Busy
<1> QED BY <1>3, <1>4

LEMMA NewTagsTypes ==
  ASSUME NEW r \in ReqRec
  PROVE  NewTags(r) \in SUBSET Tag
<1>1. r.tags \in SUBSET Tag /\ r.job \in Job BY DEF ReqRec
<1> QED BY <1>1 DEF NewTags, Job, Class, Tag

\* A request's own step: its slot alone changes.
LEMMA SlotTypes ==
  ASSUME TypeInv, NEW s \in Slot,
         req' \in [Slot -> {Idle} \cup ReqRec], \A q \in Slot \ {s} : req'[q] = req[q],
         Busy(s)' => JobOK(req'[s])
  PROVE  (\A q \in Slot : Busy(q) => JobOK(req[q]))'
<1> SUFFICES ASSUME NEW q \in Slot, Busy(q)' PROVE JobOK(req'[q])
  BY DEF JobOK
<1>1. CASE q = s BY <1>1
<1>2. CASE q # s
  <2>1. req'[q] = req[q] BY <1>2
  <2>2. Busy(q) BY <2>1 DEF Busy
  <2> QED BY <2>1, <2>2 DEF TypeInv
<1> QED BY <1>1, <1>2

LEMMA ReadTypes == \A s \in Slot : TypeInv /\ Read(s) => TypeInv'
<1> SUFFICES ASSUME NEW s \in Slot, TypeInv, Read(s) PROVE TypeInv' OBVIOUS
<1>1. /\ req' \in [Slot -> {Idle} \cup ReqRec] /\ \A q \in Slot \ {s} : req'[q] = req[q]
      /\ UNCHANGED <<case, draft, known, fields, due, chain, links, calls, serials, ghosts, events>>
  BY Reads
<1>2. Busy(s)' => JobOK(req'[s])
  <2> SUFFICES ASSUME Busy(s)' PROVE JobOK(req'[s]) OBVIOUS
  <2>1. JobOK(req[s]) /\ req[s].job \in Job BY Reads, RequestRec DEF ReqRec
  <2>2. /\ req'[s].pc = AfterRead(req[s]) /\ req'[s].job = req[s].job /\ req'[s].amount = req[s].amount
        /\ AfterRead(req[s]) # "idle"
    BY Reads
  <2>3. /\ req'[s].pc \in {"final", "delta", "put"}
        /\ req'[s].pc = "final" => req[s].job = "complete"
        /\ req'[s].pc = "delta" => req[s].job = "refund"
    BY <2>2 DEF AfterRead
  <2> QED BY <2>1, <2>2, <2>3 DEF JobOK
<1>3. (\A q \in Slot : Busy(q) => JobOK(req[q]))' BY <1>1, <1>2, SlotTypes
<1> QED BY <1>1, <1>3 DEF TypeInv, ghosts, Running

LEMMA WriteFinalTypes == \A s \in Slot : TypeInv /\ WriteFinal(s) => TypeInv'
<1> SUFFICES ASSUME NEW s \in Slot, TypeInv, WriteFinal(s) PROVE TypeInv' OBVIOUS
<1>1. Busy(s) /\ req[s].pc = "final" BY DEF WriteFinal, Busy
<1>2. JobOK(req[s]) BY <1>1, RequestRec
<1>3. PICK at \in {"specs", "put"} : Proceed(s, at) /\ (at = "specs" => req[s].extra) BY DEF WriteFinal
<1>4. at \in ReqPc BY DEF ReqPc
<1>5. /\ req' \in [Slot -> {Idle} \cup ReqRec] /\ \A q \in Slot \ {s} : req'[q] = req[q]
      /\ req'[s].pc = at /\ req'[s].job = req[s].job /\ req'[s].amount = req[s].amount
      /\ req'[s].extra = req[s].extra
  BY <1>1, <1>3, <1>4, Proceeds
<1>6. JobOK(req'[s]) BY <1>1, <1>2, <1>3, <1>5 DEF JobOK
<1>7. (\A q \in Slot : Busy(q) => JobOK(req[q]))' BY <1>5, <1>6, SlotTypes
<1>8. fields' \in [paid : Money, final : Money \cup {None}]
  <2>1. req[s].amount \in Money \cup {None} BY <1>1, <1>2 DEF JobOK
  <2>2. PICK a \in Money \cup {None} : a = req[s].amount BY <2>1
  <2>3. fields' = IF a = None THEN fields ELSE [fields EXCEPT !.final = a] BY <2>2 DEF WriteFinal
  <2> QED BY <2>3 DEF TypeInv
<1> QED BY <1>5, <1>7, <1>8 DEF TypeInv, WriteFinal, ghosts, Running

LEMMA WriteSpecsTypes == \A s \in Slot : TypeInv /\ WriteSpecs(s) => TypeInv'
<1> SUFFICES ASSUME NEW s \in Slot, TypeInv, WriteSpecs(s) PROVE TypeInv' OBVIOUS
<1>1. Busy(s) /\ req[s].pc = "specs" BY DEF WriteSpecs, Busy
<1>2. JobOK(req[s]) /\ req[s] \in ReqRec BY <1>1, RequestRec
<1>3. Proceed(s, "put") /\ "put" \in ReqPc BY DEF WriteSpecs, ReqPc
<1>5. /\ req' \in [Slot -> {Idle} \cup ReqRec] /\ \A q \in Slot \ {s} : req'[q] = req[q]
      /\ req'[s].pc = "put" /\ req'[s].job = req[s].job /\ req'[s].amount = req[s].amount
  BY <1>1, <1>3, Proceeds
<1>6. JobOK(req'[s]) BY <1>1, <1>2, <1>5 DEF JobOK
<1>7. (\A q \in Slot : Busy(q) => JobOK(req[q]))' BY <1>5, <1>6, SlotTypes
<1>8. PICK p \in Money, i \in BOOLEAN : p = req[s].price /\ i = req[s].item BY <1>2 DEF ReqRec
<1>9. PutLine(p, i) BY <1>8 DEF WriteSpecs
<1>10. draft' \in DraftRec /\ due' \in 0 .. MaxDue BY <1>9, LinePut, RepairAssumption
<1> QED BY <1>5, <1>7, <1>10 DEF TypeInv, WriteSpecs, ghosts, Running

LEMMA ReadDeltaTypes == \A s \in Slot : TypeInv /\ ReadDelta(s) => TypeInv'
<1> SUFFICES ASSUME NEW s \in Slot, TypeInv, ReadDelta(s) PROVE TypeInv' OBVIOUS
<1>1. Busy(s) /\ req[s].pc = "delta" BY DEF ReadDelta, Busy
<1>2. JobOK(req[s]) /\ req[s] \in ReqRec BY <1>1, RequestRec
<1>3. PICK delta : delta = fields.paid - (IF fields.final = None THEN 0 ELSE fields.final) OBVIOUS
<1>4. CASE ~(delta > 0)
  <2>1. Done(s) BY <1>3, <1>4 DEF ReadDelta
  <2>2. /\ req' \in [Slot -> {Idle} \cup ReqRec] /\ \A q \in Slot \ {s} : req'[q] = req[q]
        /\ ~Busy(s)'
    BY <2>1, Finishes
  <2>3. (\A q \in Slot : Busy(q) => JobOK(req[q]))' BY <2>2, SlotTypes
  <2> QED BY <2>2, <2>3 DEF TypeInv, ReadDelta, ghosts, Running
<1>5. CASE delta > 0
  <2>1. delta \in Nat
    <3>1. fields.paid \in Nat /\ (fields.final = None \/ fields.final \in Nat)
      BY MoneyIsNat DEF TypeInv
    <3> QED BY <1>3, <1>5, <3>1
  <2>2. PICK r : r = [req[s] EXCEPT !.pc = "voucher", !.amount = delta] OBVIOUS
  <2>3. r \in ReqRec /\ JobOK(r) BY <1>1, <1>2, <2>1, <2>2 DEF ReqRec, ReqPc, JobOK
  <2>4. req' = [req EXCEPT ![s] = r]
    <3>1. req' = [req EXCEPT ![s].pc = "voucher", ![s].amount = delta] BY <1>3, <1>5 DEF ReadDelta
    <3> QED BY <1>2, <2>2, <3>1 DEF TypeInv, ReqRec
  <2>5. /\ req' \in [Slot -> {Idle} \cup ReqRec] /\ \A q \in Slot \ {s} : req'[q] = req[q]
        /\ req'[s] = r
    BY <2>3, <2>4 DEF TypeInv
  <2>6. (\A q \in Slot : Busy(q) => JobOK(req[q]))' BY <2>3, <2>5, SlotTypes
  <2> QED BY <2>5, <2>6 DEF TypeInv, ReadDelta, ghosts, Running
<1> QED BY <1>4, <1>5

\* What the voucher adds to the money.
Vouched(s) == money' = [money EXCEPT !.back = @ + req[s].amount, !.vouchers = @ + 1]

LEMMA VoucherIs ==
  ASSUME TypeInv, NEW s \in Slot, Busy(s), req[s].pc = "voucher", Vouched(s)
  PROVE  /\ money' \in [got : Nat, back : Nat, vouchers : Nat]
         /\ req[s].amount \in Nat /\ req[s].job = "refund"
         /\ money'.got = money.got /\ money'.back = money.back + req[s].amount
         /\ money'.vouchers = money.vouchers + 1
<1>1. req[s].amount \in Nat /\ req[s].job = "refund" BY RequestRec DEF JobOK
<1>2. PICK a \in Nat : a = req[s].amount BY <1>1
<1>3. money \in [got : Nat, back : Nat, vouchers : Nat] BY DEF TypeInv
<1>4. PICK b \in Nat, v \in Nat : b = money.back + a /\ v = money.vouchers + 1 BY <1>3
<1>5. money' = [money EXCEPT !.back = b, !.vouchers = v] BY <1>2, <1>4 DEF Vouched
<1>6. /\ money' \in [got : Nat, back : Nat, vouchers : Nat] /\ money'.got = money.got
      /\ money'.back = b /\ money'.vouchers = v
  BY <1>3, <1>5
<1> QED BY <1>1, <1>2, <1>4, <1>6

LEMMA IssueVoucherTypes == \A s \in Slot : TypeInv /\ IssueVoucher(s) => TypeInv'
<1> SUFFICES ASSUME NEW s \in Slot, TypeInv, IssueVoucher(s) PROVE TypeInv' OBVIOUS
<1>1. Busy(s) /\ req[s].pc = "voucher" BY DEF IssueVoucher, Busy
<1>2. JobOK(req[s]) BY <1>1, RequestRec
<1>3. Proceed(s, "put") /\ "put" \in ReqPc BY DEF IssueVoucher, ReqPc
<1>5. /\ req' \in [Slot -> {Idle} \cup ReqRec] /\ \A q \in Slot \ {s} : req'[q] = req[q]
      /\ req'[s].pc = "put" /\ req'[s].job = req[s].job /\ req'[s].amount = req[s].amount
  BY <1>1, <1>3, Proceeds
<1>6. JobOK(req'[s]) BY <1>1, <1>2, <1>5 DEF JobOK
<1>7. (\A q \in Slot : Busy(q) => JobOK(req[q]))' BY <1>5, <1>6, SlotTypes
<1>8. money' \in [got : Nat, back : Nat, vouchers : Nat]
  <2>1. Vouched(s) BY DEF IssueVoucher, Vouched
  <2> QED BY <1>1, <2>1, VoucherIs
<1> QED BY <1>5, <1>7, <1>8 DEF TypeInv, IssueVoucher, Running

\* The write of a request: tags, and a price of its own if it sets one.
LEMMA Puts ==
  ASSUME TypeInv, NEW s \in Slot, Put(s)
  PROVE  /\ Busy(s) /\ req[s] \in ReqRec /\ req[s].pc = "put"
         /\ draft' \in DraftRec /\ draft'.tags = NewTags(req[s])
         /\ draft'.price = (IF req[s].job = "estimate" THEN req[s].amount
                            ELSE IF req[s].job \in Class THEN req[s].price ELSE draft.price)
         /\ draft'.item = (IF req[s].job = "estimate" THEN req[s].item
                           ELSE draft.item \/ req[s].job \in Class)
         /\ wanted' = (IF req[s].job = "estimate" THEN req[s].amount ELSE wanted)
         /\ wanted' \in Money \cup {None}
         /\ due' \in 1 .. MaxDue /\ due' >= due /\ due' <= due + 1
         /\ req' \in [Slot -> {Idle} \cup ReqRec] /\ \A q \in Slot \ {s} : req'[q] = req[q]
         /\ req[s].job = "pay" =>
               /\ req'[s] \in ReqRec /\ Busy(s)' /\ req'[s].pc = "paid" /\ req'[s].job = "pay"
               /\ req'[s].price = req[s].price
         /\ req[s].job # "pay" => ~Busy(s)'
         /\ UNCHANGED <<case, known, fields, chain, links, calls, told, money, serials, events>>
<1>1. Busy(s) /\ req[s].pc = "put"
      /\ UNCHANGED <<case, known, fields, chain, links, calls, told, money, serials, events>>
  BY DEF Put, Busy
<1>2. req[s] \in ReqRec /\ JobOK(req[s]) BY <1>1, RequestRec
<1>3. PICK r : r = req[s] OBVIOUS
<1>4. PICK price : price = IF r.job = "estimate" THEN r.amount ELSE IF r.job \in Class THEN r.price ELSE draft.price
  OBVIOUS
<1>5. PICK item : item = IF r.job = "estimate" THEN r.item ELSE draft.item \/ r.job \in Class OBVIOUS
<1>6. draft' = [tags |-> NewTags(r), price |-> price, item |-> item]
  BY <1>3, <1>4, <1>5 DEF Put
<1>7. NewTags(r) \in SUBSET Tag BY <1>2, <1>3, NewTagsTypes
<1>8. price \in Money BY <1>2, <1>3, <1>4 DEF JobOK, TypeInv, DraftRec, ReqRec
<1>9. item \in BOOLEAN BY <1>2, <1>3, <1>5 DEF TypeInv, DraftRec, ReqRec
<1>10. draft' \in DraftRec /\ draft'.tags = NewTags(r) /\ draft'.price = price /\ draft'.item = item
  BY <1>6, <1>7, <1>8, <1>9 DEF DraftRec
<1>11. wanted' = (IF r.job = "estimate" THEN r.amount ELSE wanted) BY <1>3 DEF Put
<1>12. wanted' \in Money \cup {None} BY <1>2, <1>3, <1>11 DEF JobOK, TypeInv
<1>13. due' \in 1 .. MaxDue /\ due' >= due /\ due' <= due + 1 BY Tells DEF Put
<1>14. CASE r.job = "pay"
  <2>1. Proceed(s, "paid") /\ "paid" \in ReqPc BY <1>3, <1>14 DEF Put, ReqPc
  <2>2. /\ req' \in [Slot -> {Idle} \cup ReqRec] /\ \A q \in Slot \ {s} : req'[q] = req[q]
        /\ req'[s] \in ReqRec /\ Busy(s)' /\ req'[s].pc = "paid" /\ req'[s].job = "pay"
        /\ req'[s].price = req[s].price
    BY <1>1, <1>3, <1>14, <2>1, Proceeds
  <2> QED BY <1>1, <1>2, <1>3, <1>4, <1>5, <1>10, <1>11, <1>12, <1>13, <1>14, <2>2
<1>15. CASE r.job # "pay"
  <2>1. Done(s) BY <1>3, <1>15 DEF Put
  <2> QED BY <1>1, <1>2, <1>3, <1>4, <1>5, <1>10, <1>11, <1>12, <1>13, <1>15, <2>1, Finishes
<1> QED BY <1>14, <1>15

LEMMA PutTypes == \A s \in Slot : TypeInv /\ Put(s) => TypeInv'
<1> SUFFICES ASSUME NEW s \in Slot, TypeInv, Put(s) PROVE TypeInv' OBVIOUS
<1>1. /\ req' \in [Slot -> {Idle} \cup ReqRec] /\ \A q \in Slot \ {s} : req'[q] = req[q]
      /\ draft' \in DraftRec /\ wanted' \in Money \cup {None} /\ due' \in 1 .. MaxDue
      /\ UNCHANGED <<case, known, fields, chain, links, calls, told, money, serials, events>>
  BY Puts
<1>2. Busy(s)' => JobOK(req'[s])
  <2>1. Busy(s)' => req'[s].pc = "paid" /\ req'[s].job = "pay" BY Puts
  <2> QED BY <2>1 DEF JobOK
<1>3. (\A q \in Slot : Busy(q) => JobOK(req[q]))' BY <1>1, <1>2, SlotTypes
<1>4. due' \in 0 .. MaxDue BY <1>1, RepairAssumption
<1> QED BY <1>1, <1>3, <1>4 DEF TypeInv, Running

LEMMA WritePaidTypes == \A s \in Slot : TypeInv /\ WritePaid(s) => TypeInv'
<1> SUFFICES ASSUME NEW s \in Slot, TypeInv, WritePaid(s) PROVE TypeInv' OBVIOUS
<1>1. Busy(s) /\ Done(s) BY DEF WritePaid, Busy
<1>2. /\ req' \in [Slot -> {Idle} \cup ReqRec] /\ \A q \in Slot \ {s} : req'[q] = req[q]
      /\ ~Busy(s)'
  BY <1>1, Finishes
<1>3. (\A q \in Slot : Busy(q) => JobOK(req[q]))' BY <1>2, SlotTypes
<1>4. PICK p \in Money : p = req[s].price BY <1>1, RequestRec DEF ReqRec
<1>5. fields' = [fields EXCEPT !.paid = p] BY <1>4 DEF WritePaid
<1>6. fields' \in [paid : Money, final : Money \cup {None}] BY <1>5 DEF TypeInv
<1> QED BY <1>2, <1>3, <1>6 DEF TypeInv, WritePaid, ghosts, Running

LEMMA StaffTypes ==
  TypeInv /\ (FillReference \/ \E tag \in Class \cup {"outside", "resync"} : StaffTag(tag)) => TypeInv'
<1> SUFFICES ASSUME TypeInv,
                    FillReference \/ \E tag \in Class \cup {"outside", "resync"} : StaffTag(tag)
             PROVE  TypeInv'
  OBVIOUS
<1>1. CASE FillReference
  <2>1. due' \in 1 .. MaxDue BY <1>1, Tells DEF FillReference
  <2>2. due' \in 0 .. MaxDue /\ events' \in Nat BY <1>1, <2>1, RepairAssumption DEF FillReference, Happens, TypeInv
  <2> QED BY <1>1, <2>2 DEF FillReference, TypeInv, ghosts, Running, Busy, JobOK
<1>2. ASSUME NEW tag \in Class \cup {"outside", "resync"}, StaffTag(tag) PROVE TypeInv'
  <2>1. PICK t \in SUBSET Tag : t = draft.tags \cup {tag} BY DEF TypeInv, DraftRec, Tag, Class
  <2>2. PutTags(t) BY <1>2, <2>1 DEF StaffTag
  <2>3. draft' \in DraftRec /\ due' \in 0 .. MaxDue BY <2>2, TagsPut, RepairAssumption
  <2>4. events' \in Nat BY <1>2 DEF StaffTag, Happens, TypeInv
  <2> QED BY <1>2, <2>3, <2>4 DEF StaffTag, TypeInv, ghosts, Running, Busy, JobOK
<1> QED BY <1>1, <1>2

\* A request that starts.
LEMMA StartTypes ==
  ASSUME TypeInv, NEW s \in Slot, NEW task \in Job, NEW amount \in Nat \cup {None}, NEW extra \in BOOLEAN,
         Start(s, task, amount, extra),
         task = "estimate" => amount \in Money,
         task = "complete" => amount \in Money \cup {None},
         events' \in Nat, calls' \subseteq Nat
  PROVE  TypeInv'
<1>1. /\ req' \in [Slot -> {Idle} \cup ReqRec] /\ \A q \in Slot \ {s} : req'[q] = req[q]
      /\ req'[s].pc = "read" /\ req'[s].job = task /\ req'[s].amount = amount
  BY Starts
<1>2. JobOK(req'[s]) BY <1>1 DEF JobOK
<1>3. (\A q \in Slot : Busy(q) => JobOK(req[q]))' BY <1>1, <1>2, SlotTypes
<1>4. UNCHANGED <<case, draft, known, fields, due, chain, links, serials, ghosts>> BY DEF Start
<1> QED BY <1>1, <1>3, <1>4 DEF TypeInv, ghosts, Running

Posts(s) ==
    \/ \E a \in Amount \cup {0} : PostEstimate(s, a)
    \/ \E f \in Amount \cup {0, None}, specs \in BOOLEAN : PostComplete(s, f, specs)
    \/ PostApprove(s) \/ ClickRefund(s)
    \/ \E class \in Class : PostOutside(s, class)

\* What is posted, with the conditions it was posted under.
LEMMA PostIs ==
  ASSUME TypeInv, NEW s \in Slot, Posts(s)
  PROVE  \E task \in Job, amount \in Nat \cup {None}, extra \in BOOLEAN :
            /\ Post(s, task, amount, extra)
            /\ task # "pay"
            /\ task = "estimate" => \E a \in Amount \cup {0} : amount = a /\ PostEstimate(s, a)
            /\ task = "complete" => \E f \in Amount \cup {0, None}, specs \in BOOLEAN :
                                      amount = f /\ extra = specs /\ PostComplete(s, f, specs)
            /\ task = "approve" => PostApprove(s)
            /\ task = "refund" => ClickRefund(s)
            /\ task \in Class => PostOutside(s, task)
<1>0. Money = Amount \cup {0} BY DEF Money
<1>j. {"estimate", "complete", "approve", "refund"} \subseteq Job /\ Class \subseteq Job
      /\ \A c \in Class : c \notin {"estimate", "complete", "approve", "refund", "pay"}
  BY DEF Job, Class
<1>1. ASSUME NEW a \in Amount \cup {0}, PostEstimate(s, a)
      PROVE  Post(s, "estimate", a, FALSE) /\ a \in Nat \cup {None}
  BY <1>0, <1>1, MoneyIsNat DEF PostEstimate
<1>2. ASSUME NEW f \in Amount \cup {0, None}, NEW specs \in BOOLEAN, PostComplete(s, f, specs)
      PROVE  Post(s, "complete", f, specs) /\ f \in Nat \cup {None}
  BY <1>0, <1>2, MoneyIsNat DEF PostComplete
<1>3. PostApprove(s) => Post(s, "approve", 0, FALSE) BY DEF PostApprove
<1>4. ClickRefund(s) => Post(s, "refund", 0, FALSE) BY DEF ClickRefund
<1>5. \A class \in Class : PostOutside(s, class) => Post(s, class, 0, FALSE) BY DEF PostOutside
<1>6. CASE \E a \in Amount \cup {0} : PostEstimate(s, a)
  <2>1. PICK a \in Amount \cup {0} : PostEstimate(s, a) BY <1>6
  <2>2. Post(s, "estimate", a, FALSE) /\ a \in Nat \cup {None} BY <1>1, <2>1
  <2>3. "estimate" \in Job /\ "estimate" \notin Class BY <1>j DEF Class
  <2> QED BY <2>1, <2>2, <2>3
<1>7. CASE \E f \in Amount \cup {0, None}, specs \in BOOLEAN : PostComplete(s, f, specs)
  <2>1. PICK f \in Amount \cup {0, None}, specs \in BOOLEAN : PostComplete(s, f, specs) BY <1>7
  <2>2. Post(s, "complete", f, specs) /\ f \in Nat \cup {None} BY <1>2, <2>1
  <2>3. "complete" \in Job /\ "complete" \notin Class BY <1>j DEF Class
  <2> QED BY <2>1, <2>2, <2>3
<1>8. CASE PostApprove(s)
  <2>1. "approve" \in Job /\ "approve" \notin Class BY <1>j DEF Class
  <2> QED BY <1>3, <1>8, <2>1
<1>9. CASE ClickRefund(s)
  <2>1. "refund" \in Job /\ "refund" \notin Class BY <1>j DEF Class
  <2> QED BY <1>4, <1>9, <2>1
<1>10. CASE \E class \in Class : PostOutside(s, class)
  <2>1. PICK class \in Class : PostOutside(s, class) BY <1>10
  <2>2. class \in Job /\ class \notin {"estimate", "complete", "approve", "refund", "pay"} BY <1>j
  <2>3. Post(s, class, 0, FALSE) BY <1>5, <2>1
  <2> QED BY <2>1, <2>2, <2>3
<1> QED BY <1>6, <1>7, <1>8, <1>9, <1>10 DEF Posts

LEMMA PostTypes == \A s \in Slot : TypeInv /\ Posts(s) => TypeInv'
<1> SUFFICES ASSUME NEW s \in Slot, TypeInv, Posts(s) PROVE TypeInv' OBVIOUS
<1>1. PICK task \in Job, amount \in Nat \cup {None}, extra \in BOOLEAN :
            /\ Post(s, task, amount, extra)
            /\ task = "estimate" => \E a \in Amount \cup {0} : amount = a /\ PostEstimate(s, a)
            /\ task = "complete" => \E f \in Amount \cup {0, None}, specs \in BOOLEAN :
                                      amount = f /\ extra = specs /\ PostComplete(s, f, specs)
  BY PostIs
<1>2. task = "estimate" => amount \in Money BY <1>1 DEF Money
<1>3. task = "complete" => amount \in Money \cup {None} BY <1>1 DEF Money
<1>4. events' \in Nat /\ calls' \subseteq Nat BY <1>1 DEF Post, Happens, TypeInv
<1>5. Start(s, task, amount, extra) BY <1>1 DEF Post
<1> QED BY <1>2, <1>3, <1>4, <1>5, StartTypes

LEMMA NotifiedIs ==
  ASSUME TypeInv, NEW s \in Slot, \E n \in calls : Notified(s, n)
  PROVE  /\ Start(s, "pay", 0, FALSE) /\ calls # {} /\ calls' \subseteq calls
         /\ Settled \/ Allowed("overlap")
         /\ events' \in Nat
         /\ Allowed("again") \/ \E n \in calls : calls' = calls \ {n}
<1>1. PICK n \in calls : Notified(s, n) OBVIOUS
<1>2. /\ Start(s, "pay", 0, FALSE) /\ (Settled \/ Allowed("overlap"))
      /\ \/ calls' = calls \ {n} /\ events' = events
         \/ Allowed("again") /\ events' = events - 1 /\ events > 0 /\ calls' = calls
  BY <1>1 DEF Notified, Happens
<1>3. events' \in Nat BY <1>2 DEF TypeInv
<1> QED BY <1>1, <1>2, <1>3

LEMMA NotifiedTypes == \A s \in Slot : TypeInv /\ (\E n \in calls : Notified(s, n)) => TypeInv'
<1> SUFFICES ASSUME NEW s \in Slot, TypeInv, \E n \in calls : Notified(s, n) PROVE TypeInv' OBVIOUS
<1>1. Start(s, "pay", 0, FALSE) /\ calls' \subseteq calls /\ events' \in Nat BY NotifiedIs
<1>2. calls' \subseteq Nat BY <1>1 DEF TypeInv
<1>3. "pay" \in Job BY DEF Job
<1> QED BY <1>1, <1>2, <1>3, StartTypes

\* A link that is paid.
LEMMA PayIs ==
  ASSUME TypeInv, NEW l \in links, PayLink(l)
  PROVE  /\ l \in LinkRec /\ ~l.paid /\ l.amount > 0
         /\ \E k \in LinkRec : /\ k.n = l.n /\ k.kind = l.kind /\ k.amount = l.amount /\ k.paid
                               /\ links' = (links \ {l}) \cup {k}
         /\ calls' = calls \cup {l.n}
         /\ money' \in [got : Nat, back : Nat, vouchers : Nat]
         /\ money'.got = money.got + l.amount /\ money'.back = money.back
         /\ money'.vouchers = money.vouchers
         /\ Prompt /\ events' \in Nat
         /\ UNCHANGED <<case, draft, known, fields, due, chain, req, told, serials, wanted>>
<1>1. l \in LinkRec BY DEF TypeInv
<1>2. PICK k : k = [l EXCEPT !.paid = TRUE] OBVIOUS
<1>3. k \in LinkRec /\ k.n = l.n /\ k.kind = l.kind /\ k.amount = l.amount /\ k.paid
  BY <1>1, <1>2 DEF LinkRec
<1>4. links' = (links \ {l}) \cup {k} BY <1>2 DEF PayLink
<1>5. PICK g \in Nat : g = money.got + l.amount BY <1>1 DEF LinkRec, TypeInv
<1>6. money' = [money EXCEPT !.got = g] BY <1>5 DEF PayLink
<1>7. /\ money' \in [got : Nat, back : Nat, vouchers : Nat]
      /\ money'.got = g /\ money'.back = money.back /\ money'.vouchers = money.vouchers
  BY <1>6 DEF TypeInv
<1> QED BY <1>1, <1>3, <1>4, <1>5, <1>7 DEF PayLink, Happens, TypeInv

LEMMA PayTypes == TypeInv /\ (\E l \in links : PayLink(l)) => TypeInv'
<1> SUFFICES ASSUME TypeInv, NEW l \in links, PayLink(l) PROVE TypeInv' OBVIOUS
<1>1. PICK k \in LinkRec : links' = (links \ {l}) \cup {k} BY PayIs
<1>2. links \subseteq LinkRec /\ IsFiniteSet(links) BY DEF TypeInv
<1>3. IsFiniteSet(links \ {l}) BY <1>2, FS_RemoveElement
<1>a. IsFiniteSet((links \ {l}) \cup {k}) BY <1>3, FS_AddElement
<1>4. IsFiniteSet(links') /\ links' \subseteq LinkRec BY <1>1, <1>2, <1>a
<1>b. l \in LinkRec /\ calls' = calls \cup {l.n} BY PayIs
<1>c. calls \subseteq Nat BY DEF TypeInv
<1>5. calls' \subseteq Nat BY <1>b, <1>c DEF LinkRec
<1>6. /\ money' \in [got : Nat, back : Nat, vouchers : Nat] /\ events' \in Nat
      /\ UNCHANGED <<case, draft, known, fields, due, chain, req, told, serials, wanted>>
  BY PayIs
<1> QED BY <1>4, <1>5, <1>6 DEF TypeInv, Running, Busy, JobOK

--------------------
(* Failures *)

\* The pass ends, or goes on to a later step; what it holds stays.
LEMMA PassFailsIs ==
  ASSUME TypeInv, PassFails
  PROVE  /\ UNCHANGED <<case, draft, known, fields, due, req, links, calls, serials, ghosts>>
         /\ Running /\ Allowed("fault") /\ events' \in Nat
         /\ \/ chain' = Idle
            \/ /\ chain' \in ChainRec /\ Running'
               /\ chain'.tags = chain.tags /\ chain'.price = chain.price /\ chain'.item = chain.item
               /\ chain'.pass = chain.pass /\ chain'.pending = chain.pending
               /\ chain'.pc \in Asks => chain'.ask \in Ask
               /\ chain'.pc # "balance"
               /\ chain'.pc \in QuotePc => chain'.pc = "link" /\ QuoteDue(chain.tags)
<1>1. /\ UNCHANGED <<case, draft, known, fields, due, req, links, calls, serials, ghosts>>
      /\ Running /\ Allowed("fault") /\ events' \in Nat
  BY DEF PassFails, Happens, TypeInv
<1>2. chain \in ChainRec /\ chain.tags \in SUBSET Tag BY <1>1, PassRec DEF ChainRec
<1>3. /\ Onward(chain.tags) \in ChainPc /\ Onward(chain.tags) \notin Asks
      /\ Onward(chain.tags) \in QuotePc => Onward(chain.tags) = "link" /\ QuoteDue(chain.tags)
  <2>1. Onward(chain.tags) \in {"resync", "gate", "mailFree", "mailApproved", "link", "fields", "end"}
        /\ Onward(chain.tags) \in ChainPc
    BY <1>2, OnwardPc
  <2>2. Onward(chain.tags) = "link" => QuoteDue(chain.tags) BY DEF Onward, Trigger, QuoteDue
  <2> QED BY <2>1, <2>2 DEF Asks, QuotePc
<1>4. /\ ToZero(chain, FALSE) \in ChainPc /\ ToZero(chain, FALSE) \notin Asks
      /\ ToZero(chain, FALSE) \in QuotePc => ToZero(chain, FALSE) = "link" /\ QuoteDue(chain.tags)
  <2>1. ToZero(chain, FALSE) \in {"zero", Onward(chain.tags)} BY DEF ToZero
  <2>2. "zero" \in ChainPc /\ "zero" \notin Asks /\ "zero" \notin QuotePc BY DEF ChainPc, Asks, QuotePc
  <2> QED BY <1>3, <2>1, <2>2
<1>5. {"end", "copy", "resynced", "markReceived", "markFree", "markApproved"} \subseteq ChainPc
      /\ {"end", "copy", "resynced", "markReceived", "markFree", "markApproved"} \cap (Asks \cup QuotePc) = {}
  BY DEF ChainPc, GatePc, FreePc, ApprovePc, AfterPc, Asks, QuotePc
<1>6. ASSUME NEW at \in ChainPc, Goto(at), at \notin Asks, at \in QuotePc => at = "link" /\ QuoteDue(chain.tags)
      PROVE  /\ chain' \in ChainRec /\ Running' /\ chain'.pc = at
             /\ chain'.tags = chain.tags /\ chain'.price = chain.price /\ chain'.item = chain.item
             /\ chain'.pass = chain.pass /\ chain'.pending = chain.pending
             /\ chain'.pc \in Asks => chain'.ask \in Ask
             /\ chain'.pc # "balance"
             /\ chain'.pc \in QuotePc => chain'.pc = "link" /\ QuoteDue(chain.tags)
  BY <1>1, <1>6, Goes DEF Asks
<1>7. CASE chain.pc = "fetch"
  <2>1. CASE chain' = Idle BY <1>1, <2>1
  <2>2. CASE chain' # Idle
    <3>1. PICK at : at = IF chain.tags = {} THEN "end"
                         ELSE IF ~chain.item /\ "outside" \notin chain.tags THEN "copy"
                         ELSE ToZero(chain, FALSE)
      OBVIOUS
    <3>2. Goto(at) BY <1>7, <2>2, <3>1 DEF PassFails, Goto
    <3>3. at \in {"end", "copy", ToZero(chain, FALSE)} BY <3>1
    <3>4. at \in ChainPc /\ at \notin Asks /\ (at \in QuotePc => at = "link" /\ QuoteDue(chain.tags))
      BY <1>4, <1>5, <3>3
    <3> QED BY <1>1, <1>6, <3>2, <3>4
  <2> QED BY <2>1, <2>2
<1>8. CASE chain.pc = "copy"
  <2>1. Goto(ToZero(chain, FALSE)) BY <1>8 DEF PassFails
  <2>2. PICK at : at = ToZero(chain, FALSE) OBVIOUS
  <2> QED BY <1>1, <1>4, <1>6, <2>1, <2>2
<1>9. CASE chain.pc \in {"zero", "reread"}
  <2>1. Goto(Onward(chain.tags)) BY <1>9 DEF PassFails
  <2>2. PICK at : at = Onward(chain.tags) OBVIOUS
  <2> QED BY <1>1, <1>3, <1>6, <2>1, <2>2
<1>10. CASE chain.pc = "fields"
  <2>1. Reckon(0, None) BY <1>10 DEF PassFails
  <2>2. 0 \in Money BY DEF Money
  <2>3. /\ chain' \in ChainRec /\ chain'.ask \in Ask
        /\ chain'.ask = Completion(0, None, chain.price, "free" \in chain.tags)
        /\ chain'.pc = (IF chain'.ask.mode = "balance" THEN "balance" ELSE "mailReady")
        /\ chain'.tags = chain.tags /\ chain'.price = chain.price
        /\ chain'.pass = chain.pass /\ chain'.pending = chain.pending
    BY <1>1, <2>1, <2>2, ReckonTypes
  <2>4. chain'.ask.mode # "balance" BY <2>3 DEF Completion
  <2>5. Running' /\ chain'.pc = "mailReady" BY <2>3, <2>4 DEF Running
  <2>6. PICK ask : ask = Completion(0, None, chain.price, "free" \in chain.tags) OBVIOUS
  <2>7. chain' = [chain EXCEPT !.ask = ask, !.pc = IF ask.mode = "balance" THEN "balance" ELSE "mailReady"]
    BY <2>1, <2>6 DEF Reckon
  <2>8. chain'.item = chain.item BY <1>2, <2>7 DEF ChainRec
  <2> QED BY <1>1, <2>3, <2>5, <2>8 DEF QuotePc
<1>11. CASE chain.pc = "balance"
  <2>1. Goto("mailReady") /\ "mailReady" \in ChainPc BY <1>11 DEF PassFails, ChainPc, ReadyPc
  <2>2. chain.ask \in Ask BY <1>1, <1>11 DEF TypeInv
  <2> QED BY <1>1, <2>1, <2>2, Goes DEF QuotePc
<1>12. CASE chain.pc \in {"resync", "mailReceived", "mailFree", "mailApproved"}
  <2>1. PICK at \in {"resynced", "markReceived", "markFree", "markApproved"} : Goto(at)
    BY <1>12 DEF PassFails
  <2>2. at \in ChainPc /\ at \notin Asks /\ at \notin QuotePc BY <1>5
  <2> QED BY <1>1, <1>6, <2>1, <2>2
<1>13. CASE chain.pc \notin {"fetch", "copy", "zero", "reread", "fields", "balance",
                             "resync", "mailReceived", "mailFree", "mailApproved"}
  <2>1. Goto("end") BY <1>13 DEF PassFails
  <2> QED BY <1>1, <1>5, <1>6, <2>1
<1> QED BY <1>7, <1>8, <1>9, <1>10, <1>11, <1>12, <1>13

LEMMA PassFailsTypes == TypeInv /\ PassFails => TypeInv'
<1> SUFFICES ASSUME TypeInv, PassFails PROVE TypeInv' OBVIOUS
<1>1. draft' \in DraftRec /\ due' \in 0 .. MaxDue BY PassFailsIs DEF TypeInv, DraftRec
<1>2. chain' \in {Idle} \cup ChainRec BY PassFailsIs
<1>3. Running' /\ chain'.pc \in Asks => chain'.ask \in Ask BY PassFailsIs DEF Running, Idle
<1> QED BY <1>1, <1>2, <1>3, PassFailsIs, PassTypes DEF Asks

LEMMA GateFailsIs ==
  ASSUME TypeInv, GateFails
  PROVE  /\ Running /\ chain.pc = "gate" /\ Allowed("fault") /\ HoldFor("missing-order-ref")
         /\ events' \in Nat
         /\ UNCHANGED <<case, known, fields, req, links, calls, serials, ghosts>>
  BY DEF GateFails, Running, Happens, TypeInv

LEMMA GateFailsTypes == TypeInv /\ GateFails => TypeInv'
<1> SUFFICES ASSUME TypeInv, GateFails PROVE TypeInv' OBVIOUS
<1>1. "missing-order-ref" \in Hold BY DEF Hold
<1>2. draft' \in DraftRec /\ due' \in 0 .. MaxDue /\ chain' \in ChainRec /\ chain'.pc = "end"
  BY <1>1, GateFailsIs, HoldTypes
<1> QED BY <1>2, GateFailsIs, PassTypes

\* A request fails: it ends, or goes on to its write; its voucher may be out.
LEMMA ReqFailsIs ==
  ASSUME TypeInv, NEW s \in Slot, ReqFails(s)
  PROVE  /\ Busy(s) /\ req[s] \in ReqRec /\ Allowed("fault") /\ events' \in Nat
         /\ req' \in [Slot -> {Idle} \cup ReqRec] /\ \A q \in Slot \ {s} : req'[q] = req[q]
         /\ \/ ~Busy(s)'
            \/ /\ req[s].pc = "specs" /\ req'[s] \in ReqRec /\ req'[s].pc = "put"
               /\ req'[s].job = req[s].job /\ req'[s].amount = req[s].amount
               /\ req'[s].extra = req[s].extra /\ req'[s].tags = req[s].tags
               /\ req'[s].price = req[s].price /\ req'[s].item = req[s].item
         /\ money' \in [got : Nat, back : Nat, vouchers : Nat] /\ money'.got = money.got
         /\ UNCHANGED <<case, draft, known, fields, due, chain, links, calls, told, serials, wanted>>
<1>1. /\ Busy(s) /\ Allowed("fault") /\ events' \in Nat
      /\ UNCHANGED <<case, draft, known, fields, due, chain, links, calls, told, serials, wanted>>
  BY DEF ReqFails, Happens, TypeInv
<1>2. req[s] \in ReqRec BY <1>1, RequestRec
<1>3. money' \in [got : Nat, back : Nat, vouchers : Nat] /\ money'.got = money.got
  <2>1. CASE UNCHANGED money BY <2>1 DEF TypeInv
  <2>2. CASE req[s].pc = "voucher" /\ Vouched(s) BY <1>1, <2>2, VoucherIs
  <2> QED BY <2>1, <2>2 DEF ReqFails, Vouched
<1>4. CASE req[s].pc = "specs"
  <2>1. Proceed(s, "put") /\ "put" \in ReqPc BY <1>4 DEF ReqFails, ReqPc
  <2> QED BY <1>1, <1>2, <1>3, <1>4, <2>1, Proceeds
<1>5. CASE req[s].pc # "specs"
  <2>1. Done(s) BY <1>5 DEF ReqFails
  <2> QED BY <1>1, <1>2, <1>3, <2>1, Finishes
<1> QED BY <1>4, <1>5

LEMMA ReqFailsTypes == \A s \in Slot : TypeInv /\ ReqFails(s) => TypeInv'
<1> SUFFICES ASSUME NEW s \in Slot, TypeInv, ReqFails(s) PROVE TypeInv' OBVIOUS
<1>1. Busy(s)' => JobOK(req'[s])
  <2> SUFFICES ASSUME Busy(s)' PROVE JobOK(req'[s]) OBVIOUS
  <2>1. JobOK(req[s]) BY ReqFailsIs, RequestRec
  <2>2. req'[s].pc = "put" /\ req'[s].job = req[s].job /\ req'[s].amount = req[s].amount BY ReqFailsIs
  <2> QED BY <2>1, <2>2 DEF JobOK
<1>2. (\A q \in Slot : Busy(q) => JobOK(req[q]))' BY <1>1, ReqFailsIs, SlotTypes
<1>3. /\ req' \in [Slot -> {Idle} \cup ReqRec] /\ events' \in Nat
      /\ money' \in [got : Nat, back : Nat, vouchers : Nat]
      /\ UNCHANGED <<case, draft, known, fields, due, chain, links, calls, told, serials, wanted>>
  BY ReqFailsIs
<1> QED BY <1>2, <1>3 DEF TypeInv, Running

LEMMA RestartIs ==
  ASSUME TypeInv, Restart
  PROVE  /\ chain' = Idle /\ req' = [s \in Slot |-> Idle] /\ ~Running' /\ \A s \in Slot : ~Busy(s)'
         /\ Allowed("fault") /\ events' \in Nat
         /\ UNCHANGED <<case, draft, known, fields, due, links, calls, serials, ghosts>>
  BY DEF Restart, Running, Busy, Idle, Happens, TypeInv

LEMMA RestartTypes == TypeInv /\ Restart => TypeInv'
<1> SUFFICES ASSUME TypeInv, Restart PROVE TypeInv' OBVIOUS
<1>1. req' \in [Slot -> {Idle} \cup ReqRec] BY RestartIs
<1> QED BY <1>1, RestartIs DEF TypeInv, ghosts

--------------------
(* Every step is one of these *)

Staffs == FillReference \/ \E tag \in Class \cup {"outside", "resync"} : StaffTag(tag)

Requested(s) == Posts(s) \/ (\E n \in calls : Notified(s, n)) \/ ReqStep(s) \/ ReqFails(s)

LEMMA Steps ==
  ASSUME [Next]_vars
  PROVE  \/ Deliver \/ PassStep \/ Staffs \/ (\E s \in Slot : Requested(s))
         \/ (\E l \in links : PayLink(l)) \/ PassFails \/ GateFails \/ Restart
         \/ UNCHANGED vars
  BY DEF Next, Staffs, Requested, Posts

LEMMA NextTypes == TypeInv /\ [Next]_vars => TypeInv'
<1> SUFFICES ASSUME TypeInv, [Next]_vars PROVE TypeInv' OBVIOUS
<1>1. CASE Deliver BY <1>1, StartPassTypes
<1>2. CASE PassStep
  BY <1>2, StartPassTypes, TidyTypes, GateTypes, StepTypes, QuotedTypes, ReadyTypes
  DEF PassStep, MadeFree
<1>3. CASE Staffs BY <1>3, StaffTypes DEF Staffs
<1>4. ASSUME NEW s \in Slot, Requested(s) PROVE TypeInv'
  <2>1. CASE ReqStep(s)
    BY <2>1, ReadTypes, WriteFinalTypes, WriteSpecsTypes, ReadDeltaTypes, IssueVoucherTypes, PutTypes,
       WritePaidTypes
    DEF ReqStep
  <2> QED BY <1>4, <2>1, PostTypes, NotifiedTypes, ReqFailsTypes DEF Requested
<1>5. CASE \E l \in links : PayLink(l) BY <1>5, PayTypes
<1>6. CASE PassFails BY <1>6, PassFailsTypes
<1>7. CASE GateFails BY <1>7, GateFailsTypes
<1>8. CASE Restart BY <1>8, RestartTypes
<1>9. CASE UNCHANGED vars BY <1>9 DEF vars, ghosts, TypeInv, Running, Busy, JobOK
<1> QED BY <1>1, <1>2, <1>3, <1>4, <1>5, <1>6, <1>7, <1>8, <1>9, Steps

--------------------
(* What each step does to the draft and to the pass, field by field *)

Elsewhere == UNCHANGED <<case, known, fields, req, links, calls, told, money, serials, wanted>>

\* The pass goes on, with the price it holds, to a step.
GoesTo(at) ==
    /\ Running /\ Running' /\ chain \in ChainRec /\ chain' \in ChainRec
    /\ chain'.pc = at /\ chain'.pass = chain.pass /\ chain'.pending = chain.pending
    /\ chain'.price = chain.price

SameCopies == draft' = draft /\ due' = due
Asked == due' \in Nat /\ due' > 0
TagsAre(t) == draft'.tags = t /\ draft'.price = draft.price /\ draft'.item = draft.item /\ Asked
LineIs(p, i) == draft'.tags = draft.tags /\ draft'.price = p /\ draft'.item = i /\ Asked
Copies == IF known THEN LineIs(chain.price, TRUE) ELSE SameCopies

\* A pass that starts has read the whole draft.
Fresh(n) ==
    /\ Running' /\ chain' \in ChainRec /\ chain'.pc = "fetch" /\ chain'.pass = n /\ ~chain'.pending
    /\ chain'.tags = draft.tags /\ chain'.price = draft.price /\ chain'.item = draft.item

LEMMA DeliverIs ==
  ASSUME TypeInv, Deliver
  PROVE  /\ draft' = draft /\ due > 0 /\ due' \in Nat /\ due' = due - 1 /\ Elsewhere
         /\ ~Running => Fresh(1)
         /\ Running => /\ Running' /\ chain' \in ChainRec /\ chain \in ChainRec /\ chain'.pending
                       /\ chain'.pc = chain.pc /\ chain'.pass = chain.pass /\ chain'.ask = chain.ask
                       /\ chain'.tags = chain.tags /\ chain'.price = chain.price /\ chain'.item = chain.item
<1>1. draft' = draft /\ due > 0 /\ due' = due - 1 /\ Elsewhere BY DEF Deliver, Elsewhere, ghosts
<1>2. due' \in Nat BY <1>1, RepairAssumption DEF TypeInv
<1>3. CASE ~Running
  <2>1. PICK n \in 1 .. 3 : n = 1 OBVIOUS
  <2>2. chain' = Pass(n) BY <1>3, <2>1 DEF Deliver
  <2>3. Fresh(n) BY <2>2, PassStarts DEF Fresh
  <2> QED BY <1>1, <1>2, <1>3, <2>1, <2>3
<1>4. CASE Running
  <2>1. chain' = [chain EXCEPT !.pending = TRUE] BY <1>4 DEF Deliver
  <2>2. chain \in ChainRec BY <1>4, PassRec
  <2>3. /\ chain' \in ChainRec /\ chain'.pending /\ chain'.pc = chain.pc /\ chain'.pass = chain.pass
        /\ chain'.ask = chain.ask
        /\ chain'.tags = chain.tags /\ chain'.price = chain.price /\ chain'.item = chain.item
    BY <2>1, <2>2 DEF ChainRec
  <2> QED BY <1>1, <1>2, <1>4, <2>2, <2>3 DEF Running
<1> QED BY <1>3, <1>4

LEMMA EndPassIs ==
  ASSUME TypeInv, EndPass
  PROVE  /\ Running /\ chain \in ChainRec /\ chain.pc = "end" /\ SameCopies /\ Elsewhere
         /\ chain.pending /\ chain.pass < 3 => Fresh(chain.pass + 1)
         /\ ~(chain.pending /\ chain.pass < 3) => chain' = Idle /\ ~Running'
<1>1. Running /\ chain.pc = "end" /\ SameCopies /\ Elsewhere
  BY DEF EndPass, Running, SameCopies, Elsewhere, ghosts
<1>2. chain \in ChainRec BY <1>1, PassRec
<1>3. CASE chain.pending /\ chain.pass < 3
  <2>1. PICK n \in 1 .. 3 : n = chain.pass + 1 BY <1>2, <1>3 DEF ChainRec
  <2>2. chain' = Pass(n) BY <1>3, <2>1 DEF EndPass
  <2>3. Fresh(n) BY <2>2, PassStarts DEF Fresh
  <2> QED BY <1>1, <1>2, <1>3, <2>1, <2>3
<1>4. CASE ~(chain.pending /\ chain.pass < 3)
  <2>1. chain' = Idle BY <1>4 DEF EndPass
  <2> QED BY <1>1, <1>2, <1>4, <2>1 DEF Idle, Running
<1> QED BY <1>3, <1>4

LEMMA FetchIs ==
  ASSUME TypeInv, Fetch
  PROVE  /\ Running /\ chain \in ChainRec /\ chain.pc = "fetch" /\ SameCopies /\ Elsewhere
         /\ Running' /\ chain' \in ChainRec /\ chain'.pass = chain.pass /\ chain'.pending = chain.pending
         /\ chain'.tags = draft.tags /\ chain'.price = draft.price /\ chain'.item = draft.item
         /\ chain'.pc = IF draft.tags = {} THEN "end"
                        ELSE IF ~draft.item /\ "outside" \notin draft.tags THEN "copy"
                        ELSE IF "free" \in draft.tags /\ draft.price > 0 THEN "zero"
                        ELSE Onward(draft.tags)
<1>1. Running /\ chain.pc = "fetch" /\ SameCopies /\ Elsewhere
  BY DEF Fetch, Running, SameCopies, Elsewhere, ghosts
<1>2. chain \in ChainRec BY <1>1, PassRec
<1>3. draft \in DraftRec BY DEF TypeInv
<1>4. PICK c : c = Pass(chain.pass) OBVIOUS
<1>5. PICK at : at = IF c.tags = {} THEN "end"
                     ELSE IF ~c.item /\ "outside" \notin c.tags THEN "copy"
                     ELSE ToZero(c, FALSE)
  OBVIOUS
<1>6. chain' = [c EXCEPT !.pending = chain.pending, !.pc = at] BY <1>4, <1>5 DEF Fetch
<1>7. c = [pc |-> "fetch", pass |-> chain.pass, pending |-> FALSE, tags |-> draft.tags,
           price |-> draft.price, item |-> draft.item, ask |-> None]
  BY <1>4 DEF Pass
<1>8. /\ chain'.pc = at /\ chain'.pass = chain.pass /\ chain'.pending = chain.pending
      /\ chain'.tags = draft.tags /\ chain'.price = draft.price /\ chain'.item = draft.item
  BY <1>6, <1>7
<1>9. at = IF draft.tags = {} THEN "end"
           ELSE IF ~draft.item /\ "outside" \notin draft.tags THEN "copy"
           ELSE IF "free" \in draft.tags /\ draft.price > 0 THEN "zero"
           ELSE Onward(draft.tags)
  BY <1>5, <1>7 DEF ToZero
<1>10. at # "idle"
  <2>1. Onward(draft.tags) # "idle" BY <1>3, OnwardPc DEF DraftRec
  <2> QED BY <1>9, <2>1
<1>11. TypeInv' BY StartPassTypes
<1>12. Running' BY <1>8, <1>10 DEF Running
<1>13. chain' \in ChainRec BY <1>11, <1>12 DEF TypeInv, Running, Idle
<1> QED BY <1>1, <1>2, <1>8, <1>9, <1>12, <1>13

\* What every step of a running pass leaves a record.
LEMMA StaysRec ==
  ASSUME TypeInv', chain'.pc # "idle"
  PROVE  Running' /\ chain' \in ChainRec
<1>1. Running' BY DEF Running
<1>2. chain' \in {Idle} \cup ChainRec BY DEF TypeInv
<1>3. Idle.pc = "idle" BY DEF Idle
<1>4. chain' # Idle BY <1>3
<1> QED BY <1>1, <1>2, <1>4

LEMMA CopySpecsIs ==
  ASSUME TypeInv, Running, CopySpecs
  PROVE  Copies
<1>1. CASE known
  <2>1. MaxDue \in Nat BY RepairAssumption
  <2>2. /\ due' \in 0 .. MaxDue /\ draft'.tags = draft.tags
        /\ draft'.price = chain.price /\ draft'.item = TRUE /\ due' > 0
    BY <1>1, CopyTypes
  <2> QED BY <1>1, <2>1, <2>2 DEF Copies, LineIs, Asked
<1>2. CASE ~known
  BY <1>2 DEF Copies, CopySpecs, SameCopies
<1> QED BY <1>1, <1>2

LEMMA CopyIs ==
  ASSUME TypeInv, Copy
  PROVE  /\ chain.pc = "copy" /\ Copies /\ Elsewhere /\ chain'.tags = chain.tags /\ chain'.item = known
         /\ chain'.pc = IF "free" \in chain.tags /\ chain.price > 0 THEN "zero"
                        ELSE IF known THEN "reread" ELSE Onward(chain.tags)
         /\ GoesTo(chain'.pc)
<1>1. Running /\ chain.pc = "copy" /\ Elsewhere BY DEF Copy, Running, Elsewhere, ghosts
<1>2. chain \in ChainRec BY <1>1, PassRec
<1>3. Copies BY <1>1, CopySpecsIs DEF Copy
<1>4. PICK at : at = ToZero(chain, known) OBVIOUS
<1>5. chain' = [chain EXCEPT !.pc = at, !.item = known] BY <1>4 DEF Copy
<1>6. /\ chain'.pc = at /\ chain'.tags = chain.tags /\ chain'.item = known
      /\ chain'.pass = chain.pass /\ chain'.pending = chain.pending /\ chain'.price = chain.price
  BY <1>2, <1>5 DEF ChainRec
<1>7. at = IF "free" \in chain.tags /\ chain.price > 0 THEN "zero"
           ELSE IF known THEN "reread" ELSE Onward(chain.tags)
  BY <1>4 DEF ToZero
<1>8. at # "idle"
  <2>1. Onward(chain.tags) # "idle" BY <1>2, OnwardPc DEF ChainRec
  <2> QED BY <1>7, <2>1
<1>9. Running' /\ chain' \in ChainRec BY <1>6, <1>8, TidyTypes, StaysRec
<1> QED BY <1>1, <1>2, <1>3, <1>6, <1>7, <1>9 DEF GoesTo

LEMMA ZeroIs ==
  ASSUME TypeInv, Zero
  PROVE  /\ chain.pc = "zero" /\ LineIs(0, chain.item) /\ Elsewhere /\ GoesTo("reread")
         /\ chain'.tags = chain.tags /\ chain'.item = chain.item
<1>1. Running /\ chain.pc = "zero" /\ Elsewhere BY DEF Zero, Running, Elsewhere, ghosts
<1>2. chain \in ChainRec /\ chain.item \in BOOLEAN /\ 0 \in Money BY <1>1, PassRec DEF ChainRec, Money
<1>3. LineIs(0, chain.item)
  BY <1>2, LinePut, RepairAssumption DEF Zero, LineIs, Asked
<1>4. Goto("reread") /\ "reread" \in ChainPc BY DEF Zero, ChainPc
<1> QED BY <1>1, <1>2, <1>3, <1>4, Goes DEF GoesTo

LEMMA RereadIs ==
  ASSUME TypeInv, Reread
  PROVE  /\ Running /\ chain \in ChainRec /\ chain.pc = "reread" /\ SameCopies /\ Elsewhere
         /\ Running' /\ chain' \in ChainRec /\ chain'.pass = chain.pass /\ chain'.pending = chain.pending
         /\ chain'.tags = chain.tags /\ chain'.price = draft.price /\ chain'.item = draft.item
         /\ chain'.pc = Onward(chain.tags)
<1>1. Running /\ chain.pc = "reread" /\ SameCopies /\ Elsewhere
  BY DEF Reread, Running, SameCopies, Elsewhere, ghosts
<1>2. chain \in ChainRec BY <1>1, PassRec
<1>3. PICK at : at = Onward(chain.tags) OBVIOUS
<1>4. chain' = [chain EXCEPT !.pc = at, !.price = draft.price, !.item = draft.item]
  BY <1>3 DEF Reread
<1>5. /\ chain'.pc = at /\ chain'.tags = chain.tags /\ chain'.item = draft.item
      /\ chain'.pass = chain.pass /\ chain'.pending = chain.pending /\ chain'.price = draft.price
  BY <1>2, <1>4 DEF ChainRec
<1>6. at # "idle" BY <1>2, <1>3, OnwardPc DEF ChainRec
<1>7. Running' /\ chain' \in ChainRec BY <1>5, <1>6, TidyTypes, StaysRec
<1> QED BY <1>1, <1>2, <1>3, <1>5, <1>7

LEMMA ResyncIs ==
  ASSUME TypeInv, Resync
  PROVE  /\ chain.pc = "resync" /\ Elsewhere /\ GoesTo("resynced")
         /\ IF "outside" \in chain.tags THEN SameCopies ELSE Copies
         /\ chain'.tags = chain.tags /\ chain'.item = chain.item
<1>1. Running /\ chain.pc = "resync" /\ Elsewhere BY DEF Resync, Running, Elsewhere, ghosts
<1>2. chain \in ChainRec BY <1>1, PassRec
<1>3. IF "outside" \in chain.tags THEN SameCopies ELSE Copies
  BY <1>1, CopySpecsIs DEF Resync, SameCopies
<1>4. Goto("resynced") /\ "resynced" \in ChainPc BY DEF Resync, ChainPc
<1> QED BY <1>1, <1>2, <1>3, <1>4, Goes DEF GoesTo

LEMMA TagsAreIs ==
  ASSUME TypeInv, NEW t \in SUBSET Tag, PutTags(t)
  PROVE  TagsAre(t)
  BY TagsPut, RepairAssumption DEF TagsAre, Asked

LEMMA ResyncedIs ==
  ASSUME TypeInv, Resynced
  PROVE  /\ chain.pc = "resynced" /\ Elsewhere /\ GoesTo("reread")
         /\ TagsAre(chain.tags \ {"resync"})
         /\ chain'.tags = chain.tags \ {"resync"} /\ chain'.item = chain.item
<1>1. Running /\ chain.pc = "resynced" /\ Elsewhere BY DEF Resynced, Running, Elsewhere, ghosts
<1>2. chain \in ChainRec BY <1>1, PassRec
<1>3. PICK t \in SUBSET Tag : t = chain.tags \ {"resync"} BY <1>2 DEF ChainRec
<1>4. PutTags(t) /\ chain' = [chain EXCEPT !.pc = "reread", !.tags = t] BY <1>3 DEF Resynced
<1>5. TagsAre(t) BY <1>4, TagsAreIs
<1>6. /\ chain'.pc = "reread" /\ chain'.tags = t /\ chain'.item = chain.item
      /\ chain'.pass = chain.pass /\ chain'.pending = chain.pending /\ chain'.price = chain.price
  BY <1>2, <1>4 DEF ChainRec
<1>7. Running' /\ chain' \in ChainRec BY <1>6, TidyTypes, StaysRec
<1> QED BY <1>1, <1>2, <1>3, <1>5, <1>6, <1>7 DEF GoesTo

LEMMA HoldForIs ==
  ASSUME TypeInv, Running, NEW tag \in Hold, HoldFor(tag)
  PROVE  /\ GoesTo("end") /\ chain'.tags = chain.tags
         /\ IF tag \in chain.tags THEN SameCopies ELSE TagsAre(chain.tags \cup {tag})
<1>1. chain \in ChainRec BY PassRec
<1>2. Goto("end") /\ "end" \in ChainPc BY DEF HoldFor, ChainPc, AfterPc
<1>3. PICK t \in SUBSET Tag : t = chain.tags \cup {tag} BY <1>1 DEF ChainRec, Tag
<1>4. IF tag \in chain.tags THEN SameCopies ELSE TagsAre(t)
  BY <1>3, TagsAreIs DEF HoldFor, SameCopies
<1> QED BY <1>1, <1>2, <1>3, <1>4, Goes DEF GoesTo

\* The gate holds the intake, or lets it through.
LEMMA GateIs ==
  ASSUME TypeInv, Gate
  PROVE  /\ chain.pc = "gate" /\ Elsewhere /\ chain'.tags = chain.tags
         /\ \/ /\ IF "outside" \in chain.tags THEN ~chain.item ELSE ~known
               /\ GoesTo("end")
               /\ \E tag \in Hold : IF tag \in chain.tags THEN SameCopies ELSE TagsAre(chain.tags \cup {tag})
            \/ /\ IF "outside" \in chain.tags THEN chain.item /\ SameCopies ELSE known /\ Copies
               /\ GoesTo(IF "missing-order-ref" \in chain.tags THEN "unhold" ELSE "mailReceived")
<1>1. Running /\ chain.pc = "gate" /\ Elsewhere BY DEF Gate, Running, Elsewhere, ghosts
<1>2. chain \in ChainRec BY <1>1, PassRec
<1>3. PICK next : next = IF "missing-order-ref" \in chain.tags THEN "unhold" ELSE "mailReceived" OBVIOUS
<1>4. next \in ChainPc BY <1>3 DEF ChainPc, GatePc
<1>5. ASSUME Goto(next) PROVE GoesTo(next) /\ chain'.tags = chain.tags
  BY <1>1, <1>2, <1>4, <1>5, Goes DEF GoesTo
<1>6. "missing-inspection" \in Hold /\ "missing-order-ref" \in Hold BY DEF Hold
<1>7. \/ "outside" \in chain.tags /\ ~chain.item /\ HoldFor("missing-inspection")
      \/ "outside" \in chain.tags /\ chain.item /\ Goto(next) /\ SameCopies
      \/ "outside" \notin chain.tags /\ ~known /\ HoldFor("missing-order-ref")
      \/ "outside" \notin chain.tags /\ known /\ CopySpecs /\ Goto(next)
  BY <1>3 DEF Gate, SameCopies
<1>8. CASE "outside" \in chain.tags /\ ~chain.item /\ HoldFor("missing-inspection")
  BY <1>1, <1>6, <1>8, HoldForIs
<1>9. CASE "outside" \in chain.tags /\ chain.item /\ Goto(next) /\ SameCopies
  BY <1>1, <1>3, <1>5, <1>9
<1>10. CASE "outside" \notin chain.tags /\ ~known /\ HoldFor("missing-order-ref")
  BY <1>1, <1>6, <1>10, HoldForIs
<1>11. CASE "outside" \notin chain.tags /\ known /\ CopySpecs /\ Goto(next)
  BY <1>1, <1>3, <1>5, <1>11, CopySpecsIs
<1> QED BY <1>7, <1>8, <1>9, <1>10, <1>11

LEMMA UnholdIs ==
  ASSUME TypeInv, Unhold
  PROVE  /\ chain.pc = "unhold" /\ Elsewhere /\ GoesTo("mailReceived")
         /\ TagsAre(chain.tags \ {"missing-order-ref"})
         /\ chain'.tags = chain.tags \ {"missing-order-ref"}
<1>1. Running /\ chain.pc = "unhold" /\ Elsewhere BY DEF Unhold, Running, Elsewhere, ghosts
<1>2. chain \in ChainRec BY <1>1, PassRec
<1>3. PICK t \in SUBSET Tag : t = chain.tags \ {"missing-order-ref"} BY <1>2 DEF ChainRec
<1>4. PutTags(t) /\ chain' = [chain EXCEPT !.pc = "mailReceived", !.tags = t] BY <1>3 DEF Unhold
<1>5. TagsAre(t) BY <1>4, TagsAreIs
<1>6. /\ chain'.pc = "mailReceived" /\ chain'.tags = t
      /\ chain'.pass = chain.pass /\ chain'.pending = chain.pending /\ chain'.price = chain.price
  BY <1>2, <1>4 DEF ChainRec
<1>7. Running' /\ chain' \in ChainRec BY <1>6, GateTypes, StaysRec
<1> QED BY <1>1, <1>2, <1>3, <1>5, <1>6, <1>7 DEF GoesTo

\* A mail changes what was told, and a mark the tags.
LEMMA MailsIs ==
  ASSUME TypeInv, NEW step, step # "idle", NEW next \in ChainPc, NEW mailed, Mails(step, next, mailed)
  PROVE  /\ chain.pc = step /\ GoesTo(next) /\ chain'.tags = chain.tags /\ chain'.ask = chain.ask
         /\ told' = mailed /\ SameCopies
         /\ UNCHANGED <<case, known, fields, req, links, calls, money, serials, wanted>>
<1>1. /\ Running /\ chain.pc = step /\ told' = mailed /\ SameCopies /\ Goto(next)
      /\ UNCHANGED <<case, known, fields, req, links, calls, money, serials, wanted>>
  BY DEF Mails, Running, SameCopies
<1>2. chain \in ChainRec BY <1>1, PassRec
<1> QED BY <1>1, <1>2, Goes DEF GoesTo

LEMMA MarksIs ==
  ASSUME TypeInv, NEW step, step # "idle", NEW tag \in Tag, NEW next \in ChainPc, Marks(step, tag, next)
  PROVE  /\ chain.pc = step /\ GoesTo(next) /\ chain'.tags = chain.tags
         /\ TagsAre(chain.tags \cup {tag}) /\ Elsewhere
<1>1. /\ Running /\ chain.pc = step /\ Goto(next) /\ Elsewhere
  BY DEF Marks, Running, Elsewhere, ghosts
<1>2. chain \in ChainRec BY <1>1, PassRec
<1>3. PICK t \in SUBSET Tag : t = chain.tags \cup {tag} BY <1>2 DEF ChainRec
<1>4. TagsAre(t) BY <1>3, TagsAreIs DEF Marks
<1> QED BY <1>1, <1>2, <1>3, <1>4, Goes DEF GoesTo

LEMMA RecopyIs ==
  ASSUME TypeInv, Recopy
  PROVE  /\ chain.pc = "recopy" /\ Elsewhere /\ GoesTo("end") /\ chain'.tags = chain.tags
         /\ IF "outside" \in chain.tags THEN SameCopies ELSE Copies
<1>1. Running /\ chain.pc = "recopy" /\ Elsewhere BY DEF Recopy, Running, Elsewhere, ghosts
<1>2. chain \in ChainRec BY <1>1, PassRec
<1>3. IF "outside" \in chain.tags THEN SameCopies ELSE Copies
  BY <1>1, CopySpecsIs DEF Recopy, SameCopies
<1>4. Goto("end") /\ "end" \in ChainPc BY DEF Recopy, ChainPc, AfterPc
<1> QED BY <1>1, <1>2, <1>3, <1>4, Goes DEF GoesTo

\* A link of this kind and amount is added.
Links1(kind, amount) ==
    \E l \in LinkRec : l.kind = kind /\ l.amount = amount /\ ~l.paid /\ links' = links \cup {l}

LEMMA MakeLinkIs ==
  ASSUME TypeInv, MakeLink
  PROVE  /\ chain.pc = "link" /\ GoesTo("mailQuote") /\ chain'.tags = chain.tags
         /\ Links1("estimate", chain.price) /\ SameCopies
         /\ UNCHANGED <<case, known, fields, req, calls, told, money, serials, wanted>>
<1>1. /\ Running /\ chain.pc = "link" /\ SameCopies /\ Goto("mailQuote") /\ NewLink("estimate", chain.price)
      /\ UNCHANGED <<case, known, fields, req, calls, told, money, serials, wanted>>
  BY DEF MakeLink, Running, SameCopies, ghosts
<1>2. chain \in ChainRec /\ "mailQuote" \in ChainPc BY <1>1, PassRec DEF ChainPc, QuotePc
<1>3. chain.price \in Nat BY <1>2, MoneyIsNat DEF ChainRec
<1>4. Links1("estimate", chain.price) BY <1>1, <1>3, NewLinkTypes DEF Links1
<1> QED BY <1>1, <1>2, <1>4, Goes DEF GoesTo

LEMMA MakeBalanceLinkIs ==
  ASSUME TypeInv, MakeBalanceLink
  PROVE  /\ chain.pc = "balance" /\ GoesTo("mailReady") /\ chain'.tags = chain.tags
         /\ chain'.ask = chain.ask /\ chain.ask \in Ask
         /\ Links1("balance", chain.ask.amount) /\ SameCopies
         /\ UNCHANGED <<case, known, fields, req, calls, told, money, serials, wanted>>
<1>1. /\ Running /\ chain.pc = "balance" /\ SameCopies /\ Goto("mailReady") /\ NewLink("balance", chain.ask.amount)
      /\ UNCHANGED <<case, known, fields, req, calls, told, money, serials, wanted>>
  BY DEF MakeBalanceLink, Running, SameCopies, ghosts
<1>2. chain \in ChainRec /\ "mailReady" \in ChainPc BY <1>1, PassRec DEF ChainPc, ReadyPc
<1>3. chain.ask \in Ask /\ chain.ask.amount \in Nat BY <1>1 DEF TypeInv, Ask
<1>4. Links1("balance", chain.ask.amount) BY <1>1, <1>3, NewLinkTypes DEF Links1
<1> QED BY <1>1, <1>2, <1>3, <1>4, Goes DEF GoesTo

LEMMA ReadFieldsIs ==
  ASSUME TypeInv, ReadFields
  PROVE  /\ chain.pc = "fields" /\ SameCopies /\ Elsewhere
         /\ GoesTo(IF chain'.ask.mode = "balance" THEN "balance" ELSE "mailReady")
         /\ chain'.ask \in Ask
         /\ chain'.ask = Completion(fields.paid, fields.final, chain.price, "free" \in chain.tags)
         /\ chain'.tags = chain.tags
<1>1. Running /\ chain.pc = "fields" /\ SameCopies /\ Elsewhere /\ Reckon(fields.paid, fields.final)
  BY DEF ReadFields, Running, SameCopies, Elsewhere, ghosts
<1>2. PICK paid \in Money, final \in Money \cup {None} : paid = fields.paid /\ final = fields.final
  BY DEF TypeInv
<1>3. chain \in ChainRec BY <1>1, PassRec
<1>4. /\ chain' \in ChainRec /\ chain'.ask \in Ask
      /\ chain'.ask = Completion(paid, final, chain.price, "free" \in chain.tags)
      /\ chain'.pc = (IF chain'.ask.mode = "balance" THEN "balance" ELSE "mailReady")
      /\ chain'.tags = chain.tags /\ chain'.price = chain.price
      /\ chain'.pass = chain.pass /\ chain'.pending = chain.pending
  BY <1>1, <1>2, ReckonTypes
<1>5. Running' BY <1>4 DEF Running
<1> QED BY <1>1, <1>2, <1>3, <1>4, <1>5 DEF GoesTo

LEMMA MintServiceIs ==
  ASSUME TypeInv, MintService
  PROVE  /\ chain.pc = "serial" /\ GoesTo("end") /\ chain'.tags = chain.tags /\ SameCopies
         /\ serials' = serials \cup {IF "free" \in chain.tags THEN "FS" ELSE "TS"}
         /\ UNCHANGED <<case, known, fields, req, links, calls, told, money, wanted>>
<1>1. /\ Running /\ chain.pc = "serial" /\ SameCopies /\ Goto("end")
      /\ serials' = serials \cup {IF "free" \in chain.tags THEN "FS" ELSE "TS"}
      /\ UNCHANGED <<case, known, fields, req, links, calls, told, money, wanted>>
  BY DEF MintService, Running, SameCopies, ghosts
<1>2. chain \in ChainRec /\ "end" \in ChainPc BY <1>1, PassRec DEF ChainPc, AfterPc
<1> QED BY <1>1, <1>2, Goes DEF GoesTo

\* The step that is due, by what the tags ask for.
LEMMA OnwardIs ==
  ASSUME NEW t \in SUBSET Tag
  PROVE  /\ Onward(t) = "resync" <=> "resync" \in t
         /\ Onward(t) = "gate" <=> "resync" \notin t /\ GateDue(t)
         /\ Onward(t) = "mailFree" <=> "resync" \notin t /\ ~GateDue(t) /\ FreeDue(t)
         /\ Onward(t) = "mailApproved" <=>
               "resync" \notin t /\ ~GateDue(t) /\ ~FreeDue(t) /\ ApproveDue(t)
         /\ Onward(t) = "link" <=>
               "resync" \notin t /\ ~GateDue(t) /\ ~FreeDue(t) /\ ~ApproveDue(t) /\ QuoteDue(t)
         /\ Onward(t) = "fields" <=>
               /\ "resync" \notin t /\ ~GateDue(t) /\ ~FreeDue(t) /\ ~ApproveDue(t) /\ ~QuoteDue(t)
               /\ ReadyDue(t)
         /\ Onward(t) = "end" <=> NothingDue(t)
         /\ Onward(t) \in {"resync", "gate", "mailFree", "mailApproved", "link", "fields", "end"}
<1>1. Onward(t) \in {"resync", "gate", "mailFree", "mailApproved", "link", "fields", "end"} BY OnwardPc
<1> QED BY <1>1 DEF Onward, Trigger, GateDue, FreeDue, ApproveDue, QuoteDue, ReadyDue, NothingDue

LEMMA StaffTagIs ==
  ASSUME TypeInv, NEW tag \in Class \cup {"outside", "resync"}, StaffTag(tag)
  PROVE  /\ TagsAre(draft.tags \cup {tag}) /\ Prompt /\ tag \notin draft.tags
         /\ tag = "outside" => draft.tags = {}
         /\ tag = "intake" => draft.tags \cap Class = {}
         /\ tag = "free" => /\ told.quote = None \/ Allowed("waived")
                            /\ "complete" \notin draft.tags \/ Allowed("revise")
         /\ tag = "resync" => draft.tags # {}
         /\ UNCHANGED <<case, known, fields, chain, req, links, calls, serials, told, money, wanted>>
<1>1. PICK t \in SUBSET Tag : t = draft.tags \cup {tag} BY DEF TypeInv, DraftRec, Tag, Class
<1>2. TagsAre(t) BY <1>1, TagsAreIs DEF StaffTag
<1>3. /\ tag = "outside" => draft.tags = {}
      /\ tag = "intake" => draft.tags \cap Class = {}
      /\ tag = "free" => /\ told.quote = None \/ Allowed("waived")
                         /\ "complete" \notin draft.tags \/ Allowed("revise")
      /\ tag = "resync" => draft.tags # {}
  <2> PICK g : g = tag OBVIOUS
  <2>1. CASE tag = "outside" BY <2>1 DEF StaffTag
  <2>2. CASE tag = "intake" BY <2>2 DEF StaffTag
  <2>3. CASE tag = "free" BY <2>3 DEF StaffTag
  <2>4. CASE tag = "resync" BY <2>4 DEF StaffTag
  <2> QED BY <2>1, <2>2, <2>3, <2>4 DEF Class
<1> QED BY <1>1, <1>2, <1>3 DEF StaffTag, ghosts

LEMMA FillIs ==
  ASSUME TypeInv, FillReference
  PROVE  /\ draft' = draft /\ Asked /\ Prompt /\ ~known /\ known'
         /\ UNCHANGED <<case, fields, chain, req, links, calls, serials, told, money, wanted>>
<1>1. MaxDue \in Nat BY RepairAssumption
<1>2. due' \in 1 .. MaxDue BY Tells DEF FillReference
<1> QED BY <1>1, <1>2 DEF FillReference, Asked, ghosts

--------------------
(* Prices are set before anything is quoted *)

Unquoted(t) == t \cap Quoting = {}

\* What a step of the pass must leave as it was.
LEMMA OrderedKept ==
  ASSUME TypeInv, TypeInv', Ordered, UNCHANGED <<fields, req, calls, wanted>>,
         told' \in ToldRec, told \in ToldRec,
         wanted = None =>
            /\ Unquoted(draft'.tags) /\ links' = links /\ told'.quote = None
            /\ Running' => Unquoted(chain'.tags) /\ chain'.pc \notin QuotePc \cup {"balance"},
         told'.received >= told.received, told'.ready >= told.ready,
         told.quote # None => told'.quote # None,
         told'.ask # None => told.ask # None \/ told'.ready > 0
  PROVE  Ordered'
  BY DEF Ordered, Unquoted, Busy, ToldRec

LEMMA OrderedUntold ==
  ASSUME TypeInv, TypeInv', Ordered, UNCHANGED <<fields, req, links, calls, told, wanted>>,
         wanted = None =>
            /\ Unquoted(draft'.tags)
            /\ Running' => Unquoted(chain'.tags) /\ chain'.pc \notin QuotePc \cup {"balance"}
  PROVE  Ordered'
<1>1. told \in ToldRec /\ told' \in ToldRec BY DEF TypeInv
<1>2. told.received \in Nat /\ told.ready \in Nat BY <1>1 DEF ToldRec
<1>3. wanted = None => told.quote = None BY DEF Ordered
<1>4. told.ask # None => told.ready > 0 BY DEF Ordered
<1> QED BY <1>1, <1>2, <1>3, <1>4, OrderedKept

\* Nothing the pass can go to from tags that ask for no quote makes one.
LEMMA UnquotedOnward ==
  ASSUME NEW t \in SUBSET Tag, Unquoted(t)
  PROVE  Onward(t) \notin QuotePc \cup {"balance"}
<1>1. Onward(t) \in {"resync", "gate", "mailFree", "mailApproved", "link", "fields", "end"}
      /\ (Onward(t) = "link" => QuoteDue(t))
  BY OnwardIs
<1>2. ~QuoteDue(t) BY DEF QuoteDue, Unquoted, Quoting
<1> QED BY <1>1, <1>2 DEF QuotePc

LEMMA OrderedPass == TypeInv /\ TypeInv' /\ Ordered /\ (Deliver \/ PassStep \/ PassFails \/ GateFails) => Ordered'
<1> SUFFICES ASSUME TypeInv, TypeInv', Ordered, Deliver \/ PassStep \/ PassFails \/ GateFails PROVE Ordered'
  OBVIOUS
<1> USE DEF Elsewhere, SameCopies, TagsAre, LineIs, Copies, GoesTo, Fresh
<1>d. wanted = None => /\ Unquoted(draft.tags)
                       /\ Running => Unquoted(chain.tags) /\ chain.pc \notin QuotePc \cup {"balance"}
  BY DEF Ordered, Unquoted
<1>t. draft.tags \in SUBSET Tag /\ (Running => chain.tags \in SUBSET Tag)
  BY PassRec DEF ChainRec, TypeInv, DraftRec
<1>v. \A t, x : Unquoted(t) /\ x \notin Quoting => Unquoted(t \cup {x}) BY DEF Unquoted
<1>w. told \in ToldRec /\ told' \in ToldRec BY DEF TypeInv
<1>1. CASE Deliver
  <2>1. "fetch" \notin QuotePc \cup {"balance"} BY DEF QuotePc
  <2> QED BY <1>1, <1>d, <2>1, DeliverIs, OrderedUntold
<1>2. CASE EndPass
  <2>1. "fetch" \notin QuotePc \cup {"balance"} BY DEF QuotePc
  <2> QED BY <1>2, <1>d, <2>1, EndPassIs, OrderedUntold
<1>3. CASE Fetch
  <2>1. {"end", "copy", "zero"} \cap (QuotePc \cup {"balance"}) = {} BY DEF QuotePc
  <2> QED BY <1>3, <1>d, <1>t, <2>1, FetchIs, UnquotedOnward, OrderedUntold
<1>4. CASE Copy
  <2>1. {"zero", "reread"} \cap (QuotePc \cup {"balance"}) = {} BY DEF QuotePc
  <2> QED BY <1>4, <1>d, <1>t, <2>1, CopyIs, UnquotedOnward, OrderedUntold
<1>5. CASE Zero
  <2>1. "reread" \notin QuotePc \cup {"balance"} BY DEF QuotePc
  <2> QED BY <1>5, <1>d, <2>1, ZeroIs, OrderedUntold
<1>6. CASE Reread
  BY <1>6, <1>d, <1>t, RereadIs, UnquotedOnward, OrderedUntold
<1>7. CASE Resync
  <2>1. "resynced" \notin QuotePc \cup {"balance"} BY DEF QuotePc
  <2> QED BY <1>7, <1>d, <2>1, ResyncIs, OrderedUntold
<1>8. CASE Resynced
  <2>1. "reread" \notin QuotePc \cup {"balance"} BY DEF QuotePc
  <2>2. wanted = None => Unquoted(draft'.tags) /\ Unquoted(chain'.tags)
    BY <1>8, <1>d, ResyncedIs DEF Unquoted
  <2> QED BY <1>8, <2>1, <2>2, ResyncedIs, OrderedUntold
<1>9. CASE Gate
  <2>1. {"end", "unhold", "mailReceived"} \cap (QuotePc \cup {"balance"}) = {} BY DEF QuotePc
  <2>2. Hold \cap Quoting = {} BY DEF Hold, Quoting
  <2>3. /\ Elsewhere /\ chain'.tags = chain.tags /\ Running /\ chain'.pc \in {"end", "unhold", "mailReceived"}
        /\ \/ draft'.tags = draft.tags
           \/ \E tag \in Hold : draft'.tags = chain.tags \cup {tag}
    BY <1>9, GateIs
  <2>4. wanted = None => Unquoted(draft'.tags) BY <1>d, <2>2, <2>3 DEF Unquoted
  <2> QED BY <1>d, <2>1, <2>3, <2>4, OrderedUntold
<1>10. CASE Unhold
  <2>1. "mailReceived" \notin QuotePc \cup {"balance"} BY DEF QuotePc
  <2>2. wanted = None => Unquoted(draft'.tags) /\ Unquoted(chain'.tags)
    BY <1>10, <1>d, UnholdIs DEF Unquoted
  <2> QED BY <1>10, <2>1, <2>2, UnholdIs, OrderedUntold
<1>11. ASSUME NEW step \in ChainPc, NEW tag \in Tag, NEW next \in ChainPc, Marks(step, tag, next),
              step \in QuotePc \/ (tag \notin Quoting /\ next \notin QuotePc \cup {"balance"})
       PROVE  Ordered'
  <2>1. step # "idle" BY DEF ChainPc, GatePc, FreePc, ApprovePc, QuotePc, ReadyPc, AfterPc
  <2>2. /\ chain.pc = step /\ Running /\ chain'.pc = next /\ chain'.tags = chain.tags
        /\ draft'.tags = chain.tags \cup {tag} /\ Elsewhere
    BY <1>11, <2>1, MarksIs
  <2>3. wanted = None => Unquoted(draft'.tags) BY <1>11, <1>d, <2>2 DEF Unquoted
  <2> QED BY <1>11, <1>d, <2>2, <2>3, OrderedUntold
<1>12. ASSUME NEW step \in ChainPc, NEW next \in ChainPc, NEW mailed \in ToldRec, Mails(step, next, mailed),
              step \in QuotePc \/ (mailed.quote = told.quote /\ next \notin QuotePc \cup {"balance"}),
              mailed.received >= told.received, mailed.ready >= told.ready,
              told.quote # None => mailed.quote # None,
              mailed.ask # None => told.ask # None \/ mailed.ready > 0
       PROVE  Ordered'
  <2>1. step # "idle" BY DEF ChainPc, GatePc, FreePc, ApprovePc, QuotePc, ReadyPc, AfterPc
  <2>2. wanted = None => told.quote = None BY DEF Ordered
  <2>3. /\ chain.pc = step /\ GoesTo(next) /\ chain'.tags = chain.tags
        /\ told' = mailed /\ SameCopies
        /\ UNCHANGED <<case, known, fields, req, links, calls, money, serials, wanted>>
    BY <1>12, <2>1, MailsIs
  <2> QED BY <1>12, <1>d, <1>w, <2>2, <2>3, OrderedKept
<1>s. /\ GatePc \cup FreePc \cup ApprovePc \cup QuotePc \cup ReadyPc \cup AfterPc \subseteq ChainPc
      /\ {"mailReceived", "markReceived"} \subseteq GatePc /\ {"mailFree", "markFree"} \subseteq FreePc
      /\ {"mailApproved", "markApproved"} \subseteq ApprovePc /\ {"mailQuote", "markQuoted"} \subseteq QuotePc
      /\ {"mailReady", "markReady"} \subseteq ReadyPc /\ {"end", "recopy", "serial"} \subseteq AfterPc
      /\ (QuotePc \cup {"balance"}) \cap (GatePc \cup FreePc \cup ApprovePc \cup AfterPc \cup {"mailReady", "markReady"}) = {}
      /\ {"hq-notified", "free-notified", "store-hq-notified", "estimate-sent", "completion-notified"} \subseteq Tag
      /\ {"hq-notified", "free-notified", "store-hq-notified", "completion-notified"} \cap Quoting = {}
  BY DEF ChainPc, GatePc, FreePc, ApprovePc, QuotePc, ReadyPc, AfterPc, Tag, Quoting
<1>r. /\ told.received \in Nat /\ told.free \in Nat /\ told.approved \in Nat /\ told.ready \in Nat
      /\ told.ask # None => told.ready > 0
  BY <1>w DEF ToldRec, Ordered
<1>13. CASE Received
  <2>1. PICK m \in ToldRec : m = [told EXCEPT !.received = @ + 1] BY MailedTypes
  <2>2. m.received = told.received + 1 /\ m.ready = told.ready /\ m.quote = told.quote /\ m.ask = told.ask
    BY <2>1, <1>w DEF ToldRec
  <2>3. CASE Mails("mailReceived", "markReceived", m) BY <1>12, <1>s, <1>r, <2>2, <2>3
  <2>4. CASE Marks("markReceived", "hq-notified", "end") BY <1>11, <1>s, <2>4
  <2> QED BY <1>13, <2>1, <2>3, <2>4 DEF Received
<1>14. CASE MadeFree
  <2>1. PICK m \in ToldRec : m = [told EXCEPT !.free = @ + 1] BY MailedTypes
  <2>2. m.received = told.received /\ m.ready = told.ready /\ m.quote = told.quote /\ m.ask = told.ask
    BY <2>1, <1>w DEF ToldRec
  <2>3. CASE Mails("mailFree", "markFree", m) BY <1>12, <1>s, <1>r, <2>2, <2>3
  <2>4. CASE Marks("markFree", "free-notified", "recopy") BY <1>11, <1>s, <2>4
  <2>5. CASE Recopy BY <1>d, <1>s, <2>5, RecopyIs, OrderedUntold
  <2> QED BY <1>14, <2>1, <2>3, <2>4, <2>5 DEF MadeFree
<1>15. CASE Approved
  <2>1. PICK m \in ToldRec : m = [told EXCEPT !.approved = @ + 1] BY MailedTypes
  <2>2. m.received = told.received /\ m.ready = told.ready /\ m.quote = told.quote /\ m.ask = told.ask
    BY <2>1, <1>w DEF ToldRec
  <2>3. CASE Mails("mailApproved", "markApproved", m) BY <1>12, <1>s, <1>r, <2>2, <2>3
  <2>4. CASE Marks("markApproved", "store-hq-notified", "end") BY <1>11, <1>s, <2>4
  <2> QED BY <1>15, <2>1, <2>3, <2>4 DEF Approved
<1>16. CASE Quoted
  <2>1. CASE MakeLink
    <3>1. wanted # None BY <1>d, <2>1, MakeLinkIs DEF QuotePc
    <3> QED BY <1>w, <1>r, <2>1, <3>1, MakeLinkIs, OrderedKept
  <2>2. CASE Mails("mailQuote", "markQuoted", [told EXCEPT !.quote = chain.price])
    <3>1. Running BY <2>2 DEF Mails, Running
    <3>2. PICK m \in ToldRec : m = [told EXCEPT !.quote = chain.price] BY <3>1, MailedTypes
    <3>3. chain.price # None BY <3>1, PassRec, MoneyIsNat DEF ChainRec
    <3>4. m.received = told.received /\ m.ready = told.ready /\ m.quote # None /\ m.ask = told.ask
      BY <3>2, <3>3, <1>w DEF ToldRec
    <3>5. Mails("mailQuote", "markQuoted", m) BY <2>2, <3>2
    <3> QED BY <1>12, <1>s, <1>r, <3>4, <3>5
  <2>3. CASE Marks("markQuoted", "estimate-sent", "end") BY <1>11, <1>s, <2>3
  <2> QED BY <1>16, <2>1, <2>2, <2>3 DEF Quoted
<1>17. CASE Ready
  <2>1. CASE ReadFields
    <3>2. wanted = None => fields.paid = 0 BY DEF Ordered
    <3>3. fields.paid = 0 => chain'.ask.mode # "balance" BY <2>1, ReadFieldsIs DEF Completion
    <3> QED BY <1>d, <1>s, <2>1, <3>2, <3>3, ReadFieldsIs, OrderedUntold
  <2>2. CASE MakeBalanceLink
    <3>1. wanted # None BY <1>d, <2>2, MakeBalanceLinkIs
    <3> QED BY <1>w, <1>r, <2>2, <3>1, MakeBalanceLinkIs, OrderedKept
  <2>3. CASE Mails("mailReady", "markReady",
                   [told EXCEPT !.ready = @ + 1,
                                !.ask = [mode |-> chain.ask.mode, amount |-> chain.ask.amount, got |-> money.got]])
    <3>1. PICK m : m = [told EXCEPT !.ready = @ + 1,
                                    !.ask = [mode |-> chain.ask.mode, amount |-> chain.ask.amount, got |-> money.got]]
      OBVIOUS
    <3>2. Mails("mailReady", "markReady", m) BY <2>3, <3>1
    <3>3. m \in ToldRec BY <3>2, <1>w DEF Mails
    <3>4. m.received = told.received /\ m.ready = told.ready + 1 /\ m.quote = told.quote
      BY <3>1, <1>w DEF ToldRec
    <3> QED BY <1>12, <1>s, <1>r, <3>2, <3>3, <3>4
  <2>4. CASE Marks("markReady", "completion-notified", "serial") BY <1>11, <1>s, <2>4
  <2>5. CASE MintService BY <1>d, <1>s, <2>5, MintServiceIs, OrderedUntold
  <2> QED BY <1>17, <2>1, <2>2, <2>3, <2>4, <2>5 DEF Ready
<1>18. CASE PassFails
  <2>1. wanted = None => ~QuoteDue(chain.tags)
    BY <1>18, <1>d, PassFailsIs DEF QuoteDue, Unquoted, Quoting
  <2>3. chain' = Idle => ~Running' BY DEF Running, Idle
  <2> QED BY <1>18, <1>d, <2>1, <2>3, PassFailsIs, OrderedUntold DEF ghosts
<1>19. CASE GateFails
  <2>1. "missing-order-ref" \in Hold /\ Hold \cap Quoting = {} BY DEF Hold, Quoting
  <2> QED BY <1>19, <1>d, <1>s, <1>v, <2>1, GateFailsIs, HoldForIs, OrderedUntold DEF ghosts
<1> QED BY <1>1, <1>2, <1>3, <1>4, <1>5, <1>6, <1>7, <1>8, <1>9, <1>10, <1>13, <1>14, <1>15, <1>16, <1>17,
           <1>18, <1>19
    DEF PassStep

LEMMA OrderedStaff == TypeInv /\ TypeInv' /\ Ordered /\ Staffs => Ordered'
<1> SUFFICES ASSUME TypeInv, TypeInv', Ordered, Staffs PROVE Ordered' OBVIOUS
<1>1. /\ UNCHANGED <<fields, chain, req, links, calls, told, wanted>>
      /\ wanted = None => draft'.tags \cap Quoting = {}
  <2>1. CASE FillReference BY <2>1, FillIs DEF Ordered
  <2>2. ASSUME NEW tag \in Class \cup {"outside", "resync"}, StaffTag(tag)
        PROVE  /\ UNCHANGED <<fields, chain, req, links, calls, told, wanted>>
               /\ wanted = None => draft'.tags \cap Quoting = {}
    <3>1. draft'.tags = draft.tags \cup {tag} /\ UNCHANGED <<fields, chain, req, links, calls, told, wanted>>
      BY <2>2, StaffTagIs DEF TagsAre
    <3>2. tag \notin Quoting BY DEF Class, Quoting
    <3> QED BY <3>1, <3>2 DEF Ordered
  <2> QED BY <2>1, <2>2 DEF Staffs
<1> QED BY <1>1 DEF Ordered, Running, Busy

\* A request that started, read, or wrote: its own slot.
LEMMA OrderedRequest ==
  ASSUME TypeInv, TypeInv', Ordered, NEW s \in Slot,
         UNCHANGED <<chain, links, told>>, \A q \in Slot \ {s} : req'[q] = req[q],
         calls' \subseteq calls, wanted = None => fields'.paid = 0 /\ draft'.tags \cap Quoting = {},
         wanted' # wanted => told.received > 0 /\ wanted' # None,
         Busy(s)' => /\ wanted = None => req'[s].tags \cap Quoting = {} /\ req'[s].job # "pay"
                     /\ req'[s].job = "estimate" => told.received > 0
                     /\ req'[s].job = "approve" => told.quote # None
                     /\ req'[s].job = "refund" => told.ready > 0
  PROVE  Ordered'
<1>1. \A q \in Slot : Busy(q)' =>
            /\ wanted = None => req'[q].tags \cap Quoting = {} /\ req'[q].job # "pay"
            /\ req'[q].job = "estimate" => told.received > 0
            /\ req'[q].job = "approve" => told.quote # None
            /\ req'[q].job = "refund" => told.ready > 0
  BY DEF Ordered, Busy
<1>2. wanted' = None => wanted = None OBVIOUS
<1>3. Running' <=> Running BY DEF Running
<1> QED BY <1>1, <1>2, <1>3 DEF Ordered

LEMMA OrderedPost == \A s \in Slot : TypeInv /\ TypeInv' /\ Ordered /\ Posts(s) => Ordered'
<1> SUFFICES ASSUME NEW s \in Slot, TypeInv, TypeInv', Ordered, Posts(s) PROVE Ordered' OBVIOUS
<1>1. PICK task \in Job, amount \in Nat \cup {None}, extra \in BOOLEAN :
            /\ Post(s, task, amount, extra)
            /\ task # "pay"
            /\ task = "estimate" => \E a \in Amount \cup {0} : amount = a /\ PostEstimate(s, a)
            /\ task = "approve" => PostApprove(s)
            /\ task = "refund" => ClickRefund(s)
  BY PostIs
<1>2. task = "estimate" => told.received > 0 BY <1>1 DEF PostEstimate
<1>3. task = "approve" => told.quote # None BY <1>1 DEF PostApprove
<1>4. task = "refund" => told.ready > 0 BY <1>1 DEF ClickRefund, Ordered
<1>5. Start(s, task, amount, extra) /\ calls' = calls BY <1>1 DEF Post
<1>6. /\ req'[s].job = task /\ req'[s].tags = {} /\ \A q \in Slot \ {s} : req'[q] = req[q]
      /\ UNCHANGED <<draft, fields, chain, links, told, wanted>>
  <2>1. UNCHANGED <<draft, fields, chain, links, told, wanted>> BY <1>5 DEF Start, ghosts
  <2> QED BY <1>5, <2>1, Starts
<1>7. wanted = None => fields'.paid = 0 /\ draft'.tags \cap Quoting = {} BY <1>6 DEF Ordered
<1> QED BY <1>1, <1>2, <1>3, <1>4, <1>5, <1>6, <1>7, OrderedRequest

LEMMA OrderedNotified == \A s \in Slot : TypeInv /\ TypeInv' /\ Ordered /\ (\E n \in calls : Notified(s, n)) => Ordered'
<1> SUFFICES ASSUME NEW s \in Slot, TypeInv, TypeInv', Ordered, \E n \in calls : Notified(s, n) PROVE Ordered'
  OBVIOUS
<1>1. Start(s, "pay", 0, FALSE) /\ calls' \subseteq calls /\ calls # {} BY NotifiedIs
<1>2. "pay" \in Job BY DEF Job
<1>3. /\ req'[s].job = "pay" /\ req'[s].tags = {} /\ \A q \in Slot \ {s} : req'[q] = req[q]
      /\ UNCHANGED <<draft, fields, chain, links, told, wanted>>
  <2>1. UNCHANGED <<draft, fields, chain, links, told, wanted>> BY <1>1 DEF Start, ghosts
  <2> QED BY <1>1, <1>2, <2>1, Starts
<1>4. wanted # None BY <1>1 DEF Ordered
<1> QED BY <1>1, <1>3, <1>4, OrderedRequest

\* What each step of a request changes.
LEMMA WriteFinalIs ==
  ASSUME TypeInv, NEW s \in Slot, WriteFinal(s)
  PROVE  /\ Busy(s) /\ req[s] \in ReqRec /\ req[s].pc = "final" /\ req[s].job = "complete"
         /\ fields'.paid = fields.paid
         /\ fields'.final = (IF req[s].amount = None THEN fields.final ELSE req[s].amount)
         /\ \A q \in Slot \ {s} : req'[q] = req[q]
         /\ req'[s] \in ReqRec /\ Busy(s)' /\ req'[s].job = req[s].job /\ req'[s].amount = req[s].amount
         /\ req'[s].pc = (IF req[s].extra THEN "specs" ELSE "put") /\ req'[s].extra = req[s].extra
         /\ req'[s].tags = req[s].tags /\ req'[s].price = req[s].price /\ req'[s].item = req[s].item
         /\ UNCHANGED <<case, draft, known, due, chain, links, calls, serials, told, money, wanted, events>>
<1>1. Busy(s) /\ req[s].pc = "final" BY DEF WriteFinal, Busy
<1>2. req[s] \in ReqRec /\ req[s].job = "complete" BY <1>1, RequestRec DEF JobOK
<1>3. PICK at \in ReqPc : at = IF req[s].extra THEN "specs" ELSE "put" BY DEF ReqPc
<1>4. Proceed(s, at) BY <1>3 DEF WriteFinal
<1>5. PICK a : a = req[s].amount OBVIOUS
<1>6. fields' = IF a = None THEN fields ELSE [fields EXCEPT !.final = a] BY <1>5 DEF WriteFinal
<1>7. fields'.paid = fields.paid /\ fields'.final = (IF a = None THEN fields.final ELSE a)
  BY <1>6 DEF TypeInv
<1> QED BY <1>1, <1>2, <1>3, <1>4, <1>5, <1>7, Proceeds DEF WriteFinal, ghosts

LEMMA WriteSpecsIs ==
  ASSUME TypeInv, NEW s \in Slot, WriteSpecs(s)
  PROVE  /\ Busy(s) /\ req[s] \in ReqRec /\ req[s].pc = "specs" /\ req[s].job = "complete" /\ req[s].extra
         /\ LineIs(req[s].price, req[s].item) /\ due' <= due + 1
         /\ \A q \in Slot \ {s} : req'[q] = req[q]
         /\ req'[s] \in ReqRec /\ Busy(s)' /\ req'[s].job = req[s].job /\ req'[s].amount = req[s].amount
         /\ req'[s].pc = "put" /\ req'[s].extra = req[s].extra
         /\ req'[s].tags = req[s].tags /\ req'[s].price = req[s].price /\ req'[s].item = req[s].item
         /\ UNCHANGED <<case, known, fields, chain, links, calls, serials, told, money, wanted, events>>
<1>1. Busy(s) /\ req[s].pc = "specs" BY DEF WriteSpecs, Busy
<1>2. req[s] \in ReqRec /\ req[s].job = "complete" /\ req[s].extra BY <1>1, RequestRec DEF JobOK
<1>3. Proceed(s, "put") /\ "put" \in ReqPc BY DEF WriteSpecs, ReqPc
<1>4. PICK p \in Money, i \in BOOLEAN : p = req[s].price /\ i = req[s].item BY <1>2 DEF ReqRec
<1>5. PutLine(p, i) BY <1>4 DEF WriteSpecs
<1>6. MaxDue \in Nat BY RepairAssumption
<1>7. LineIs(p, i) /\ due' <= due + 1 BY <1>5, <1>6, LinePut DEF LineIs, Asked
<1> QED BY <1>1, <1>2, <1>3, <1>4, <1>7, Proceeds DEF WriteSpecs, ghosts

LEMMA ReadDeltaIs ==
  ASSUME TypeInv, NEW s \in Slot, ReadDelta(s)
  PROVE  /\ Busy(s) /\ req[s] \in ReqRec /\ req[s].pc = "delta" /\ req[s].job = "refund"
         /\ \A q \in Slot \ {s} : req'[q] = req[q]
         /\ \/ ~Busy(s)'
            \/ /\ req'[s] \in ReqRec /\ Busy(s)' /\ req'[s].job = req[s].job /\ req'[s].pc = "voucher"
               /\ req'[s].amount = fields.paid - (IF fields.final = None THEN 0 ELSE fields.final)
               /\ req'[s].extra = req[s].extra
               /\ req'[s].tags = req[s].tags /\ req'[s].price = req[s].price /\ req'[s].item = req[s].item
         /\ UNCHANGED <<case, draft, known, fields, due, chain, links, calls, serials, told, money, wanted, events>>
<1>1. /\ Busy(s) /\ req[s].pc = "delta"
      /\ UNCHANGED <<case, draft, known, fields, due, chain, links, calls, serials, told, money, wanted, events>>
  BY DEF ReadDelta, Busy, ghosts
<1>2. req[s] \in ReqRec /\ req[s].job = "refund" BY <1>1, RequestRec DEF JobOK
<1>3. PICK delta : delta = fields.paid - (IF fields.final = None THEN 0 ELSE fields.final) OBVIOUS
<1>4. CASE ~(delta > 0)
  <2>1. Done(s) BY <1>3, <1>4 DEF ReadDelta
  <2> QED BY <1>1, <1>2, <2>1, Finishes
<1>5. CASE delta > 0
  <2>1. PICK r : r = [req[s] EXCEPT !.pc = "voucher", !.amount = delta] OBVIOUS
  <2>2. /\ r.pc = "voucher" /\ r.amount = delta /\ r.job = req[s].job /\ r.extra = req[s].extra
        /\ r.tags = req[s].tags /\ r.price = req[s].price /\ r.item = req[s].item
    BY <1>2, <2>1 DEF ReqRec
  <2>3. req' = [req EXCEPT ![s] = r]
    <3>1. req' = [req EXCEPT ![s].pc = "voucher", ![s].amount = delta] BY <1>3, <1>5 DEF ReadDelta
    <3> QED BY <1>2, <2>1, <3>1 DEF TypeInv, ReqRec
  <2>4. req'[s] = r /\ \A q \in Slot \ {s} : req'[q] = req[q] BY <2>3 DEF TypeInv
  <2>5. Busy(s)' BY <2>2, <2>4 DEF Busy
  <2>6. delta \in Nat
    <3>1. fields.paid \in Nat /\ (fields.final = None \/ fields.final \in Nat) BY MoneyIsNat DEF TypeInv
    <3> QED BY <1>3, <1>5, <3>1
  <2>7. r \in ReqRec BY <1>2, <2>1, <2>6 DEF ReqRec, ReqPc
  <2> QED BY <1>1, <1>2, <1>3, <2>2, <2>4, <2>5, <2>7
<1> QED BY <1>4, <1>5

LEMMA IssueVoucherIs ==
  ASSUME TypeInv, NEW s \in Slot, IssueVoucher(s)
  PROVE  /\ Busy(s) /\ req[s] \in ReqRec /\ req[s].pc = "voucher" /\ req[s].job = "refund"
         /\ req[s].amount \in Nat
         /\ money'.got = money.got /\ money'.back = money.back + req[s].amount
         /\ money'.vouchers = money.vouchers + 1
         /\ \A q \in Slot \ {s} : req'[q] = req[q]
         /\ req'[s] \in ReqRec /\ Busy(s)' /\ req'[s].job = req[s].job /\ req'[s].pc = "put"
         /\ req'[s].amount = req[s].amount /\ req'[s].extra = req[s].extra
         /\ req'[s].tags = req[s].tags /\ req'[s].price = req[s].price /\ req'[s].item = req[s].item
         /\ UNCHANGED <<case, draft, known, fields, due, chain, links, calls, serials, told, wanted, events>>
<1>1. Busy(s) /\ req[s].pc = "voucher" /\ Vouched(s) BY DEF IssueVoucher, Busy, Vouched
<1>2. req[s] \in ReqRec BY <1>1, RequestRec
<1>3. Proceed(s, "put") /\ "put" \in ReqPc BY DEF IssueVoucher, ReqPc
<1> QED BY <1>1, <1>2, <1>3, VoucherIs, Proceeds DEF IssueVoucher

LEMMA WritePaidIs ==
  ASSUME TypeInv, NEW s \in Slot, WritePaid(s)
  PROVE  /\ Busy(s) /\ req[s] \in ReqRec /\ req[s].pc = "paid" /\ req[s].job = "pay"
         /\ fields'.paid = req[s].price /\ fields'.final = fields.final
         /\ \A q \in Slot \ {s} : req'[q] = req[q]
         /\ ~Busy(s)'
         /\ UNCHANGED <<case, draft, known, due, chain, links, calls, serials, told, money, wanted, events>>
<1>1. Busy(s) /\ req[s].pc = "paid" /\ Done(s) BY DEF WritePaid, Busy
<1>2. req[s] \in ReqRec /\ req[s].job = "pay" BY <1>1, RequestRec DEF JobOK
<1>3. PICK p : p = req[s].price OBVIOUS
<1>4. fields' = [fields EXCEPT !.paid = p] BY <1>3 DEF WritePaid
<1>5. fields'.paid = p /\ fields'.final = fields.final BY <1>4 DEF TypeInv
<1> QED BY <1>1, <1>2, <1>3, <1>5, Finishes DEF WritePaid, ghosts

LEMMA OrderedReq == \A s \in Slot : TypeInv /\ TypeInv' /\ Ordered /\ (ReqStep(s) \/ ReqFails(s)) => Ordered'
<1> SUFFICES ASSUME NEW s \in Slot, TypeInv, TypeInv', Ordered, ReqStep(s) \/ ReqFails(s) PROVE Ordered'
  OBVIOUS
<1>0. /\ wanted = None => fields.paid = 0 /\ draft.tags \cap Quoting = {}
      /\ Busy(s) => /\ wanted = None => req[s].tags \cap Quoting = {} /\ req[s].job # "pay"
                    /\ req[s].job = "estimate" => told.received > 0
                    /\ req[s].job = "approve" => told.quote # None
                    /\ req[s].job = "refund" => told.ready > 0
  BY DEF Ordered
<1>1. CASE Read(s) BY <1>0, <1>1, Reads, OrderedRequest DEF ghosts
<1>2. CASE WriteFinal(s) BY <1>0, <1>2, WriteFinalIs, OrderedRequest
<1>3. CASE WriteSpecs(s)
  <2>1. draft'.tags = draft.tags BY <1>3, WriteSpecsIs DEF LineIs
  <2> QED BY <1>0, <1>3, <2>1, WriteSpecsIs, OrderedRequest
<1>4. CASE ReadDelta(s) BY <1>0, <1>4, ReadDeltaIs, OrderedRequest
<1>5. CASE IssueVoucher(s) BY <1>0, <1>5, IssueVoucherIs, OrderedRequest
<1>6. CASE Put(s)
  <2>1. PICK r \in ReqRec : r = req[s] BY <1>6, Puts
  <2>2. /\ draft'.tags = NewTags(r) /\ Busy(s)
        /\ wanted' = (IF r.job = "estimate" THEN r.amount ELSE wanted)
        /\ UNCHANGED <<fields, chain, links, calls, told>> /\ \A q \in Slot \ {s} : req'[q] = req[q]
        /\ r.job # "pay" => ~Busy(s)'
        /\ r.job = "pay" => req'[s].job = "pay"
    BY <1>6, <2>1, Puts
  <2>3. r.job = "estimate" => r.amount # None /\ told.received > 0
    BY <1>0, <2>1, <2>2, RequestRec, MoneyIsNat DEF JobOK
  <2>4. wanted = None => r.job # "pay" /\ r.tags \cap Quoting = {} BY <1>0, <2>1, <2>2
  <2>5. CASE r.job = "estimate"
    <3>1. wanted' # None /\ told.received > 0 BY <2>2, <2>3, <2>5
    <3>2. UNCHANGED <<links, told, chain, calls>> BY <2>2
    <3>3. \A q \in Slot : Busy(q)' => Busy(q) /\ req'[q] = req[q] BY <2>2, <2>5 DEF Busy
    <3> QED BY <3>1, <3>2, <3>3 DEF Ordered
  <2>6. CASE r.job # "estimate"
    <3>1. wanted = None => NewTags(r) \cap Quoting = {}
      <4> SUFFICES ASSUME wanted = None PROVE NewTags(r) \cap Quoting = {} OBVIOUS
      <4>1. r.job \in Job BY DEF ReqRec
      <4>2. NewTags(r) \subseteq r.tags \cup {"complete", "store-approved", "refund-requested", "outside"} \cup Class
        BY <2>4, <2>6, <4>1 DEF NewTags, Job, Class
      <4>3. ({"complete", "store-approved", "refund-requested", "outside"} \cup Class) \cap Quoting = {}
        BY DEF Class, Quoting
      <4> QED BY <2>4, <4>2, <4>3
    <3>2. wanted' = wanted BY <2>2, <2>6
    <3>3. calls' \subseteq calls /\ (wanted = None => fields'.paid = 0 /\ draft'.tags \cap Quoting = {})
      BY <1>0, <2>2, <3>1
    <3>4. Busy(s)' => r.job = "pay" /\ wanted # None /\ req'[s].job = "pay" BY <2>2, <2>4
    <3> QED BY <2>2, <3>2, <3>3, <3>4, OrderedRequest
  <2> QED BY <2>5, <2>6
<1>7. CASE WritePaid(s)
  <2>1. wanted # None BY <1>0, <1>7, WritePaidIs
  <2> QED BY <1>7, <2>1, WritePaidIs, OrderedRequest
<1>8. CASE ReqFails(s) BY <1>0, <1>8, ReqFailsIs, OrderedRequest
<1> QED BY <1>1, <1>2, <1>3, <1>4, <1>5, <1>6, <1>7, <1>8 DEF ReqStep

LEMMA NextOrdered == TypeInv /\ TypeInv' /\ Ordered /\ [Next]_vars => Ordered'
<1> SUFFICES ASSUME TypeInv, TypeInv', Ordered, [Next]_vars PROVE Ordered' OBVIOUS
<1>1. CASE Deliver \/ PassStep \/ PassFails \/ GateFails BY <1>1, OrderedPass
<1>2. CASE Staffs BY <1>2, OrderedStaff
<1>3. CASE \E s \in Slot : Requested(s)
  BY <1>3, OrderedPost, OrderedNotified, OrderedReq DEF Requested
<1>4. ASSUME NEW l \in links, PayLink(l) PROVE Ordered'
  <2>1. wanted # None BY <1>4 DEF Ordered
  <2>2. UNCHANGED <<draft, fields, chain, req, told, wanted>> BY <1>4, PayIs
  <2> QED BY <2>1, <2>2 DEF Ordered, Busy
<1>5. CASE Restart BY <1>5, RestartIs DEF Ordered, ghosts
<1>6. CASE UNCHANGED vars BY <1>6 DEF vars, ghosts, Ordered, Running, Busy
<1> QED BY <1>1, <1>2, <1>3, <1>4, <1>5, <1>6, Steps

LEMMA InitOrdered == Init => Ordered
  BY DEF Init, Ordered, Running, Busy, Idle

--------------------
(* Requests do not overlap *)

LEMMA Prompts ==
  ASSUME ~Allowed("overlap"), Prompt
  PROVE  Settled
  BY DEF Prompt, Quiet

\* A step outside the requests, while a pass or a webhook is under way.
LEMMA ApartUntouched ==
  ASSUME Apart, ~Alone, req' = req
  PROVE  Apart'
  BY DEF Apart, Busy, Overlaps

LEMMA PassApart == TypeInv /\ (Deliver \/ PassStep \/ PassFails \/ GateFails) => ~Alone /\ UNCHANGED <<case, req>>
<1> SUFFICES ASSUME TypeInv, Deliver \/ PassStep \/ PassFails \/ GateFails PROVE ~Alone /\ UNCHANGED <<case, req>>
  OBVIOUS
<1>1. CASE Deliver BY <1>1, DeliverIs DEF Alone, Elsewhere
<1>2. CASE PassFails \/ GateFails BY <1>2, PassFailsIs, GateFailsIs DEF Alone
<1>3. ASSUME NEW step, step # "idle", NEW next, NEW mailed, Mails(step, next, mailed)
      PROVE  ~Alone /\ UNCHANGED <<case, req>>
  BY <1>3 DEF Mails, Alone, Running
<1>4. ASSUME NEW step, step # "idle", NEW next, NEW tag, Marks(step, tag, next)
      PROVE  ~Alone /\ UNCHANGED <<case, req>>
  BY <1>4 DEF Marks, Alone, Running
<1>5. CASE EndPass \/ Fetch \/ Copy \/ Zero \/ Reread \/ Resync \/ Resynced \/ Gate \/ Unhold
  BY <1>5 DEF EndPass, Fetch, Copy, Zero, Reread, Resync, Resynced, Gate, Unhold, Alone, Running
<1>6. CASE Recopy \/ MakeLink \/ ReadFields \/ MakeBalanceLink \/ MintService
  BY <1>6 DEF Recopy, MakeLink, ReadFields, MakeBalanceLink, MintService, Alone, Running
<1>7. CASE Received BY <1>3, <1>4, <1>7 DEF Received
<1>8. CASE MadeFree BY <1>3, <1>4, <1>6, <1>8 DEF MadeFree
<1>9. CASE Approved BY <1>3, <1>4, <1>9 DEF Approved
<1>10. CASE Quoted BY <1>3, <1>4, <1>6, <1>10 DEF Quoted
<1>11. CASE Ready BY <1>3, <1>4, <1>6, <1>11 DEF Ready
<1> QED BY <1>1, <1>2, <1>5, <1>7, <1>8, <1>9, <1>10, <1>11 DEF PassStep

LEMMA Alike ==
  ASSUME Apart, UNCHANGED <<draft, due, chain, req>>
  PROVE  Apart'
  BY DEF Apart, Busy, Overlaps, Alone, Running

\* A request starts alone, in the first slot.
LEMMA StartsAlone ==
  ASSUME TypeInv, ~Allowed("overlap"), NEW s \in Slot, NEW task \in Job, NEW amount \in Nat \cup {None},
         NEW extra \in BOOLEAN, Start(s, task, amount, extra), Settled
  PROVE  /\ s = "a" /\ Alone /\ Alone' /\ ~Busy("b")' /\ ~Busy("a") /\ ~Busy("b")
         /\ req'["a"].pc = "read" /\ req'["a"].job = task /\ req'["a"].amount = amount
         /\ Busy("a")' /\ req'["a"].extra = extra
<1>1. Alone /\ ~Busy("a") /\ ~Busy("b") BY DEF Settled, Alone, Slot
<1>2. s = "a" BY <1>1, Starts DEF CanStart
<1>3. Alone' BY <1>1 DEF Start, Alone, Running
<1>4. req'["b"] = req["b"] BY <1>2, Starts DEF Slot
<1> QED BY <1>1, <1>2, <1>3, <1>4, Starts DEF Busy

LEMMA PostApart ==
  ASSUME TypeInv, ~Allowed("overlap"), NEW s \in Slot, Posts(s) \/ (\E n \in calls : Notified(s, n))
  PROVE  \E task \in Job, amount \in Nat \cup {None}, extra \in BOOLEAN :
           Start(s, task, amount, extra) /\ Settled
<1>1. CASE Posts(s)
  <2>1. PICK task \in Job, amount \in Nat \cup {None}, extra \in BOOLEAN : Post(s, task, amount, extra)
    BY <1>1, PostIs
  <2> QED BY <2>1, Prompts DEF Post
<1>2. CASE \E n \in calls : Notified(s, n)
  <2>1. Start(s, "pay", 0, FALSE) /\ Settled BY <1>2, NotifiedIs
  <2>2. "pay" \in Job BY DEF Job
  <2> QED BY <2>1, <2>2
<1> QED BY <1>1, <1>2

LEMMA NextApart ==
  ASSUME TypeInv, TypeInv', Apart, ~Allowed("overlap"), [Next]_vars
  PROVE  Apart'
<1>1. CASE Deliver \/ PassStep \/ PassFails \/ GateFails BY <1>1, PassApart, ApartUntouched
<1>2. CASE Staffs
  <2>1. Settled /\ req' = req BY <1>2, StaffTagIs, FillIs, Prompts DEF Staffs
  <2>2. ~Busy("a")' /\ ~Busy("b")' BY <2>1 DEF Settled, Busy, Slot
  <2> QED BY <2>2 DEF Apart
<1>3. ASSUME NEW s \in Slot, Posts(s) \/ (\E n \in calls : Notified(s, n)) PROVE Apart'
  <2>1. PICK task \in Job, amount \in Nat \cup {None}, extra \in BOOLEAN :
           Start(s, task, amount, extra) /\ Settled
    BY <1>3, PostApart
  <2> QED BY <2>1, StartsAlone DEF Apart, Overlaps
<1>4. ASSUME NEW s \in Slot, ReqStep(s) \/ ReqFails(s) PROVE Apart'
  <2>1. s = "a"
    <3>1. Busy(s)
      BY <1>4, Reads, WriteFinalIs, WriteSpecsIs, ReadDeltaIs, IssueVoucherIs, Puts, WritePaidIs, ReqFailsIs DEF ReqStep
    <3> QED BY <3>1 DEF Apart, Slot
  <2>2. ASSUME \A q \in Slot \ {s} : req'[q] = req[q], ~Busy(s)' PROVE Apart'
    BY <2>1, <2>2 DEF Apart, Slot, Busy
  <2>3. ASSUME \A q \in Slot \ {s} : req'[q] = req[q], Busy("a")',
               Overlaps(req'["a"]) \/ (Alone' /\ req'["a"].tags = draft'.tags /\ req'["a"].price = draft'.price
                                        /\ req'["a"].item = draft'.item)
        PROVE Apart'
    BY <2>1, <2>3 DEF Apart, Slot, Busy
  <2>4. ~Overlaps(req["a"]) => Alone BY <1>4, <2>1 DEF Apart, ReqStep, Read, WriteFinal, WriteSpecs, ReadDelta, IssueVoucher, Put, WritePaid, ReqFails, Busy
  <2>5. Busy("a") /\ req["a"].pc \notin {"read", "paid"} /\ ~Overlaps(req["a"]) =>
            req["a"].tags = draft.tags /\ req["a"].price = draft.price /\ req["a"].item = draft.item
    BY DEF Apart
  <2>6. ASSUME UNCHANGED <<due, chain>> PROVE Alone' <=> Alone BY <2>6 DEF Alone, Running
  <2>7. CASE Read(s)
    <3>1. Alone BY <2>1, <2>4, <2>7, Reads DEF Overlaps
    <3> QED BY <2>1, <2>2, <2>3, <2>6, <2>7, <3>1, Reads
  <2>8. CASE WriteFinal(s)
    <3>1. Alone BY <2>1, <2>4, <2>8, WriteFinalIs DEF Overlaps
    <3>2. req["a"].tags = draft.tags /\ req["a"].price = draft.price /\ req["a"].item = draft.item
      BY <2>1, <2>5, <2>8, WriteFinalIs DEF Overlaps
    <3> QED BY <2>1, <2>3, <2>6, <2>8, <3>1, <3>2, WriteFinalIs
  <2>9. CASE WriteSpecs(s) BY <2>1, <2>3, <2>9, WriteSpecsIs DEF Overlaps
  <2>10. CASE ReadDelta(s)
    <3>1. Alone BY <2>1, <2>4, <2>10, ReadDeltaIs DEF Overlaps
    <3>2. req["a"].tags = draft.tags /\ req["a"].price = draft.price /\ req["a"].item = draft.item
      BY <2>1, <2>5, <2>10, ReadDeltaIs DEF Overlaps
    <3> QED BY <2>1, <2>2, <2>3, <2>6, <2>10, <3>1, <3>2, ReadDeltaIs
  <2>11. CASE IssueVoucher(s)
    <3>1. Alone BY <2>1, <2>4, <2>11, IssueVoucherIs DEF Overlaps
    <3>2. req["a"].tags = draft.tags /\ req["a"].price = draft.price /\ req["a"].item = draft.item
      BY <2>1, <2>5, <2>11, IssueVoucherIs DEF Overlaps
    <3> QED BY <2>1, <2>3, <2>6, <2>11, <3>1, <3>2, IssueVoucherIs
  <2>12. CASE Put(s) BY <2>1, <2>2, <2>3, <2>12, Puts DEF Overlaps
  <2>13. CASE WritePaid(s) BY <2>2, <2>13, WritePaidIs
  <2>14. CASE ReqFails(s)
    <3>1. CASE ~Busy(s)' BY <2>2, <2>14, <3>1, ReqFailsIs
    <3>2. CASE Busy(s)'
      <4>1. Alone BY <2>1, <2>4, <2>14, <3>2, ReqFailsIs DEF Overlaps
      <4>2. req["a"].tags = draft.tags /\ req["a"].price = draft.price /\ req["a"].item = draft.item
        BY <2>1, <2>5, <2>14, <3>2, ReqFailsIs DEF Overlaps
      <4> QED BY <2>1, <2>3, <2>6, <2>14, <3>2, <4>1, <4>2, ReqFailsIs
    <3> QED BY <3>1, <3>2
  <2> QED BY <1>4, <2>7, <2>8, <2>9, <2>10, <2>11, <2>12, <2>13, <2>14 DEF ReqStep
<1>5. CASE \E l \in links : PayLink(l) BY <1>5, PayIs, Alike
<1>6. CASE Restart BY <1>6, RestartIs DEF Apart, Slot
<1>7. CASE UNCHANGED vars BY <1>7, Alike DEF vars
<1> QED BY <1>1, <1>2, <1>3, <1>4, <1>5, <1>6, <1>7, Steps DEF Requested

LEMMA InitApart == Init => Apart
<1> SUFFICES ASSUME Init PROVE Apart OBVIOUS
<1>1. req = [s \in Slot |-> Idle] /\ "a" \in Slot /\ "b" \in Slot BY DEF Init, Slot
<1>2. req["a"] = Idle /\ req["b"] = Idle BY <1>1
<1>3. ~Busy("a") /\ ~Busy("b") BY <1>2 DEF Busy, Idle
<1> QED BY <1>3 DEF Apart

--------------------
(* What is recorded was paid *)

\* The facts of Afforded, the links taken one by one.
Under(p) == \A l \in links : l.kind = "estimate" /\ l.amount > 0 => p <= l.amount

LEMMA AffordedIs ==
  Afforded <=>
    /\ Charged => draft.price <= money.got /\ (Running => chain.price <= money.got)
    /\ Paying("a") /\ req["a"].pc # "read" => req["a"].price <= money.got
    /\ fields.paid <= money.got
    /\ Under(draft.price) /\ (Running => Under(chain.price))
    /\ Running => draft.price \in {chain.price, 0}
    /\ Busy("a") /\ req["a"].job = "estimate" => wanted = None \/ req["a"].amount = 0
  BY DEF Afforded, Under

\* The links, payments and requests stay, and a price is no higher than one
\* that was on the draft or with the pass.
LEMMA AffordedPass ==
  ASSUME TypeInv, Afforded, UNCHANGED <<fields, req, calls, money, wanted>>,
         draft'.price \in Money,
         links' = links \/ (\E l : links' = links \cup {l} /\ l.kind = "estimate" /\ l.amount = chain.price /\ Running)
                        \/ ((\E l : links' = links \cup {l} /\ l.kind = "balance") /\ Charged),
         draft'.price \in {draft.price, 0} \/ (Running /\ draft'.price = chain.price),
         Running' => /\ chain'.price = draft.price \/ (Running /\ chain'.price = chain.price)
                     /\ draft'.price \in {chain'.price, 0}
                     /\ chain'.pc = "balance" => Charged
  PROVE  Afforded'
<1>1. /\ draft.price \in Nat /\ draft'.price \in Nat /\ money.got \in Nat /\ fields.paid \in Nat
      /\ (Running => chain.price \in Nat)
  BY MoneyIsNat, PassRec DEF TypeInv, DraftRec, ChainRec
<1>2. Charged' => Charged
  <2>1. (\E l \in links' : l.kind = "balance") => (\E l \in links : l.kind = "balance") \/ Charged OBVIOUS
  <2>2. Running' /\ chain'.pc = "balance" => Charged OBVIOUS
  <2>3. Paying("a")' => Paying("a") BY DEF Paying, Busy
  <2> QED BY <2>1, <2>2, <2>3 DEF Charged
<1>3. Charged => draft'.price <= money.got /\ (Running' => chain'.price <= money.got)
  BY <1>1, AffordedIs
<1>4. \A l \in links' : l.kind = "estimate" /\ l.amount > 0 =>
          draft'.price <= l.amount /\ (Running' => chain'.price <= l.amount)
  <2> TAKE l \in links'
  <2> SUFFICES ASSUME l.kind = "estimate", l.amount > 0
               PROVE  draft'.price <= l.amount /\ (Running' => chain'.price <= l.amount)
    OBVIOUS
  <2>1. CASE l \in links
    <3>1. draft.price <= l.amount /\ (Running => chain.price <= l.amount) BY <2>1, AffordedIs DEF Under
    <3>2. l.amount \in Nat BY <2>1 DEF TypeInv, LinkRec
    <3> QED BY <1>1, <3>1, <3>2
  <2>2. CASE l \notin links
    <3>1. l.amount = chain.price /\ Running BY <2>2
    <3>2. draft.price <= chain.price BY <1>1, <3>1, AffordedIs
    <3> QED BY <1>1, <3>1, <3>2
  <2> QED BY <2>1, <2>2
<1>5. Busy("a")' <=> Busy("a") BY DEF Busy
<1>6. Paying("a")' <=> Paying("a") BY <1>5 DEF Paying
<1>7. (Charged => draft.price <= money.got /\ (Running => chain.price <= money.got))'
  BY <1>2, <1>3
<1>8. (\A l \in links : l.kind = "estimate" /\ l.amount > 0 =>
          draft.price <= l.amount /\ (Running => chain.price <= l.amount))'
  BY <1>4
<1>9. (Paying("a") /\ req["a"].pc # "read" => req["a"].price <= money.got)' /\ (fields.paid <= money.got)'
  BY <1>6, AffordedIs
<1>10. (Busy("a") /\ req["a"].job = "estimate" => wanted = None \/ req["a"].amount = 0)'
  BY <1>5, AffordedIs
<1> QED BY <1>7, <1>8, <1>9, <1>10 DEF Afforded

\* What a step of the pass does to prices and links.
LEMMA PassPrices ==
  ASSUME TypeInv, TypeInv', Afforded, Deliver \/ PassStep \/ PassFails \/ GateFails
  PROVE  /\ UNCHANGED <<fields, req, calls, money, wanted>>
         /\ \/ links' = links
            \/ \E l : links' = links \cup {l} /\ l.kind = "estimate" /\ l.amount = chain.price /\ Running
            \/ (\E l : links' = links \cup {l} /\ l.kind = "balance") /\ Charged
         /\ draft'.price \in {draft.price, 0} \/ (Running /\ draft'.price = chain.price)
         /\ Running' => /\ chain'.price = draft.price \/ (Running /\ chain'.price = chain.price)
                        /\ draft'.price \in {chain'.price, 0}
                        /\ chain'.pc = "balance" => Charged
<1> USE DEF Elsewhere, SameCopies, TagsAre, LineIs, Copies, GoesTo, Fresh
<1>a. Running => draft.price \in {chain.price, 0} BY AffordedIs
<1>b. Running /\ chain.pc = "balance" => Charged BY DEF Charged
<1>o. \A t \in SUBSET Tag : Onward(t) # "balance"
  <2> TAKE t \in SUBSET Tag
  <2>1. Onward(t) \in {"resync", "gate", "mailFree", "mailApproved", "link", "fields", "end"} BY OnwardIs
  <2> QED BY <2>1
<1>t. draft.tags \in SUBSET Tag /\ (Running => chain.tags \in SUBSET Tag)
  BY PassRec DEF ChainRec, TypeInv, DraftRec
<1>1. CASE Deliver BY <1>1, <1>a, <1>b, DeliverIs
<1>2. CASE EndPass BY <1>2, <1>a, EndPassIs
<1>3. CASE Fetch BY <1>3, <1>o, <1>t, FetchIs
<1>4. CASE Copy BY <1>4, <1>a, <1>o, <1>t, CopyIs
<1>5. CASE Zero BY <1>5, ZeroIs
<1>6. CASE Reread BY <1>6, <1>o, <1>t, RereadIs
<1>7. CASE Resync BY <1>7, <1>a, ResyncIs
<1>8. CASE Resynced BY <1>8, <1>a, ResyncedIs
<1>9. CASE Gate
  <2>1. /\ Elsewhere /\ Running /\ chain'.price = chain.price /\ chain'.pc \in {"end", "unhold", "mailReceived"}
        /\ draft'.price = draft.price \/ draft'.price = chain.price
    BY <1>9, GateIs
  <2> QED BY <1>a, <2>1
<1>10. CASE Unhold BY <1>10, <1>a, UnholdIs
<1>11. ASSUME NEW step \in ChainPc, NEW tag \in Tag, NEW next \in ChainPc, Marks(step, tag, next), next # "balance"
       PROVE  /\ UNCHANGED <<fields, req, links, calls, money, wanted>>
              /\ draft'.price = draft.price /\ Running /\ chain'.price = chain.price /\ chain'.pc # "balance"
  <2>1. step # "idle" BY DEF ChainPc, GatePc, FreePc, ApprovePc, QuotePc, ReadyPc, AfterPc
  <2> QED BY <1>11, <2>1, MarksIs
<1>12. ASSUME NEW step \in ChainPc, NEW next \in ChainPc, NEW mailed, Mails(step, next, mailed), next # "balance"
       PROVE  /\ UNCHANGED <<fields, req, links, calls, money, wanted>>
              /\ draft'.price = draft.price /\ Running /\ chain'.price = chain.price /\ chain'.pc # "balance"
  <2>1. step # "idle" BY DEF ChainPc, GatePc, FreePc, ApprovePc, QuotePc, ReadyPc, AfterPc
  <2> QED BY <1>12, <2>1, MailsIs
<1>s. /\ {"mailReceived", "markReceived", "mailFree", "markFree", "mailApproved", "markApproved",
          "mailQuote", "markQuoted", "mailReady", "markReady", "end", "recopy", "serial"} \subseteq ChainPc
      /\ {"hq-notified", "free-notified", "store-hq-notified", "estimate-sent", "completion-notified"} \subseteq Tag
  BY DEF ChainPc, GatePc, FreePc, ApprovePc, QuotePc, ReadyPc, AfterPc, Tag
<1>13. CASE Received BY <1>11, <1>12, <1>13, <1>s, <1>a DEF Received
<1>14. CASE MadeFree
  <2>1. CASE Recopy BY <1>a, <2>1, RecopyIs
  <2> QED BY <1>11, <1>12, <1>14, <1>s, <1>a, <2>1 DEF MadeFree
<1>15. CASE Approved BY <1>11, <1>12, <1>15, <1>s, <1>a DEF Approved
<1>16. CASE Quoted
  <2>1. CASE MakeLink BY <1>a, <2>1, MakeLinkIs DEF Links1
  <2> QED BY <1>11, <1>12, <1>16, <1>s, <1>a, <2>1 DEF Quoted
<1>17. CASE Ready
  <2>1. CASE ReadFields
    <3>1. fields.paid \in Nat BY MoneyIsNat DEF TypeInv
    <3>2. fields.paid = 0 => chain'.ask.mode # "balance" BY <2>1, ReadFieldsIs DEF Completion
    <3>3. fields.paid # 0 => Charged BY <3>1 DEF Charged
    <3> QED BY <1>a, <2>1, <3>2, <3>3, ReadFieldsIs
  <2>2. CASE MakeBalanceLink BY <1>a, <1>b, <2>2, MakeBalanceLinkIs DEF Links1
  <2>3. CASE MintService BY <1>a, <2>3, MintServiceIs
  <2> QED BY <1>11, <1>12, <1>17, <1>s, <1>a, <2>1, <2>2, <2>3 DEF Ready
<1>18. CASE PassFails
  <2>1. chain' = Idle => ~Running' BY DEF Running, Idle
  <2> QED BY <1>18, <1>a, <2>1, PassFailsIs DEF ghosts
<1>19. CASE GateFails
  <2>1. "missing-order-ref" \in Hold BY DEF Hold
  <2> QED BY <1>19, <1>a, <2>1, GateFailsIs, HoldForIs DEF ghosts
<1> QED BY <1>1, <1>2, <1>3, <1>4, <1>5, <1>6, <1>7, <1>8, <1>9, <1>10, <1>13, <1>14, <1>15, <1>16, <1>17,
           <1>18, <1>19
    DEF PassStep

\* A step that leaves links, payments and the money paid alone, and keeps the
\* price of the draft, the price of the pass and the prices read.
LEMMA AffordedKept ==
  ASSUME TypeInv, Afforded, UNCHANGED <<links, chain>>, money'.got = money.got,
         draft'.price = draft.price, calls' \subseteq calls,
         fields'.paid = fields.paid \/ (Charged /\ fields'.paid <= money.got),
         Paying("a")' => Charged /\ (req'["a"].pc # "read" => req'["a"].price <= money.got),
         Busy("a")' /\ req'["a"].job = "estimate" => wanted' = None \/ req'["a"].amount = 0
  PROVE  Afforded'
<1>1. Running' <=> Running BY DEF Running
<1>2. Charged' => Charged BY <1>1 DEF Charged
<1>3. Under(draft.price) /\ (Running => Under(chain.price)) BY AffordedIs
<1>4. (Charged => draft.price <= money.got /\ (Running => chain.price <= money.got))'
  BY <1>1, <1>2, AffordedIs
<1>5. (\A l \in links : l.kind = "estimate" /\ l.amount > 0 =>
          draft.price <= l.amount /\ (Running => chain.price <= l.amount))'
  BY <1>1, <1>3 DEF Under
<1>6. (fields.paid <= money.got)' BY AffordedIs
<1>7. (Paying("a") /\ req["a"].pc # "read" => req["a"].price <= money.got)' OBVIOUS
<1>8. (Running => draft.price \in {chain.price, 0})' BY <1>1, AffordedIs
<1> QED BY <1>4, <1>5, <1>6, <1>7, <1>8 DEF Afforded

LEMMA ReqAfforded ==
  ASSUME TypeInv, TypeInv', Ordered, Apart, Afforded, ~Allowed("overlap"),
         NEW s \in Slot, ReqStep(s) \/ ReqFails(s)
  PROVE  Afforded'
<1>1. s = "a" /\ Busy("a")
  <2>1. Busy(s)
    BY Reads, WriteFinalIs, WriteSpecsIs, ReadDeltaIs, IssueVoucherIs, Puts, WritePaidIs, ReqFailsIs DEF ReqStep
  <2> QED BY <2>1 DEF Apart, Slot
<1>2. Paying("a") => Charged BY DEF Charged
<1>3. /\ Charged => draft.price <= money.got
      /\ Paying("a") /\ req["a"].pc # "read" => req["a"].price <= money.got
      /\ req["a"].job = "estimate" => wanted = None \/ req["a"].amount = 0
  BY <1>1, AffordedIs
<1>4. Paying("a") <=> req["a"].job = "pay" BY <1>1 DEF Paying
<1>5. Busy("a")' => (Paying("a")' <=> req'["a"].job = "pay") BY DEF Paying
<1>6. Paying("a")' => Busy("a")' BY DEF Paying
<1>7. CASE Read(s) BY <1>1, <1>2, <1>3, <1>4, <1>5, <1>6, <1>7, Reads, AffordedKept DEF ghosts
<1>8. CASE WriteFinal(s)
  <2>1. req["a"].job = "complete" BY <1>1, <1>8, WriteFinalIs
  <2> QED BY <1>1, <1>5, <1>6, <1>8, <2>1, WriteFinalIs, AffordedKept
<1>9. CASE WriteSpecs(s)
  <2>1. req["a"].job = "complete" /\ req["a"].pc = "specs" /\ draft'.price = req["a"].price
    BY <1>1, <1>9, WriteSpecsIs DEF LineIs
  <2>2. draft'.price = draft.price BY <1>1, <2>1 DEF Apart, Overlaps
  <2> QED BY <1>1, <1>5, <1>6, <1>9, <2>1, <2>2, WriteSpecsIs, AffordedKept
<1>10. CASE ReadDelta(s)
  BY <1>1, <1>5, <1>6, <1>10, ReadDeltaIs, AffordedKept
<1>11. CASE IssueVoucher(s)
  BY <1>1, <1>5, <1>6, <1>11, IssueVoucherIs, AffordedKept
<1>12. CASE Put(s)
  <2>1. PICK r \in ReqRec : r = req["a"] BY <1>1, <1>12, Puts
  <2>2. /\ r.pc = "put"
        /\ draft'.price = (IF r.job = "estimate" THEN r.amount
                           ELSE IF r.job \in Class THEN r.price ELSE draft.price)
        /\ UNCHANGED <<fields, chain, links, calls, money>>
        /\ r.job = "pay" => req'["a"].job = "pay" /\ req'["a"].price = r.price
        /\ r.job # "pay" => ~Busy("a")'
        /\ r.job # "estimate" => wanted' = wanted
    BY <1>1, <1>12, <2>1, Puts
  <2>4. CASE r.job = "estimate"
    <3>1. ~Running BY <1>1, <2>1, <2>2, <2>4 DEF Apart, Overlaps, Alone
    <3>2. ~Running' BY <2>2, <3>1 DEF Running
    <3>3. ~Paying("a")' BY <1>6, <2>2, <2>4
    <3>4. CASE wanted = None
      <4>1. links' = {} /\ calls' = {} /\ fields'.paid = 0 BY <2>2, <3>4 DEF Ordered
      <4>2. ~Charged' BY <3>2, <3>3, <4>1 DEF Charged
      <4>3. 0 <= money'.got BY DEF TypeInv
      <4> QED BY <1>6, <2>2, <2>4, <3>2, <3>3, <4>1, <4>2, <4>3 DEF Afforded
    <3>5. CASE r.amount = 0
      <4>1. draft'.price = 0 BY <2>2, <2>4, <3>5
      <4>2. money'.got \in Nat BY DEF TypeInv
      <4>3. fields'.paid <= money'.got BY <2>2, AffordedIs
      <4>4. (Charged => draft.price <= money.got /\ (Running => chain.price <= money.got))'
        BY <3>2, <4>1, <4>2
      <4>5. (\A l \in links : l.kind = "estimate" /\ l.amount > 0 =>
                draft.price <= l.amount /\ (Running => chain.price <= l.amount))'
        <5>1. \A l \in links' : l.amount > 0 => draft'.price <= l.amount
          BY <2>2, <4>1 DEF TypeInv, LinkRec
        <5> QED BY <3>2, <5>1
      <4> QED BY <2>2, <2>4, <3>2, <3>3, <4>3, <4>4, <4>5 DEF Afforded
    <3> QED BY <1>3, <2>1, <2>4, <3>4, <3>5
  <2>5. CASE r.job # "estimate"
    <3>1. draft'.price = draft.price
      <4>1. r.job \in Class => ~Overlaps(r) BY <2>2 DEF Overlaps, Class
      <4>2. r.job \in Class => r.price = draft.price BY <1>1, <2>1, <2>2, <4>1 DEF Apart
      <4> QED BY <2>2, <2>5, <4>2
    <3>2. Busy("a")' => r.job = "pay" /\ req'["a"].job = "pay" /\ req'["a"].price = r.price BY <2>2
    <3> QED BY <1>2, <1>3, <1>4, <1>5, <1>6, <2>1, <2>2, <2>5, <3>1, <3>2, AffordedKept
  <2> QED BY <2>4, <2>5
<1>13. CASE WritePaid(s)
  <2>1. /\ req["a"].pc = "paid" /\ req["a"].job = "pay" /\ fields'.paid = req["a"].price /\ ~Busy("a")'
        /\ UNCHANGED <<draft, chain, links, calls, money>>
    BY <1>1, <1>13, WritePaidIs
  <2>2. Charged /\ fields'.paid <= money.got BY <1>2, <1>3, <1>4, <2>1
  <2> QED BY <1>6, <2>1, <2>2, AffordedKept
<1>14. CASE ReqFails(s)
  <2>1. Busy("a")' => /\ req'["a"].job = req["a"].job /\ req'["a"].amount = req["a"].amount
                      /\ req["a"].pc = "specs" /\ req'["a"].price = req["a"].price
    BY <1>1, <1>14, ReqFailsIs
  <2>2. Paying("a")' => Charged /\ (req'["a"].pc # "read" => req'["a"].price <= money.got)
    BY <1>2, <1>3, <1>4, <1>5, <1>6, <2>1
  <2> QED BY <1>3, <1>14, <2>1, <2>2, ReqFailsIs, AffordedKept
<1> QED BY <1>7, <1>8, <1>9, <1>10, <1>11, <1>12, <1>13, <1>14 DEF ReqStep

LEMMA NextAfforded ==
  ASSUME TypeInv, TypeInv', Ordered, Apart, Afforded, ~Allowed("overlap"), ~Allowed("revise"), [Next]_vars
  PROVE  Afforded'
<1>a. Paying("a") => Charged BY DEF Charged
<1>b. /\ Charged => draft.price <= money.got
      /\ Paying("a") /\ req["a"].pc # "read" => req["a"].price <= money.got
      /\ Busy("a") /\ req["a"].job = "estimate" => wanted = None \/ req["a"].amount = 0
  BY AffordedIs
<1>1. CASE Deliver \/ PassStep \/ PassFails \/ GateFails
  <2>1. draft'.price \in Money BY DEF TypeInv, DraftRec
  <2> QED BY <1>1, <2>1, PassPrices, AffordedPass
<1>2. CASE Staffs
  <2>1. /\ draft'.price = draft.price
        /\ UNCHANGED <<fields, chain, req, links, calls, money, wanted>>
    BY <1>2, StaffTagIs, FillIs DEF Staffs, TagsAre
  <2>2. (Paying("a")' <=> Paying("a")) /\ (Busy("a")' <=> Busy("a")) BY <2>1 DEF Paying, Busy
  <2> QED BY <1>a, <1>b, <2>1, <2>2, AffordedKept
<1>3. ASSUME NEW s \in Slot, Posts(s) PROVE Afforded'
  <2>1. PICK task \in Job, amount \in Nat \cup {None}, extra \in BOOLEAN :
            /\ Post(s, task, amount, extra)
            /\ task # "pay"
            /\ task = "estimate" => \E a \in Amount \cup {0} : amount = a /\ PostEstimate(s, a)
    BY <1>3, PostIs
  <2>2. Start(s, task, amount, extra) /\ Settled /\ calls' = calls BY <2>1, Prompts DEF Post
  <2>3. req'["a"].pc = "read" /\ req'["a"].job = task /\ req'["a"].amount = amount BY <2>2, StartsAlone
  <2>4. UNCHANGED <<draft, fields, chain, links, money, wanted>> BY <2>2 DEF Start, ghosts
  <2>5. task = "estimate" => wanted = None \/ amount = 0 BY <2>1 DEF PostEstimate
  <2>6. ~Paying("a")' BY <2>1, <2>3 DEF Paying
  <2> QED BY <2>1, <2>2, <2>3, <2>4, <2>5, <2>6, AffordedKept
<1>4. ASSUME NEW s \in Slot, \E n \in calls : Notified(s, n) PROVE Afforded'
  <2>1. /\ Start(s, "pay", 0, FALSE) /\ Settled /\ calls # {} /\ calls' \subseteq calls
        /\ "pay" \in Job
    BY <1>4, NotifiedIs DEF Job
  <2>2. req'["a"].pc = "read" /\ req'["a"].job = "pay" BY <2>1, StartsAlone
  <2>3. UNCHANGED <<draft, fields, chain, links, money, wanted>> BY <2>1 DEF Start, ghosts
  <2>4. Charged BY <2>1 DEF Charged
  <2> QED BY <2>1, <2>2, <2>3, <2>4, AffordedKept
<1>5. ASSUME NEW s \in Slot, ReqStep(s) \/ ReqFails(s) PROVE Afforded' BY <1>5, ReqAfforded
<1>6. ASSUME NEW l \in links, PayLink(l) PROVE Afforded'
  <2>1. PICK k \in LinkRec : /\ k.n = l.n /\ k.kind = l.kind /\ k.amount = l.amount /\ k.paid
                             /\ links' = (links \ {l}) \cup {k}
    BY <1>6, PayIs
  <2>2. /\ money'.got = money.got + l.amount /\ l.amount \in Nat /\ l.amount > 0 /\ money.got \in Nat
        /\ UNCHANGED <<draft, fields, chain, req, wanted>> /\ Settled /\ l \in LinkRec
    BY <1>6, PayIs, Prompts DEF LinkRec, TypeInv
  <2>3. ~Running /\ ~Running' /\ ~Busy("a") /\ ~Busy("a")'
    BY <2>2 DEF Settled, Running, Busy, Slot
  <2>4. draft.price \in Nat /\ fields.paid \in Nat BY MoneyIsNat DEF TypeInv, DraftRec
  <2>5. draft.price <= money'.got
    <3>1. CASE l.kind = "estimate"
      <4>1. draft.price <= l.amount BY <2>2, <3>1, AffordedIs DEF Under
      <4> QED BY <2>2, <2>4, <4>1
    <3>2. CASE l.kind = "balance"
      <4>1. Charged BY <3>2 DEF Charged
      <4> QED BY <1>b, <2>2, <2>4, <4>1
    <3> QED BY <2>2, <3>1, <3>2 DEF LinkRec
  <2>6. fields'.paid <= money'.got
    <3>1. fields.paid <= money.got BY AffordedIs
    <3> QED BY <2>2, <2>4, <3>1
  <2>7. \A m \in links' : m.kind = "estimate" /\ m.amount > 0 => draft'.price <= m.amount
    <3>1. \A m \in links : m.kind = "estimate" /\ m.amount > 0 => draft.price <= m.amount
      BY AffordedIs DEF Under
    <3> QED BY <2>1, <2>2, <3>1
  <2>8. ~Paying("a")' BY <2>3 DEF Paying
  <2> QED BY <2>2, <2>3, <2>5, <2>6, <2>7, <2>8 DEF Afforded
<1>7. CASE Restart
  <2>1. /\ ~Running' /\ ~Busy("a")' /\ chain' = Idle
        /\ UNCHANGED <<draft, fields, links, calls, money, wanted>>
    BY <1>7, RestartIs DEF ghosts, Slot
  <2>2. ~Paying("a")' BY <2>1 DEF Paying
  <2>3. Charged' => Charged BY <2>1, <2>2 DEF Charged
  <2>4. Under(draft.price) BY AffordedIs
  <2>5. (\A l \in links : l.kind = "estimate" /\ l.amount > 0 =>
          draft.price <= l.amount /\ (Running => chain.price <= l.amount))'
    BY <2>1, <2>4 DEF Under
  <2>6. (fields.paid <= money.got)' BY <2>1, AffordedIs
  <2>7. (Charged => draft.price <= money.got /\ (Running => chain.price <= money.got))' BY <1>b, <2>1, <2>3
  <2> QED BY <2>1, <2>2, <2>5, <2>6, <2>7 DEF Afforded
<1>8. CASE UNCHANGED vars
  <2>1. UNCHANGED <<draft, fields, chain, req, links, calls, money, wanted>> BY <1>8 DEF vars, ghosts
  <2>2. (Paying("a")' <=> Paying("a")) /\ (Busy("a")' <=> Busy("a")) BY <2>1 DEF Paying, Busy
  <2> QED BY <1>a, <1>b, <2>1, <2>2, AffordedKept
<1> QED BY <1>1, <1>2, <1>3, <1>4, <1>5, <1>6, <1>7, <1>8, Steps DEF Requested

LEMMA InitAfforded == Init => Afforded
<1> SUFFICES ASSUME Init PROVE Afforded OBVIOUS
<1>1. req = [s \in Slot |-> Idle] /\ "a" \in Slot BY DEF Init, Slot
<1>2. ~Busy("a") /\ ~Running BY <1>1 DEF Busy, Running, Idle, Init
<1>3. links = {} /\ calls = {} /\ fields.paid = 0 /\ money.got = 0 BY DEF Init
<1> QED BY <1>2, <1>3 DEF Afforded, Charged, Paying

--------------------
(* Orderly repairs: the steps of a pass *)

\* While a pass runs or a webhook is under way, a request can only be one
\* that has nothing left to ask for.
LEMMA Undisturbed ==
  ASSUME Apart, OrderlyInv, ~Alone, ~Idling
  PROVE  ~Busy("a")
  BY DEF Apart, OrderlyInv, Requests

\* The parts of the invariant a step of the pass leaves to its requests.
LEMMA RequestsIdle ==
  ASSUME ~Busy("a"), req' = req
  PROVE  Requests'
  BY DEF Requests, Busy

LEMMA UnholdOrderly ==
  ASSUME TypeInv, TypeInv', Apart, OrderlyInv, Unhold
  PROVE  OrderlyInv'
<1> USE DEF GateDue, FreeDue, ApproveDue, QuoteDue, ReadyDue, Same, GoesTo, TagsAre, Elsewhere, Asked
<1>1. /\ chain.pc = "unhold" /\ Elsewhere /\ GoesTo("mailReceived")
      /\ TagsAre(chain.tags \ {"missing-order-ref"})
      /\ chain'.tags = chain.tags \ {"missing-order-ref"}
  BY UnholdIs
<1>2. Sense /\ View /\ Passes /\ Tidy /\ ToldInv /\ Priced /\ RefundInv BY DEF OrderlyInv
<1>3. Same /\ GateDue(draft.tags) /\ ~Blocked /\ chain.price = draft.price
  BY <1>1, <1>2 DEF View, GatePc
<1>4. ~Busy("a") BY <1>1, Undisturbed DEF Alone, Idling
<1>5. Sense' BY <1>1, <1>2, <1>3 DEF Sense, Later, Class
<1>6. ~Blocked' BY <1>1, <1>3 DEF Blocked
<1>7. View' BY <1>1, <1>3, <1>6 DEF View, GatePc, FreePc, ApprovePc, QuotePc, ReadyPc
<1>8. Passes' BY <1>1, <1>2, <1>3, <1>6 DEF Passes, Work, AnyDue, AfterPc
<1>9. Tidy' BY <1>1, <1>2, <1>3 DEF Tidy, FreeUnpaid, Uncopied
<1>10. ToldInv' BY <1>1, <1>2, <1>3 DEF ToldInv
<1>11. Requests' BY <1>1, <1>4, RequestsIdle
<1>12. Priced' BY <1>1, <1>2, <1>3 DEF Priced
<1>13. RefundInv' BY <1>1, <1>2, <1>3, <1>4 DEF RefundInv, Busy
<1> QED BY <1>5, <1>7, <1>8, <1>9, <1>10, <1>11, <1>12, <1>13 DEF OrderlyInv

\* From one call of a step that is due to its next: the draft stays as it is.
LEMMA OnOrderly ==
  ASSUME Apart, OrderlyInv, Running, Running', ToldInv', told.ready > 0 => told'.ready > 0,
         NEW pcs \in {GatePc, FreePc, ApprovePc, QuotePc, ReadyPc}, chain.pc \in pcs, chain'.pc \in pcs,
         chain.pc # "gate", chain'.pc # "gate", chain'.tags = chain.tags, chain'.price = chain.price,
         chain'.pass = chain.pass, chain'.pending = chain.pending,
         SameCopies, case' = case, known' = known, req' = req, money' = money, wanted' = wanted
  PROVE  OrderlyInv'
<1> USE DEF GateDue, FreeDue, ApproveDue, QuoteDue, ReadyDue, Same, SameCopies
<1>1. Sense /\ View /\ Passes /\ Tidy /\ Priced /\ RefundInv BY DEF OrderlyInv
<1>2. chain.pc \notin AfterPc \cup {"fetch", "copy", "zero", "reread", "resync", "resynced"}
      /\ chain'.pc \notin AfterPc \cup {"fetch", "copy", "zero", "reread", "resync", "resynced"}
  BY DEF GatePc, FreePc, ApprovePc, QuotePc, ReadyPc, AfterPc
<1>3. ~Busy("a") BY <1>2, Undisturbed DEF Alone, Idling, AfterPc
<1>4. Sense' /\ Priced' BY <1>1 DEF Sense, Priced, Later, Class
<1>5. (Blocked' <=> Blocked) /\ (Work' <=> Work) BY DEF Blocked, Work, AnyDue
<1>6. View' BY <1>1, <1>2, <1>5 DEF View, GatePc, FreePc, ApprovePc, QuotePc, ReadyPc
<1>7. Passes' BY <1>1, <1>2, <1>5 DEF Passes
<1>8. Tidy' BY <1>1, <1>2 DEF Tidy, FreeUnpaid, Uncopied
<1>9. Requests' BY <1>3, RequestsIdle
<1>10. RefundInv' BY <1>1, <1>3 DEF RefundInv, Busy
<1> QED BY <1>4, <1>6, <1>7, <1>8, <1>9, <1>10 DEF OrderlyInv

\* The mails and marks of each step.
LEMMA MailOrderly ==
  ASSUME TypeInv, TypeInv', Apart, OrderlyInv, NEW step, NEW next, NEW m, Mails(step, next, m),
         <<step, next>> \in {<<"mailReceived", "markReceived">>, <<"mailFree", "markFree">>,
             <<"mailApproved", "markApproved">>, <<"mailQuote", "markQuoted">>, <<"mailReady", "markReady">>},
         m.received = IF step = "mailReceived" THEN told.received + 1 ELSE told.received,
         m.free = IF step = "mailFree" THEN told.free + 1 ELSE told.free,
         m.approved = IF step = "mailApproved" THEN told.approved + 1 ELSE told.approved,
         m.ready = IF step = "mailReady" THEN told.ready + 1 ELSE told.ready
  PROVE  OrderlyInv'
<1>1. /\ chain.pc = step /\ GoesTo(next) /\ chain'.tags = chain.tags /\ told' = m /\ SameCopies
      /\ UNCHANGED <<case, known, fields, req, links, calls, money, serials, wanted>>
  BY MailsIs DEF ChainPc, GatePc, FreePc, ApprovePc, QuotePc, ReadyPc, AfterPc
<1>2. /\ Running /\ Running' /\ chain'.pc = next /\ chain'.price = chain.price
      /\ chain'.pass = chain.pass /\ chain'.pending = chain.pending
  BY <1>1 DEF GoesTo
<1>3. told.received \in Nat /\ told.free \in Nat /\ told.approved \in Nat /\ told.ready \in Nat
  BY DEF TypeInv, ToldRec
<1>4. Sense /\ View /\ ToldInv BY DEF OrderlyInv
<1>5. ToldInv'
  <2>1. step = "mailReceived" => "hq-notified" \notin draft.tags
    BY <1>1, <1>2, <1>4 DEF View, GatePc, GateDue
  <2>2. step = "mailFree" => "free-notified" \notin draft.tags
    BY <1>1, <1>2, <1>4 DEF View, FreePc, FreeDue
  <2>3. step = "mailApproved" => "store-hq-notified" \notin draft.tags
    BY <1>1, <1>2, <1>4 DEF View, ApprovePc, ApproveDue
  <2>4. step = "mailReady" => "completion-notified" \notin draft.tags /\ "complete" \in draft.tags
    BY <1>1, <1>2, <1>4 DEF View, ReadyPc, ReadyDue
  <2> QED BY <1>1, <1>2, <1>3, <1>4, <2>1, <2>2, <2>3, <2>4 DEF ToldInv, SameCopies
<1>6. PICK pcs \in {GatePc, FreePc, ApprovePc, QuotePc, ReadyPc} : step \in pcs /\ next \in pcs
  BY DEF GatePc, FreePc, ApprovePc, QuotePc, ReadyPc
<1> QED BY <1>1, <1>2, <1>3, <1>5, <1>6, OnOrderly

LEMMA MailReceivedOrderly ==
  ASSUME TypeInv, TypeInv', Apart, OrderlyInv, Mails("mailReceived", "markReceived", [told EXCEPT !.received = @ + 1])
  PROVE  OrderlyInv'
<1>1. PICK m : m = [told EXCEPT !.received = @ + 1] OBVIOUS
<1>2. /\ m.received = told.received + 1 /\ m.free = told.free
      /\ m.approved = told.approved /\ m.ready = told.ready
  BY <1>1 DEF TypeInv, ToldRec
<1> QED BY <1>1, <1>2, MailOrderly

LEMMA MarkReceivedOrderly ==
  ASSUME TypeInv, TypeInv', Apart, OrderlyInv, Marks("markReceived", "hq-notified", "end")
  PROVE  OrderlyInv'
<1> USE DEF GateDue, FreeDue, ApproveDue, QuoteDue, ReadyDue, Same, GoesTo, TagsAre, Elsewhere, Asked, SameCopies
<1>1. /\ chain.pc = "markReceived" /\ GoesTo("end") /\ chain'.tags = chain.tags
      /\ TagsAre(chain.tags \cup {"hq-notified"}) /\ Elsewhere
  BY MarksIs DEF Tag, ChainPc, GatePc, FreePc, ApprovePc, QuotePc, ReadyPc, AfterPc
<1>2. Sense /\ View /\ Passes /\ Tidy /\ ToldInv /\ Priced /\ RefundInv BY DEF OrderlyInv
<1>3. Same /\ GateDue(draft.tags) /\ ~Blocked /\ chain.price = draft.price
  BY <1>1, <1>2 DEF View, GatePc, FreePc, ApprovePc, QuotePc, ReadyPc
<1>4. ~Busy("a") BY <1>1, Undisturbed DEF Alone, Idling
<1>5. Sense' BY <1>1, <1>2, <1>3 DEF Sense, Later, Class
<1>6. ~Blocked' <=> ~Blocked BY <1>1, <1>2, <1>3 DEF Blocked, Sense, Later
<1>7. View' BY <1>1, <1>2, <1>3, <1>6 DEF View, Sense, Later, AnyDue, GatePc, FreePc, ApprovePc, QuotePc, ReadyPc
<1>8. Passes'
  <2>1. "hq-notified" \in draft'.tags /\ draft.tags \cap Later = {} /\ draft'.tags = draft.tags \cup {"hq-notified"}
    BY <1>1, <1>2, <1>3 DEF Sense
  <2>2. ~ApproveDue(draft'.tags) /\ ~QuoteDue(draft'.tags) /\ ~ReadyDue(draft'.tags) /\ ~GateDue(draft'.tags)
    BY <2>1 DEF Later
  <2>3. FreeDue(draft'.tags) => FreeDue(draft.tags) BY <2>1
  <2>4. FreeDue(draft'.tags) => chain.pass # 3 BY <1>1, <1>2, <1>3, <2>3 DEF Passes
  <2>5. chain.pass \in 1 .. 3 BY <1>1 DEF ChainRec
  <2> HIDE DEF GateDue, FreeDue, ApproveDue, QuoteDue, ReadyDue
  <2> QED BY <1>1, <2>2, <2>4, <2>5 DEF Passes, Work, AnyDue
<1>9. Tidy' BY <1>1, <1>2, <1>3 DEF Tidy, FreeUnpaid, Uncopied
<1>10. ToldInv' BY <1>1, <1>2, <1>3 DEF ToldInv, ToldRec
<1>11. Requests' BY <1>1, <1>4, RequestsIdle
<1>12. Priced' BY <1>1, <1>2, <1>3 DEF Priced
<1>13. RefundInv' BY <1>1, <1>2, <1>3, <1>4 DEF RefundInv, Busy
<1> QED BY <1>5, <1>7, <1>8, <1>9, <1>10, <1>11, <1>12, <1>13 DEF OrderlyInv

LEMMA MailFreeOrderly ==
  ASSUME TypeInv, TypeInv', Apart, OrderlyInv, Mails("mailFree", "markFree", [told EXCEPT !.free = @ + 1])
  PROVE  OrderlyInv'
<1>1. PICK m : m = [told EXCEPT !.free = @ + 1] OBVIOUS
<1>2. /\ m.received = told.received /\ m.free = told.free + 1
      /\ m.approved = told.approved /\ m.ready = told.ready
  BY <1>1 DEF TypeInv, ToldRec
<1> QED BY <1>1, <1>2, MailOrderly

LEMMA MailApprovedOrderly ==
  ASSUME TypeInv, TypeInv', Apart, OrderlyInv, Mails("mailApproved", "markApproved", [told EXCEPT !.approved = @ + 1])
  PROVE  OrderlyInv'
<1>1. PICK m : m = [told EXCEPT !.approved = @ + 1] OBVIOUS
<1>2. /\ m.received = told.received /\ m.free = told.free
      /\ m.approved = told.approved + 1 /\ m.ready = told.ready
  BY <1>1 DEF TypeInv, ToldRec
<1> QED BY <1>1, <1>2, MailOrderly

LEMMA MailQuoteOrderly ==
  ASSUME TypeInv, TypeInv', Apart, OrderlyInv, Mails("mailQuote", "markQuoted", [told EXCEPT !.quote = chain.price])
  PROVE  OrderlyInv'
<1>1. PICK m : m = [told EXCEPT !.quote = chain.price] OBVIOUS
<1>2. /\ m.received = told.received /\ m.free = told.free
      /\ m.approved = told.approved /\ m.ready = told.ready
  BY <1>1 DEF TypeInv, ToldRec
<1> QED BY <1>1, <1>2, MailOrderly

LEMMA MailReadyOrderly ==
  ASSUME TypeInv, TypeInv', Apart, OrderlyInv, Mails("mailReady", "markReady", [told EXCEPT !.ready = @ + 1, !.ask = [mode |-> chain.ask.mode, amount |-> chain.ask.amount, got |-> money.got]])
  PROVE  OrderlyInv'
<1>1. PICK m : m = [told EXCEPT !.ready = @ + 1, !.ask = [mode |-> chain.ask.mode, amount |-> chain.ask.amount, got |-> money.got]] OBVIOUS
<1>2. /\ m.received = told.received /\ m.free = told.free
      /\ m.approved = told.approved /\ m.ready = told.ready + 1
  BY <1>1 DEF TypeInv, ToldRec
<1> QED BY <1>1, <1>2, MailOrderly

LEMMA MarkOrderly ==
  ASSUME TypeInv, TypeInv', Apart, OrderlyInv, NEW step, NEW tag, NEW next, Marks(step, tag, next),
         <<step, tag, next>> \in {<<"markFree", "free-notified", "recopy">>, <<"markApproved", "store-hq-notified", "end">>,
             <<"markQuoted", "estimate-sent", "end">>, <<"markReady", "completion-notified", "serial">>}
  PROVE  OrderlyInv'
<1> USE DEF GateDue, FreeDue, ApproveDue, QuoteDue, ReadyDue, Same, GoesTo, TagsAre, Elsewhere, Asked, SameCopies
<1>1. /\ chain.pc = step /\ GoesTo(next) /\ chain'.tags = chain.tags
      /\ TagsAre(chain.tags \cup {tag}) /\ Elsewhere
  BY MarksIs DEF Tag, ChainPc, GatePc, FreePc, ApprovePc, QuotePc, ReadyPc, AfterPc
<1>2. Sense /\ View /\ Passes /\ Tidy /\ ToldInv /\ Priced /\ RefundInv BY DEF OrderlyInv
<1>3. /\ Same /\ chain.price = draft.price
      /\ step = "markFree" => ~GateDue(draft.tags) /\ FreeDue(draft.tags)
      /\ step = "markApproved" => ApproveDue(draft.tags)
      /\ step = "markQuoted" => QuoteDue(draft.tags)
      /\ step = "markReady" => ReadyDue(draft.tags)
  BY <1>1, <1>2 DEF View, GatePc, FreePc, ApprovePc, QuotePc, ReadyPc
<1>4. ~Busy("a") BY <1>1, Undisturbed DEF Alone, Idling
<1>5. Sense' BY <1>1, <1>2, <1>3 DEF Sense, Later, Class
<1>6. ~Blocked' <=> ~Blocked BY <1>1, <1>2, <1>3 DEF Blocked, Sense, Later
<1>7. View' BY <1>1, <1>2, <1>3, <1>6 DEF View, Sense, Later, AnyDue, GatePc, FreePc, ApprovePc, QuotePc, ReadyPc
<1>8. Passes' BY <1>1, <1>2, <1>3, <1>6 DEF Passes, Sense, Work, AnyDue, AfterPc, Later
<1>9. Tidy' BY <1>1, <1>2, <1>3 DEF Tidy, FreeUnpaid, Uncopied
<1>10. ToldInv' BY <1>1, <1>2, <1>3 DEF ToldInv, ToldRec
<1>11. Requests' BY <1>1, <1>4, RequestsIdle
<1>12. Priced' BY <1>1, <1>2, <1>3 DEF Priced
<1>13. RefundInv' BY <1>1, <1>2, <1>3, <1>4 DEF RefundInv, Busy
<1> QED BY <1>5, <1>7, <1>8, <1>9, <1>10, <1>11, <1>12, <1>13 DEF OrderlyInv

\* The links, and the number of the service.
LEMMA MakeLinkOrderly ==
  ASSUME TypeInv, TypeInv', Apart, OrderlyInv, MakeLink
  PROVE  OrderlyInv'
<1>1. /\ chain.pc = "link" /\ Running /\ Running' /\ chain'.pc \in {"mailQuote"} /\ chain'.tags = chain.tags
      /\ chain'.price = chain.price /\ chain'.pass = chain.pass /\ chain'.pending = chain.pending /\ SameCopies /\ UNCHANGED <<case, known, req, told, money, serials, wanted>>
  BY MakeLinkIs DEF GoesTo, Elsewhere
<1>2. ToldInv' BY <1>1 DEF OrderlyInv, ToldInv, SameCopies, QuotePc, ReadyPc
<1> QED BY <1>1, <1>2, OnOrderly DEF QuotePc, ReadyPc

LEMMA MakeBalanceLinkOrderly ==
  ASSUME TypeInv, TypeInv', Apart, OrderlyInv, MakeBalanceLink
  PROVE  OrderlyInv'
<1>1. /\ chain.pc = "balance" /\ Running /\ Running' /\ chain'.pc \in {"mailReady"} /\ chain'.tags = chain.tags
      /\ chain'.price = chain.price /\ chain'.pass = chain.pass /\ chain'.pending = chain.pending /\ SameCopies /\ UNCHANGED <<case, known, req, told, money, serials, wanted>>
  BY MakeBalanceLinkIs DEF GoesTo, Elsewhere
<1>2. ToldInv' BY <1>1 DEF OrderlyInv, ToldInv, SameCopies, QuotePc, ReadyPc
<1> QED BY <1>1, <1>2, OnOrderly DEF QuotePc, ReadyPc

LEMMA ReadFieldsOrderly ==
  ASSUME TypeInv, TypeInv', Apart, OrderlyInv, ReadFields
  PROVE  OrderlyInv'
<1>1. /\ chain.pc = "fields" /\ Running /\ Running' /\ chain'.pc \in {"balance", "mailReady"} /\ chain'.tags = chain.tags
      /\ chain'.price = chain.price /\ chain'.pass = chain.pass /\ chain'.pending = chain.pending /\ SameCopies /\ UNCHANGED <<case, known, req, told, money, serials, wanted>>
  BY ReadFieldsIs DEF GoesTo, Elsewhere
<1>2. ToldInv' BY <1>1 DEF OrderlyInv, ToldInv, SameCopies, QuotePc, ReadyPc
<1> QED BY <1>1, <1>2, OnOrderly DEF QuotePc, ReadyPc

\* The number of the service, and the steps that put the draft in order.
LEMMA PutOrderly ==
  ASSUME TypeInv, TypeInv', Apart, OrderlyInv, Zero \/ Resync \/ Resynced \/ Recopy \/ MintService
  PROVE  OrderlyInv'
<1>1. /\ \/ chain.pc = "zero" /\ GoesTo("reread") /\ LineIs(0, chain.item) /\ chain'.item = chain.item
         \/ chain.pc = "resync" /\ GoesTo("resynced") /\ (SameCopies \/ ("outside" \notin chain.tags /\ LineIs(chain.price, TRUE)))
         \/ chain.pc = "resynced" /\ GoesTo("reread") /\ TagsAre(chain.tags \ {"resync"}) /\ chain'.item = chain.item
         \/ chain.pc = "recopy" /\ GoesTo("end") /\ (SameCopies \/ LineIs(chain.price, TRUE))
         \/ chain.pc = "serial" /\ GoesTo("end") /\ SameCopies
      /\ chain'.tags = IF chain.pc = "resynced" THEN chain.tags \ {"resync"} ELSE chain.tags
      /\ IF chain.pc = "serial" THEN \E n : serials' = serials \cup {n} ELSE serials' = serials
      /\ UNCHANGED <<case, known, fields, req, links, calls, told, money, wanted>>
  <2> USE DEF Elsewhere
  <2>1. CASE Zero BY <2>1, ZeroIs
  <2>2. CASE Resync
    <3>1. SameCopies \/ ("outside" \notin chain.tags /\ LineIs(chain.price, TRUE)) BY <2>2, ResyncIs DEF Copies
    <3> QED BY <2>2, <3>1, ResyncIs
  <2>3. CASE Resynced BY <2>3, ResyncedIs
  <2>4. CASE Recopy BY <2>4, RecopyIs DEF Copies
  <2>5. CASE MintService BY <2>5, MintServiceIs
  <2> QED BY <2>1, <2>2, <2>3, <2>4, <2>5
<1> USE DEF LineIs, GateDue, FreeDue, ApproveDue, QuoteDue, ReadyDue, Same, GoesTo, TagsAre, Elsewhere, Asked, SameCopies
<1>2. Sense /\ View /\ Passes /\ Tidy /\ ToldInv /\ Priced /\ RefundInv BY DEF OrderlyInv
<1>3. /\ chain.price = draft.price /\ (chain.pc = "zero" => chain.item = draft.item /\ "free" \in draft.tags)
      /\ chain.pc = "zero" => Same \/ NothingDue(chain.tags)
      /\ chain.pc = "zero" /\ "free" \in chain.tags => "free" \in draft.tags
      /\ chain.pc \in {"resync", "resynced"} => Same
      /\ chain.pc \in {"recopy", "serial"} => ~AnyDue(draft.tags)
  BY <1>1, <1>2 DEF View, GatePc, FreePc, ApprovePc, QuotePc, ReadyPc
<1>4. ~Busy("a") BY <1>1, Undisturbed DEF Alone, Idling
<1>5. Sense' BY <1>1, <1>2, <1>3 DEF Sense, Later, Class
<1>6. /\ chain.pc \notin {"recopy", "serial"} => (~Blocked' <=> ~Blocked)
      /\ chain.pc \in {"recopy", "serial"} => ~Blocked /\ ~Blocked'
  BY <1>1, <1>2, <1>3 DEF Blocked, AnyDue, Sense, Later
<1>7. View' BY <1>1, <1>2, <1>3, <1>6 DEF View, Sense, Later, AnyDue, GatePc, FreePc, ApprovePc, QuotePc, ReadyPc
<1>8. Passes' BY <1>1, <1>2, <1>3, <1>6 DEF Passes, Sense, Work, AnyDue, AfterPc, Later
<1>9. Tidy' BY <1>1, <1>2, <1>3 DEF Tidy, FreeUnpaid, Uncopied
<1>10. ToldInv' BY <1>1, <1>2, <1>3 DEF ToldInv, ToldRec
<1>11. Requests' BY <1>1, <1>4, RequestsIdle
<1>12. Priced' BY <1>1, <1>2, <1>3 DEF Priced
<1>13. RefundInv' BY <1>1, <1>2, <1>3, <1>4 DEF RefundInv, Busy
<1> QED BY <1>5, <1>7, <1>8, <1>9, <1>10, <1>11, <1>12, <1>13 DEF OrderlyInv

LEMMA GateHoldsOrderly ==
  ASSUME TypeInv, TypeInv', Apart, OrderlyInv, NEW tag \in Hold, Gate, GoesTo("end"), IF "outside" \in chain.tags THEN ~chain.item ELSE ~known,
         IF tag \in chain.tags THEN SameCopies ELSE TagsAre(chain.tags \cup {tag})
  PROVE  OrderlyInv'
<1> USE DEF GateDue, FreeDue, ApproveDue, QuoteDue, ReadyDue, Same, GoesTo, TagsAre, Elsewhere, Asked, SameCopies
<1>1. /\ chain.pc = "gate" /\ GoesTo("end") /\ chain'.tags = chain.tags /\ Elsewhere
      /\ IF "outside" \in chain.tags THEN ~chain.item ELSE ~known
      /\ IF tag \in chain.tags THEN SameCopies ELSE TagsAre(chain.tags \cup {tag})
      /\ tag \in {"missing-inspection", "missing-order-ref"}
  BY GateIs DEF Hold
<1>2. Sense /\ View /\ Passes /\ Tidy /\ ToldInv /\ Priced /\ RefundInv BY DEF OrderlyInv
<1>3. Same /\ GateDue(draft.tags) /\ Blocked /\ chain.price = draft.price /\ chain.item = draft.item
  BY <1>1, <1>2 DEF View, Blocked, GatePc, FreePc, ApprovePc, QuotePc, ReadyPc
<1>4. ~Busy("a") BY <1>1, Undisturbed DEF Alone, Idling
<1>5. Sense' BY <1>1, <1>2, <1>3 DEF Sense, Later, Class
<1>6. Blocked' BY <1>1, <1>2, <1>3 DEF Blocked, Sense, Later
<1>7. View' BY <1>1, <1>2, <1>3, <1>6 DEF View, Sense, Later, AnyDue, GatePc, FreePc, ApprovePc, QuotePc, ReadyPc
<1>8. Passes' BY <1>1, <1>2, <1>3, <1>6 DEF Passes, Sense, Work, AnyDue, AfterPc, Later
<1>9. Tidy' BY <1>1, <1>2, <1>3 DEF Tidy, FreeUnpaid, Uncopied
<1>10. ToldInv' BY <1>1, <1>2, <1>3 DEF ToldInv, ToldRec
<1>11. Requests' BY <1>1, <1>4, RequestsIdle
<1>12. Priced' BY <1>1, <1>2, <1>3 DEF Priced
<1>13. RefundInv' BY <1>1, <1>2, <1>3, <1>4 DEF RefundInv, Busy
<1> QED BY <1>5, <1>7, <1>8, <1>9, <1>10, <1>11, <1>12, <1>13 DEF OrderlyInv

LEMMA GatePassesOrderly ==
  ASSUME TypeInv, TypeInv', Apart, OrderlyInv, Gate, ~(IF "outside" \in chain.tags THEN ~chain.item ELSE ~known)
  PROVE  OrderlyInv'
<1> USE DEF LineIs, GateDue, FreeDue, ApproveDue, QuoteDue, ReadyDue, Same, GoesTo, TagsAre, Elsewhere, Asked, SameCopies
<1>1. /\ chain.pc = "gate" /\ chain'.tags = chain.tags /\ Elsewhere
      /\ IF "outside" \in chain.tags THEN chain.item /\ SameCopies ELSE known /\ LineIs(chain.price, TRUE)
      /\ GoesTo(IF "missing-order-ref" \in chain.tags THEN "unhold" ELSE "mailReceived")
  BY GateIs DEF Copies
<1>2. Sense /\ View /\ Passes /\ Tidy /\ ToldInv /\ Priced /\ RefundInv BY DEF OrderlyInv
<1>3. Same /\ GateDue(draft.tags) /\ ~Blocked /\ chain.price = draft.price /\ chain.item = draft.item
  BY <1>1, <1>2 DEF View, Blocked, GatePc, FreePc, ApprovePc, QuotePc, ReadyPc
<1>4. ~Busy("a") BY <1>1, Undisturbed DEF Alone, Idling
<1>5. Sense' BY <1>1, <1>2, <1>3 DEF Sense, Later, Class
<1>6. ~Blocked' BY <1>1, <1>2, <1>3 DEF Blocked, Sense, Later
<1>7. View' BY <1>1, <1>2, <1>3, <1>6 DEF View, Sense, Later, AnyDue, GatePc, FreePc, ApprovePc, QuotePc, ReadyPc
<1>8. Passes' BY <1>1, <1>2, <1>3, <1>6 DEF Passes, Sense, Work, AnyDue, AfterPc, Later
<1>9. Tidy' BY <1>1, <1>2, <1>3 DEF Tidy, FreeUnpaid, Uncopied
<1>10. ToldInv' BY <1>1, <1>2, <1>3 DEF ToldInv, ToldRec
<1>11. Requests' BY <1>1, <1>4, RequestsIdle
<1>12. Priced' BY <1>1, <1>2, <1>3 DEF Priced
<1>13. RefundInv' BY <1>1, <1>2, <1>3, <1>4 DEF RefundInv, Busy
<1> QED BY <1>5, <1>7, <1>8, <1>9, <1>10, <1>11, <1>12, <1>13 DEF OrderlyInv

\* The step a pass turns to is one that is due.
Turns(t) ==
    /\ Onward(t) = "resync" <=> "resync" \in t
    /\ Onward(t) = "gate" => GateDue(t)
    /\ Onward(t) = "mailFree" => ~GateDue(t) /\ FreeDue(t)
    /\ Onward(t) = "mailApproved" => ApproveDue(t)
    /\ Onward(t) = "link" => QuoteDue(t)
    /\ Onward(t) = "fields" => ReadyDue(t)
    /\ Onward(t) = "end" <=> NothingDue(t)
    /\ Onward(t) \in {"resync", "gate", "mailFree", "mailApproved", "link", "fields", "end"}

LEMMA RereadOrderly ==
  ASSUME TypeInv, TypeInv', Apart, OrderlyInv, Reread
  PROVE  OrderlyInv'
<1> USE DEF GateDue, FreeDue, ApproveDue, QuoteDue, ReadyDue, Same, GoesTo, TagsAre, Elsewhere, Asked, SameCopies
<1>t. chain.pc = "reread" /\ chain.tags \in SUBSET Tag
  BY RereadIs DEF ChainRec
<1>w. Turns(chain.tags) BY <1>t, OnwardIs DEF Turns
<1> USE DEF Turns
<1>1. /\ Running /\ chain \in ChainRec /\ chain.pc = "reread" /\ SameCopies /\ Elsewhere
      /\ Running' /\ chain' \in ChainRec /\ chain'.pass = chain.pass /\ chain'.pending = chain.pending
      /\ chain'.tags = chain.tags /\ chain'.price = draft.price /\ chain'.item = draft.item
      /\ chain'.pc = Onward(chain.tags)
  BY RereadIs
<1>2. Sense /\ View /\ Passes /\ Tidy /\ ToldInv /\ Priced /\ RefundInv BY DEF OrderlyInv
<1>3. Same \/ NothingDue(chain.tags)
  BY <1>1, <1>2 DEF View, GatePc, FreePc, ApprovePc, QuotePc, ReadyPc
<1>4. ~Busy("a") BY <1>1, Undisturbed DEF Alone, Idling
<1>5. Sense' BY <1>1, <1>2, <1>3 DEF Sense, Later, Class
<1>6. ~Blocked' <=> ~Blocked BY <1>1, <1>2, <1>3 DEF Blocked, Sense, Later
<1>7. View' BY <1>w, <1>1, <1>2, <1>3, <1>6 DEF View, NothingDue, Sense, Later, AnyDue, GatePc, FreePc, ApprovePc, QuotePc, ReadyPc
<1>8. Passes' BY <1>w, <1>1, <1>2, <1>3, <1>6 DEF Passes, NothingDue, Sense, Work, AnyDue, AfterPc, Later
<1>9. Tidy' BY <1>w, <1>1, <1>2, <1>3 DEF Tidy, NothingDue, FreeUnpaid, Uncopied
<1>10. ToldInv' BY <1>w, <1>1, <1>2, <1>3 DEF ToldInv, ToldRec
<1>11. Requests' BY <1>1, <1>4, RequestsIdle
<1>12. Priced' BY <1>1, <1>2, <1>3 DEF Priced
<1>13. RefundInv' BY <1>1, <1>2, <1>3, <1>4 DEF RefundInv, Busy
<1> QED BY <1>5, <1>7, <1>8, <1>9, <1>10, <1>11, <1>12, <1>13 DEF OrderlyInv


\* A request that overlaps a pass or a webhook asks for nothing more.
LEMMA IdlingKept ==
  ASSUME Apart, OrderlyInv, ~Alone, req' = req, draft'.tags = draft.tags, Idling => Idling',
         money'.vouchers = money.vouchers
  PROVE  Requests'
<1>1. CASE ~Busy("a") BY <1>1, RequestsIdle
<1>2. CASE Busy("a")
  <2>1. Overlaps(req["a"]) /\ Idling /\ Requests BY <1>2 DEF Apart, OrderlyInv, Requests
  <2> QED BY <1>2, <2>1 DEF Requests, Overlaps, Busy
<1> QED BY <1>1, <1>2

LEMMA CopyOrderly ==
  ASSUME TypeInv, TypeInv', Apart, OrderlyInv, Copy
  PROVE  OrderlyInv' /\ (Idling => Idling')
<1> USE DEF LineIs, GateDue, FreeDue, ApproveDue, QuoteDue, ReadyDue, Same, GoesTo, TagsAre, Elsewhere, Asked, SameCopies
<1>t. chain.tags \in SUBSET Tag
  BY PassRec, FetchIs, CopyIs DEF ChainRec, TypeInv, DraftRec, GoesTo
<1>w. Turns(chain.tags) BY <1>t, OnwardIs DEF Turns
<1> USE DEF Turns
<1>1. /\ chain.pc = "copy" /\ Elsewhere /\ chain'.tags = chain.tags /\ chain'.item = known
      /\ IF known THEN LineIs(chain.price, TRUE) ELSE SameCopies
      /\ chain'.pc = IF "free" \in chain.tags /\ chain.price > 0 THEN "zero"
                     ELSE IF known THEN "reread" ELSE Onward(chain.tags)
      /\ GoesTo(chain'.pc) /\ chain.price \in Nat
      /\ (known = TRUE \/ known = FALSE) /\ (draft.item = TRUE \/ draft.item = FALSE)
  BY CopyIs, MoneyIsNat DEF Copies, ChainRec, TypeInv, DraftRec
<1>2. Sense /\ View /\ Passes /\ Tidy /\ ToldInv /\ Priced /\ RefundInv BY DEF OrderlyInv
<1>3. /\ chain.price = draft.price /\ chain.item = draft.item /\ ~draft.item /\ "outside" \notin draft.tags
      /\ Same \/ NothingDue(chain.tags)
      /\ "free" \in chain.tags => "free" \in draft.tags
  BY <1>1, <1>2 DEF View, GatePc, FreePc, ApprovePc, QuotePc, ReadyPc
<1>4. Idling => Idling'
  BY <1>1, <1>3, <1>w DEF Idling, FreeUnpaid, Uncopied
<1>5. Sense' BY <1>1, <1>2, <1>3 DEF Sense, Later, Class
<1>6. ~Blocked' <=> ~Blocked BY <1>1, <1>2, <1>3 DEF Blocked, Sense, Later
<1>7. View'
  <2>1. chain'.pc \in {"zero", "reread"} \/ (chain'.pc = Onward(chain.tags) /\ ~known) BY <1>1
  <2>2. CASE chain'.pc \in {"zero", "reread"}
    BY <1>w, <1>1, <1>3, <2>2 DEF View, NothingDue, GatePc, FreePc, ApprovePc, QuotePc, ReadyPc
  <2>3. CASE chain'.pc = Onward(chain.tags) /\ ~known
    <3>1. /\ draft' = draft /\ chain'.tags = chain.tags /\ chain'.price = chain.price /\ chain'.item = draft.item
      BY <1>1, <1>3, <2>3
    <3>2. CASE Onward(chain.tags) = "end"
      BY <1>1, <1>3, <2>3, <3>1, <3>2 DEF View, GatePc, FreePc, ApprovePc, QuotePc, ReadyPc
    <3>3. CASE Onward(chain.tags) # "end"
      <4>1. Same BY <1>w, <1>3, <3>3
      <4> QED BY <1>w, <1>1, <1>3, <2>3, <3>1, <3>3, <4>1
              DEF View, GatePc, FreePc, ApprovePc, QuotePc, ReadyPc
    <3> QED BY <3>2, <3>3
  <2> QED BY <2>1, <2>2, <2>3
<1>8. Passes' BY <1>w, <1>1, <1>2, <1>3, <1>6 DEF Passes, NothingDue, Sense, Work, AnyDue, AfterPc, Later
<1>9. Tidy' BY <1>w, <1>1, <1>2, <1>3 DEF Tidy, NothingDue, FreeUnpaid, Uncopied
<1>10. ToldInv' BY <1>w, <1>1, <1>2, <1>3 DEF ToldInv, ToldRec
<1>11. Requests' BY <1>1, <1>4, IdlingKept DEF Alone
<1>12. Priced' BY <1>1, <1>2, <1>3 DEF Priced
<1>13. RefundInv' BY <1>1, <1>2, <1>3 DEF RefundInv, Busy
<1> QED BY <1>4, <1>5, <1>7, <1>8, <1>9, <1>10, <1>11, <1>12, <1>13 DEF OrderlyInv

LEMMA FetchOrderly ==
  ASSUME TypeInv, TypeInv', Apart, OrderlyInv, Fetch
  PROVE  OrderlyInv' /\ (Idling => Idling')
<1> USE DEF GateDue, FreeDue, ApproveDue, QuoteDue, ReadyDue, Same, GoesTo, TagsAre, Elsewhere, Asked, SameCopies
<1>t. draft.tags \in SUBSET Tag
  BY PassRec, FetchIs, CopyIs DEF ChainRec, TypeInv, DraftRec, GoesTo
<1>w. Turns(draft.tags) BY <1>t, OnwardIs DEF Turns
<1> USE DEF Turns
<1>1. /\ Running /\ chain \in ChainRec /\ chain.pc = "fetch" /\ SameCopies /\ Elsewhere
      /\ Running' /\ chain' \in ChainRec /\ chain'.pass = chain.pass /\ chain'.pending = chain.pending
      /\ chain'.tags = draft.tags /\ chain'.price = draft.price /\ chain'.item = draft.item
      /\ chain'.pc = IF draft.tags = {} THEN "end"
                     ELSE IF ~draft.item /\ "outside" \notin draft.tags THEN "copy"
                     ELSE IF "free" \in draft.tags /\ draft.price > 0 THEN "zero"
                     ELSE Onward(draft.tags)
      /\ draft.price \in Nat
  BY FetchIs, MoneyIsNat DEF TypeInv, DraftRec
<1>2. Sense /\ View /\ Passes /\ Tidy /\ ToldInv /\ Priced /\ RefundInv BY DEF OrderlyInv
<1>4. Idling => Idling'
  BY <1>1, <1>w DEF Idling, FreeUnpaid, Uncopied, NothingDue
<1>5. Sense' BY <1>1, <1>2 DEF Sense, Later, Class
<1>6. ~Blocked' <=> ~Blocked BY <1>1, <1>2 DEF Blocked, Sense, Later
<1>7. View' BY <1>w, <1>1, <1>2, <1>6 DEF View, NothingDue, Sense, Later, AnyDue, GatePc, FreePc, ApprovePc, QuotePc, ReadyPc
<1>8. Passes' BY <1>w, <1>1, <1>2, <1>6 DEF Passes, NothingDue, Sense, Work, AnyDue, AfterPc, Later
<1>9. Tidy' BY <1>w, <1>1, <1>2 DEF Tidy, NothingDue, FreeUnpaid, Uncopied
<1>10. ToldInv' BY <1>w, <1>1, <1>2 DEF ToldInv, ToldRec
<1>11. Requests' BY <1>1, <1>4, IdlingKept DEF Alone
<1>12. Priced' BY <1>1, <1>2 DEF Priced
<1>13. RefundInv' BY <1>1, <1>2 DEF RefundInv, Busy
<1> QED BY <1>4, <1>5, <1>7, <1>8, <1>9, <1>10, <1>11, <1>12, <1>13 DEF OrderlyInv

LEMMA EndPassOrderly ==
  ASSUME TypeInv, TypeInv', Apart, OrderlyInv, EndPass
  PROVE  OrderlyInv' /\ (Idling => Idling')
<1> USE DEF Fresh, GateDue, FreeDue, ApproveDue, QuoteDue, ReadyDue, Same, GoesTo, TagsAre, Elsewhere, Asked, SameCopies
<1>1. /\ Running /\ chain \in ChainRec /\ chain.pc = "end" /\ SameCopies /\ Elsewhere /\ chain.pass \in 1 .. 3
      /\ chain.pending /\ chain.pass < 3 => Fresh(chain.pass + 1)
      /\ ~(chain.pending /\ chain.pass < 3) => chain' = Idle /\ Idle.pc = "idle" /\ ~Running'
  BY EndPassIs DEF ChainRec, Idle
<1>2. Sense /\ View /\ Passes /\ Tidy /\ ToldInv /\ Priced /\ RefundInv BY DEF OrderlyInv
<1>4. Idling => Idling'
  BY <1>1 DEF Idling, FreeUnpaid, Uncopied
<1>5. Sense' BY <1>1, <1>2 DEF Sense, Later, Class
<1>6. ~Blocked' <=> ~Blocked BY <1>1, <1>2 DEF Blocked, Sense, Later
<1>7. View' BY <1>1, <1>2, <1>6 DEF View, Sense, Later, AnyDue, GatePc, FreePc, ApprovePc, QuotePc, ReadyPc
<1>8. Passes' BY <1>1, <1>2, <1>6 DEF Passes, Sense, Work, AnyDue, AfterPc, Later
<1>9. Tidy' BY <1>1, <1>2 DEF Tidy, FreeUnpaid, Uncopied
<1>10. ToldInv' BY <1>1, <1>2 DEF ToldInv, ToldRec
<1>11. Requests' BY <1>1, <1>4, IdlingKept DEF Alone
<1>12. Priced' BY <1>1, <1>2 DEF Priced
<1>13. RefundInv' BY <1>1, <1>2 DEF RefundInv, Busy
<1> QED BY <1>4, <1>5, <1>7, <1>8, <1>9, <1>10, <1>11, <1>12, <1>13 DEF OrderlyInv

LEMMA DeliverOrderly ==
  ASSUME TypeInv, TypeInv', Apart, OrderlyInv, Deliver
  PROVE  OrderlyInv' /\ (Idling => Idling')
<1> USE DEF Fresh, GateDue, FreeDue, ApproveDue, QuoteDue, ReadyDue, Same, GoesTo, TagsAre, Elsewhere, Asked, SameCopies
<1>1. /\ draft' = draft /\ due > 0 /\ due' \in Nat /\ due' = due - 1 /\ Elsewhere
      /\ ~Running => Fresh(1)
      /\ Running => /\ Running' /\ chain' \in ChainRec /\ chain \in ChainRec /\ chain'.pending
                    /\ chain'.pc = chain.pc /\ chain'.pass = chain.pass /\ chain'.ask = chain.ask
                    /\ chain'.tags = chain.tags /\ chain'.price = chain.price /\ chain'.item = chain.item
  BY DeliverIs
<1>2. Sense /\ View /\ Passes /\ Tidy /\ ToldInv /\ Priced /\ RefundInv BY DEF OrderlyInv
<1>3. due \in Nat /\ (~Running => chain.pc = "idle")
  BY RepairAssumption DEF TypeInv, Running
<1>4. Idling => Idling'
  BY <1>1, <1>3 DEF Idling, FreeUnpaid, Uncopied
<1>5. Sense' BY <1>1, <1>2, <1>3 DEF Sense, Later, Class
<1>6. ~Blocked' <=> ~Blocked BY <1>1, <1>2, <1>3 DEF Blocked, Sense, Later
<1>7. View' BY <1>1, <1>2, <1>3, <1>6 DEF View, Sense, Later, AnyDue, GatePc, FreePc, ApprovePc, QuotePc, ReadyPc
<1>8. Passes' BY <1>1, <1>2, <1>3, <1>6 DEF Passes, Sense, Work, AnyDue, AfterPc, Later
<1>9. Tidy' BY <1>1, <1>2, <1>3 DEF Tidy, FreeUnpaid, Uncopied
<1>10. ToldInv' BY <1>1, <1>2, <1>3 DEF ToldInv, ToldRec
<1>11. Requests' BY <1>1, <1>4, IdlingKept DEF Alone
<1>12. Priced' BY <1>1, <1>2, <1>3 DEF Priced
<1>13. RefundInv' BY <1>1, <1>2, <1>3 DEF RefundInv, Busy
<1> QED BY <1>4, <1>5, <1>7, <1>8, <1>9, <1>10, <1>11, <1>12, <1>13 DEF OrderlyInv

LEMMA PassOrderly == TypeInv /\ TypeInv' /\ Apart /\ OrderlyInv /\ (Deliver \/ PassStep) => OrderlyInv'
<1> SUFFICES ASSUME TypeInv, TypeInv', Apart, OrderlyInv, Deliver \/ PassStep PROVE OrderlyInv' OBVIOUS
<1>1. CASE Gate
  <2>1. CASE IF "outside" \in chain.tags THEN ~chain.item ELSE ~known
    <3>1. PICK tag \in Hold : IF tag \in chain.tags THEN SameCopies ELSE TagsAre(chain.tags \cup {tag})
      BY <1>1, <2>1, GateIs
    <3>2. GoesTo("end") BY <1>1, <2>1, GateIs
    <3> QED BY <1>1, <2>1, <3>1, <3>2, GateHoldsOrderly
  <2>2. CASE ~(IF "outside" \in chain.tags THEN ~chain.item ELSE ~known)
    BY <1>1, <2>2, GatePassesOrderly
  <2> QED BY <2>1, <2>2
<1>2. CASE Received BY <1>2, MailReceivedOrderly, MarkReceivedOrderly DEF Received
<1>3. CASE MadeFree BY <1>3, MailFreeOrderly, MarkOrderly, PutOrderly DEF MadeFree
<1>4. CASE Approved BY <1>4, MailApprovedOrderly, MarkOrderly DEF Approved
<1>5. CASE Quoted BY <1>5, MakeLinkOrderly, MailQuoteOrderly, MarkOrderly DEF Quoted
<1>6. CASE Ready
  BY <1>6, ReadFieldsOrderly, MakeBalanceLinkOrderly, MailReadyOrderly, MarkOrderly, PutOrderly DEF Ready
<1> QED BY <1>1, <1>2, <1>3, <1>4, <1>5, <1>6, DeliverOrderly, EndPassOrderly, FetchOrderly, CopyOrderly, PutOrderly,
           RereadOrderly, UnholdOrderly
    DEF PassStep

--------------------
(* Orderly repairs: what staff and customers do between passes *)

\* Once all has been handled nothing is left to do, or the intake is held.
LEMMA AtRest ==
  ASSUME OrderlyInv, Alone
  PROVE  /\ ~Work /\ ~FreeUnpaid /\ ~Uncopied /\ "resync" \notin draft.tags
         /\ ~GateDue(draft.tags) => NothingDue(draft.tags)
         /\ GateDue(draft.tags) => ~ApproveDue(draft.tags) /\ ~QuoteDue(draft.tags) /\ ~ReadyDue(draft.tags)
         /\ chain.pc \notin {"markReceived", "markFree", "markApproved", "markReady", "serial"}
<1>1. ~Running /\ due = 0 BY DEF Alone
<1>2. chain.pc = "idle" BY <1>1 DEF Running
<1>3. ~Work BY <1>1 DEF OrderlyInv, Passes
<1>4. ~FreeUnpaid /\ ~Uncopied /\ "resync" \notin draft.tags BY <1>1 DEF OrderlyInv, Tidy
<1>5. ~GateDue(draft.tags) => NothingDue(draft.tags)
  BY <1>3, <1>4 DEF Work, Blocked, AnyDue, NothingDue
<1>6. GateDue(draft.tags) => ~ApproveDue(draft.tags) /\ ~QuoteDue(draft.tags) /\ ~ReadyDue(draft.tags)
  BY DEF OrderlyInv, Sense, Later, ApproveDue, QuoteDue, ReadyDue
<1> QED BY <1>2, <1>3, <1>4, <1>5, <1>6

\* What does not depend on requests and money.
Steady == Sense /\ View /\ Passes /\ Tidy /\ ToldInv /\ Priced

LEMMA SteadyKept ==
  ASSUME Steady, UNCHANGED <<case, draft, known, due, chain, told, serials, wanted>>
  PROVE  Steady' /\ (Idling <=> Idling')
<1>1. (Running <=> Running') /\ (Same <=> Same') /\ (Blocked <=> Blocked') /\ (Work <=> Work')
      /\ (FreeUnpaid <=> FreeUnpaid') /\ (Uncopied <=> Uncopied')
  BY DEF Running, Same, Blocked, Work, AnyDue, FreeUnpaid, Uncopied, GateDue
<1>2. Sense' /\ Priced' /\ ToldInv' BY DEF Steady, Sense, Priced, ToldInv
<1>3. View' BY <1>1 DEF Steady, View, AnyDue
<1>4. Passes' BY <1>1 DEF Steady, Passes
<1>5. Tidy' BY <1>1 DEF Steady, Tidy
<1>6. Idling <=> Idling' BY <1>1 DEF Idling
<1> QED BY <1>2, <1>3, <1>4, <1>5, <1>6 DEF Steady

\* A write of the draft while no pass runs asks for a pass.
LEMMA SteadyWritten ==
  ASSUME Steady, ~Running, UNCHANGED <<case, chain, told, serials>>, due' > 0,
         Sense', Priced',
         \A t \in {"hq-notified", "free-notified", "store-hq-notified", "completion-notified", "complete"} :
            t \in draft.tags => t \in draft'.tags
  PROVE  Steady'
<1>1. ~Running' /\ chain'.pc = "idle" /\ chain.pc = "idle" BY DEF Running
<1>2. View' BY <1>1 DEF View
<1>3. Passes' BY <1>1 DEF Passes
<1>4. Tidy' BY <1>1 DEF Tidy
<1>5. ToldInv' BY <1>1 DEF Steady, ToldInv
<1> QED BY <1>2, <1>3, <1>4, <1>5 DEF Steady

LEMMA OrderlyIs == OrderlyInv <=> Steady /\ Requests /\ RefundInv
  BY DEF OrderlyInv, Steady

LEMMA StaffOrderly ==
  ASSUME TypeInv, TypeInv', OrderlyInv, ~Allowed("overlap"), Staffs
  PROVE  OrderlyInv'
<1>1. Settled /\ UNCHANGED <<case, chain, req, told, serials, money, wanted>> /\ due' > 0
  BY StaffTagIs, FillIs, Prompts DEF Staffs, TagsAre, Asked
<1>2. ~Running /\ Alone /\ ~Busy("a") /\ ~Busy("a")' BY <1>1 DEF Settled, Busy, Slot, Alone
<1>3. Requests' BY <1>1, <1>2, RequestsIdle
<1>4. CASE FillReference
  <2>1. draft' = draft BY <1>4, FillIs
  <2>2. Sense' /\ Priced' BY <1>1, <2>1, OrderlyIs DEF Steady, Sense, Priced
  <2>3. RefundInv' BY <1>1, <1>2, <2>1 DEF OrderlyInv, RefundInv
  <2>4. \A t \in {"hq-notified", "free-notified", "store-hq-notified", "completion-notified", "complete"} :
           t \in draft.tags => t \in draft'.tags
    BY <2>1
  <2>5. Steady' BY <1>1, <1>2, <2>2, <2>4, SteadyWritten, OrderlyIs
  <2> QED BY <1>3, <2>3, <2>5 DEF OrderlyInv, Steady
<1>5. ASSUME NEW tag \in Class \cup {"outside", "resync"}, StaffTag(tag) PROVE OrderlyInv'
  <2>1. /\ draft'.tags = draft.tags \cup {tag} /\ draft'.price = draft.price /\ tag \notin draft.tags
        /\ tag = "outside" => draft.tags = {}
        /\ tag = "intake" => draft.tags \cap Class = {}
        /\ tag \in {"intake", "free", "outside", "resync"}
    BY <1>5, StaffTagIs DEF TagsAre, Class
  <2>2. Sense /\ Priced BY OrderlyIs DEF Steady
  <2>3. Sense'
    <3>1. CASE tag \in {"outside", "resync"}
      BY <2>1, <2>2, <3>1 DEF Sense, Later, Class, GateDue, FreeDue, ApproveDue, QuoteDue, ReadyDue
    <3>2. CASE tag = "intake"
      <4>1. draft.tags \cap Later = {} /\ "hq-notified" \notin draft.tags /\ "free" \notin draft.tags
        BY <2>1, <2>2, <3>2 DEF Sense, Class
      <4> QED BY <2>1, <3>2, <4>1 DEF Sense, Later, Class, GateDue, FreeDue, ApproveDue, QuoteDue, ReadyDue
    <3>3. CASE tag = "free"
      <4>1. ~ApproveDue(draft.tags) /\ ~QuoteDue(draft.tags) /\ ~ReadyDue(draft.tags)
        BY <1>2, AtRest DEF NothingDue
      <4>2. \A D \in {"store-approved", "store-hq-notified", "estimate-ready", "estimate-sent", "complete",
                      "completion-notified", "hq-notified", "intake"} :
               D \in draft'.tags <=> D \in draft.tags
        BY <2>1, <3>3
      <4>3. /\ ~ApproveDue(draft'.tags) /\ ~QuoteDue(draft'.tags) /\ ~ReadyDue(draft'.tags)
            /\ GateDue(draft'.tags) <=> GateDue(draft.tags)
        BY <4>1, <4>2 DEF ApproveDue, QuoteDue, ReadyDue, GateDue
      <4>4. draft'.tags \cap Class # {} BY <2>1, <3>3 DEF Class
      <4>5. draft'.tags \cap Later = draft.tags \cap Later BY <2>1, <3>3 DEF Later
      <4> QED BY <2>2, <4>2, <4>3, <4>4, <4>5 DEF Sense
    <3> QED BY <2>1, <3>1, <3>2, <3>3
  <2>4. Priced' BY <1>1, <2>1, <2>2 DEF Priced
  <2>5. RefundInv' BY <1>1, <1>2, <2>1 DEF OrderlyInv, RefundInv
  <2>6. Steady' BY <1>1, <1>2, <2>1, <2>3, <2>4, SteadyWritten, OrderlyIs
  <2> QED BY <1>3, <2>5, <2>6 DEF OrderlyInv, Steady
<1> QED BY <1>4, <1>5 DEF Staffs

LEMMA StartOrderly ==
  ASSUME TypeInv, TypeInv', OrderlyInv, ~Allowed("overlap"),
         NEW s \in Slot, Posts(s) \/ (\E n \in calls : Notified(s, n))
  PROVE  OrderlyInv'
<1>1. PICK task \in Job, amount \in Nat \cup {None}, extra \in BOOLEAN :
         /\ Start(s, task, amount, extra) /\ Settled
         /\ task = "complete" => draft.tags \cap Later # {}
  <2>1. CASE Posts(s)
    <3>1. PICK task \in Job, amount \in Nat \cup {None}, extra \in BOOLEAN :
            /\ Post(s, task, amount, extra)
            /\ task = "complete" => \E f \in Amount \cup {0, None}, specs \in BOOLEAN :
                                      amount = f /\ extra = specs /\ PostComplete(s, f, specs)
      BY <2>1, PostIs
    <3>2. task = "complete" => draft.tags \cap {"paid", "free-notified", "store-hq-notified"} # {}
      BY <3>1 DEF PostComplete
    <3>3. {"paid", "free-notified", "store-hq-notified"} \subseteq Later BY DEF Later
    <3>4. task = "complete" => draft.tags \cap Later # {} BY <3>2, <3>3
    <3> QED BY <3>1, <3>4, Prompts DEF Post
  <2>2. CASE \E n \in calls : Notified(s, n)
    <3>1. Start(s, "pay", 0, FALSE) /\ Settled BY <2>2, NotifiedIs
    <3>2. "pay" \in Job BY DEF Job
    <3> QED BY <3>1, <3>2
  <2> QED BY <2>1, <2>2
<1>2. /\ Alone /\ ~Busy("a") /\ req'["a"].pc = "read" /\ req'["a"].job = task /\ Busy("a")'
  BY <1>1, StartsAlone
<1>3. UNCHANGED <<case, draft, known, due, chain, told, serials, wanted, money>>
  BY <1>1 DEF Start, ghosts
<1>4. Steady' BY <1>3, SteadyKept, OrderlyIs
<1>5. Requests' BY <1>1, <1>2, <1>3 DEF Requests, Overlaps
<1>6. RefundInv' BY <1>2, <1>3 DEF OrderlyInv, RefundInv
<1> QED BY <1>4, <1>5, <1>6 DEF OrderlyInv, Steady

LEMMA PayOrderly ==
  ASSUME TypeInv, OrderlyInv, NEW l \in links, PayLink(l)
  PROVE  OrderlyInv'
<1>1. /\ UNCHANGED <<case, draft, known, due, chain, req, told, serials, wanted>>
      /\ money'.back = money.back /\ money'.vouchers = money.vouchers
  BY PayIs
<1>2. Steady' /\ (Idling <=> Idling') BY <1>1, SteadyKept, OrderlyIs
<1>3. Busy("a")' <=> Busy("a") BY <1>1 DEF Busy
<1>4. Requests' BY <1>1, <1>2, <1>3 DEF OrderlyInv, Requests, Overlaps
<1>5. RefundInv' BY <1>1, <1>3 DEF OrderlyInv, RefundInv
<1> QED BY <1>2, <1>4, <1>5 DEF OrderlyInv, Steady

--------------------
(* Orderly repairs: the steps of a request *)

\* The tags a request leaves, by its task.
LEMMA NewTagsIs ==
  ASSUME NEW r \in ReqRec
  PROVE  /\ r.job = "estimate" => NewTags(r) = r.tags \cup {IF r.amount = 0 THEN "free" ELSE "estimate-ready"}
         /\ r.job = "complete" => NewTags(r) = r.tags \cup {"complete"}
         /\ r.job = "approve" => NewTags(r) = r.tags \cup {"store-approved"}
         /\ r.job = "refund" => NewTags(r) = r.tags \cup {"refund-requested"}
         /\ r.job = "pay" => NewTags(r) = (r.tags \ Quoting) \cup {"paid"}
         /\ r.job \in Class =>
               NewTags(r) = (r.tags \ {"missing-inspection"}) \cup {"outside"}
                               \cup (IF r.tags \cap Class = {} THEN {r.job} ELSE {})
         /\ r.job \in {"estimate", "complete", "approve", "refund", "pay"} \cup Class
<1>1. r.job \in Job BY DEF ReqRec
<1> QED BY <1>1 DEF NewTags, Job, Class, Quoting

\* The rest of a draft that asks for nothing more.
LEMMA Restful ==
  ASSUME OrderlyInv, Alone, ~GateDue(draft.tags)
  PROVE  /\ ~FreeDue(draft.tags) /\ ~ApproveDue(draft.tags) /\ ~QuoteDue(draft.tags) /\ ~ReadyDue(draft.tags)
         /\ "resync" \notin draft.tags
  BY AtRest DEF NothingDue

\* A request that reads, or writes neither the tags nor the line.
LEMMA SilentOrderly ==
  ASSUME TypeInv, Apart, OrderlyInv, Ordered,
         Read("a") \/ WriteFinal("a") \/ ReadDelta("a") \/ IssueVoucher("a") \/ WritePaid("a")
  PROVE  OrderlyInv'
<1>a. "a" \in Slot BY DEF Slot
<1>1. Busy("a") /\ UNCHANGED <<case, draft, known, due, chain, told, serials, wanted>>
  BY <1>a, Reads, WriteFinalIs, ReadDeltaIs, IssueVoucherIs, WritePaidIs DEF ghosts
<1>2. Steady' BY <1>1, SteadyKept, OrderlyIs
<1>3. Requests /\ RefundInv BY DEF OrderlyInv
<1>4. ~Overlaps(req["a"]) /\ req["a"].pc # "read" =>
         req["a"].tags = draft.tags /\ req["a"].price = draft.price /\ req["a"].item = draft.item
  BY <1>1 DEF Apart, Overlaps
<1>5. CASE Read("a")
  <2>1. PICK r \in ReqRec : r = req["a"] BY <1>a, <1>5, Reads
  <2>2. /\ r.pc = "read" /\ UNCHANGED money
        /\ AfterRead(r) = "idle" => ~Busy("a")'
        /\ AfterRead(r) # "idle" =>
              Busy("a")' /\ req'["a"].pc = AfterRead(r) /\ req'["a"].job = r.job /\ req'["a"].tags = draft.tags
    BY <1>a, <1>5, <2>1, Reads DEF ghosts
  <2>3. /\ AfterRead(r) \in {"idle", "final", "delta", "put"}
        /\ r.job = "complete" => AfterRead(r) = "final"
        /\ r.job = "refund" => AfterRead(r) = IF "refund-requested" \in draft.tags THEN "idle" ELSE "delta"
        /\ r.job = "pay" /\ AfterRead(r) # "idle" => draft.tags \cap Quoting # {}
    <3>1. CASE r.job = "complete" BY <3>1 DEF AfterRead, Class
    <3>2. CASE r.job = "approve" BY <3>2 DEF AfterRead, Class
    <3>3. CASE r.job = "refund" BY <3>3 DEF AfterRead, Class
    <3>4. CASE r.job = "pay" BY <3>4 DEF AfterRead, Class, Quoting
    <3>5. CASE r.job \in Class BY <3>5 DEF AfterRead, Class
    <3>6. CASE r.job = "estimate" BY <3>6 DEF AfterRead, Class
    <3> QED BY <3>1, <3>2, <3>3, <3>4, <3>5, <3>6, NewTagsIs
  <2>4. money.vouchers > 0 => "refund-requested" \in draft.tags BY <1>3, <2>1, <2>2 DEF RefundInv
  <2>5. money.vouchers \in Nat BY DEF TypeInv
  <2>6. Requests' BY <1>1, <1>3, <2>1, <2>2, <2>3, <2>4, <2>5 DEF Requests, Overlaps
  <2>7. RefundInv' BY <1>1, <1>3, <2>2, <2>4 DEF RefundInv
  <2> QED BY <1>2, <2>6, <2>7 DEF OrderlyInv, Steady
<1>6. CASE WriteFinal("a")
  <2>1. Requests' BY <1>a, <1>1, <1>3, <1>4, <1>6, WriteFinalIs DEF Requests, Overlaps
  <2>2. RefundInv' BY <1>a, <1>1, <1>3, <1>6, WriteFinalIs DEF RefundInv
  <2> QED BY <1>2, <2>1, <2>2 DEF OrderlyInv, Steady
<1>7. CASE ReadDelta("a")
  <2>1. Requests' BY <1>a, <1>1, <1>3, <1>4, <1>7, ReadDeltaIs DEF Requests, Overlaps
  <2>2. RefundInv' BY <1>a, <1>1, <1>3, <1>7, ReadDeltaIs DEF RefundInv
  <2> QED BY <1>2, <2>1, <2>2 DEF OrderlyInv, Steady
<1>8. CASE IssueVoucher("a")
  <2>1. Requests' BY <1>a, <1>1, <1>3, <1>4, <1>8, IssueVoucherIs DEF Requests, Overlaps
  <2>2. told.ready > 0 /\ money.vouchers = 0 BY <1>a, <1>1, <1>3, <1>8, IssueVoucherIs DEF Ordered, Requests
  <2>3. RefundInv' BY <1>a, <1>1, <1>3, <1>8, <2>2, IssueVoucherIs DEF RefundInv
  <2> QED BY <1>2, <2>1, <2>3 DEF OrderlyInv, Steady
<1>9. CASE WritePaid("a")
  <2>1. Requests' BY <1>a, <1>9, WritePaidIs DEF Requests
  <2>2. RefundInv' BY <1>a, <1>1, <1>3, <1>9, WritePaidIs DEF RefundInv
  <2> QED BY <1>2, <2>1, <2>2 DEF OrderlyInv, Steady
<1> QED BY <1>5, <1>6, <1>7, <1>8, <1>9

LEMMA WriteSpecsOrderly ==
  ASSUME TypeInv, Apart, OrderlyInv, WriteSpecs("a")
  PROVE  OrderlyInv'
<1>a. "a" \in Slot BY DEF Slot
<1>1. PICK r \in ReqRec : r = req["a"] BY <1>a, WriteSpecsIs
<1>2. /\ Busy("a") /\ r.pc = "specs" /\ r.job = "complete"
      /\ draft'.tags = draft.tags /\ draft'.price = r.price /\ draft'.item = r.item
      /\ due' \in Nat /\ due' > 0 /\ due' <= due + 1
      /\ UNCHANGED <<case, known, fields, chain, links, calls, serials, told, money, wanted>>
      /\ Busy("a")' /\ req'["a"].job = "complete" /\ req'["a"].pc = "put" /\ req'["a"].tags = r.tags
  BY <1>a, <1>1, WriteSpecsIs DEF LineIs, Asked
<1>3. Alone /\ r.tags = draft.tags /\ r.price = draft.price /\ r.item = draft.item
  BY <1>1, <1>2 DEF Apart, Overlaps
<1>4. Sense /\ Priced /\ Requests /\ RefundInv BY DEF OrderlyInv
<1>5. draft.tags \cap Later # {} /\ ~GateDue(draft.tags) BY <1>1, <1>2, <1>4 DEF Requests, Sense
<1>6. NothingDue(draft.tags) /\ ~FreeUnpaid /\ ~Uncopied BY <1>3, <1>5, AtRest
<1>7. Idling'
  <2>1. ~Running /\ due = 0 BY <1>3 DEF Alone
  <2>2. ~Running' BY <1>2, <2>1 DEF Running
  <2>3. NothingDue(draft'.tags) BY <1>2, <1>6
  <2>4. ~FreeUnpaid' /\ ~Uncopied' BY <1>2, <1>3, <1>6 DEF FreeUnpaid, Uncopied
  <2> QED BY <1>2, <2>1, <2>2, <2>3, <2>4 DEF Idling
<1>8. Steady'
  <2>1. Sense' BY <1>2, <1>4 DEF Sense
  <2>2. Priced' BY <1>2, <1>3, <1>4 DEF Priced
  <2>3. ~Running BY <1>3 DEF Alone
  <2> QED BY <1>2, <2>1, <2>2, <2>3, SteadyWritten, OrderlyIs
<1>9. Requests' BY <1>1, <1>2, <1>3, <1>5, <1>7 DEF Requests, Overlaps
<1>10. RefundInv' BY <1>1, <1>2, <1>4 DEF RefundInv
<1> QED BY <1>8, <1>9, <1>10 DEF OrderlyInv, Steady

\* The write of a request that runs alone keeps what its tags leave sensible.
LEMMA PutAlone ==
  ASSUME TypeInv, OrderlyInv, Alone, Put("a"), req["a"].job # "pay", Sense', Priced',
         \A t \in {"hq-notified", "free-notified", "store-hq-notified", "completion-notified", "complete",
                   "refund-requested"} : t \in draft.tags => t \in draft'.tags,
         req["a"].job = "refund" => "refund-requested" \in draft'.tags
  PROVE  OrderlyInv'
<1>a. "a" \in Slot BY DEF Slot
<1>1. /\ Busy("a") /\ ~Busy("a")' /\ due' > 0 /\ UNCHANGED <<case, chain, told, serials, money>>
  BY <1>a, Puts
<1>2. ~Running BY DEF Alone
<1>3. Steady' BY <1>1, <1>2, SteadyWritten, OrderlyIs
<1>4. Requests' BY <1>1 DEF Requests
<1>5. RefundInv' BY <1>1 DEF OrderlyInv, RefundInv
<1> QED BY <1>3, <1>4, <1>5 DEF OrderlyInv, Steady

LEMMA PutEstimateOrderly ==
  ASSUME TypeInv, Ordered, Apart, OrderlyInv, Put("a"), req["a"].job = "estimate"
  PROVE  OrderlyInv'
<1>a. "a" \in Slot BY DEF Slot
<1>1. PICK r \in ReqRec : r = req["a"] BY <1>a, Puts
<1>2. /\ Busy("a") /\ r.pc = "put" /\ r.job = "estimate" /\ r.amount \in Money
      /\ draft'.tags = NewTags(r) /\ draft'.price = r.amount /\ wanted' = r.amount /\ case' = case
  BY <1>a, <1>1, Puts, RequestRec DEF JobOK
<1>3. Alone /\ r.tags = draft.tags BY <1>1, <1>2 DEF Apart, Overlaps
<1>4. Sense /\ ToldInv BY DEF OrderlyInv
<1>5. told.received > 0 BY <1>1, <1>2, <1>a DEF Ordered
<1>6. "hq-notified" \in draft.tags /\ "intake" \in draft.tags /\ ~GateDue(draft.tags)
  BY <1>3, <1>4, <1>5, AtRest DEF ToldInv, Sense, GateDue
<1>7. draft'.tags = draft.tags \cup {IF r.amount = 0 THEN "free" ELSE "estimate-ready"}
  BY <1>2, <1>3, NewTagsIs
<1>8. ~FreeDue(draft.tags) /\ ~ApproveDue(draft.tags) /\ ~QuoteDue(draft.tags) /\ ~ReadyDue(draft.tags)
  BY <1>3, <1>6, Restful
<1>9. Sense'
  <2>1. /\ ~GateDue(draft'.tags) /\ ~ApproveDue(draft'.tags) /\ ~ReadyDue(draft'.tags)
        /\ ~FreeDue(draft'.tags) \/ ~QuoteDue(draft'.tags)
    BY <1>6, <1>7, <1>8 DEF GateDue, FreeDue, ApproveDue, QuoteDue, ReadyDue
  <2>2. "intake" \in draft'.tags /\ draft'.tags \cap Class # {} BY <1>6, <1>7 DEF Class
  <2> QED BY <2>1, <2>2 DEF Sense
<1>10. Priced'
  <2>1. None \notin Money BY MoneyIsNat
  <2> QED BY <1>2, <2>1 DEF Priced
<1> QED BY <1>1, <1>2, <1>3, <1>7, <1>9, <1>10, PutAlone

LEMMA PutApproveOrderly ==
  ASSUME TypeInv, Ordered, Apart, OrderlyInv, Put("a"), req["a"].job = "approve"
  PROVE  OrderlyInv'
<1>a. "a" \in Slot BY DEF Slot
<1>1. PICK r \in ReqRec : r = req["a"] BY <1>a, Puts
<1>2. /\ Busy("a") /\ r.pc = "put" /\ r.job = "approve"
      /\ draft'.tags = NewTags(r) /\ draft'.price = draft.price /\ UNCHANGED <<case, wanted>>
  BY <1>a, <1>1, Puts DEF Class
<1>3. Alone /\ r.tags = draft.tags BY <1>1, <1>2 DEF Apart, Overlaps
<1>4. Sense /\ ToldInv /\ Priced BY DEF OrderlyInv
<1>5. told.received > 0 BY <1>1, <1>2, <1>a DEF Ordered
<1>6. "hq-notified" \in draft.tags /\ "intake" \in draft.tags /\ ~GateDue(draft.tags)
  BY <1>3, <1>4, <1>5, AtRest DEF ToldInv, Sense, GateDue
<1>7. draft'.tags = draft.tags \cup {"store-approved"} BY <1>2, <1>3, NewTagsIs
<1>8. ~FreeDue(draft.tags) /\ ~ApproveDue(draft.tags) /\ ~QuoteDue(draft.tags) /\ ~ReadyDue(draft.tags)
  BY <1>3, <1>6, Restful
<1>9. Sense'
  <2>1. ~GateDue(draft'.tags) /\ ~FreeDue(draft'.tags) /\ ~QuoteDue(draft'.tags) /\ ~ReadyDue(draft'.tags)
    BY <1>6, <1>7, <1>8 DEF GateDue, FreeDue, ApproveDue, QuoteDue, ReadyDue
  <2>2. "intake" \in draft'.tags /\ draft'.tags \cap Class # {} BY <1>6, <1>7 DEF Class
  <2> QED BY <2>1, <2>2 DEF Sense
<1>10. Priced' BY <1>2, <1>4, <1>7 DEF Priced
<1> QED BY <1>1, <1>2, <1>3, <1>7, <1>9, <1>10, PutAlone

LEMMA PutRefundOrderly ==
  ASSUME TypeInv, Ordered, Apart, OrderlyInv, Put("a"), req["a"].job = "refund"
  PROVE  OrderlyInv'
<1>a. "a" \in Slot BY DEF Slot
<1>1. PICK r \in ReqRec : r = req["a"] BY <1>a, Puts
<1>2. /\ Busy("a") /\ r.pc = "put" /\ r.job = "refund"
      /\ draft'.tags = NewTags(r) /\ draft'.price = draft.price /\ UNCHANGED <<case, wanted>>
  BY <1>a, <1>1, Puts DEF Class
<1>3. Alone /\ r.tags = draft.tags BY <1>1, <1>2 DEF Apart, Overlaps
<1>4. Sense /\ ToldInv /\ Priced BY DEF OrderlyInv
<1>5. "complete" \in draft.tags BY <1>1, <1>2, <1>4, <1>a DEF Ordered, ToldInv
<1>6. draft.tags \cap Class # {} /\ ~GateDue(draft.tags) BY <1>4, <1>5 DEF Sense, Later
<1>7. draft'.tags = draft.tags \cup {"refund-requested"} BY <1>2, <1>3, NewTagsIs
<1>8. ~FreeDue(draft.tags) /\ ~ApproveDue(draft.tags) /\ ~QuoteDue(draft.tags) /\ ~ReadyDue(draft.tags)
  BY <1>3, <1>6, Restful
<1>9. Sense'
  <2>1. ~GateDue(draft'.tags) /\ ~FreeDue(draft'.tags) /\ ~ApproveDue(draft'.tags) /\ ~QuoteDue(draft'.tags)
    BY <1>6, <1>7, <1>8 DEF GateDue, FreeDue, ApproveDue, QuoteDue, ReadyDue
  <2>2. "hq-notified" \in draft'.tags => "intake" \in draft'.tags BY <1>4, <1>7 DEF Sense
  <2>3. draft'.tags \cap Class # {} BY <1>6, <1>7
  <2> QED BY <2>1, <2>2, <2>3 DEF Sense
<1>10. Priced' BY <1>2, <1>4, <1>7 DEF Priced
<1> QED BY <1>1, <1>2, <1>3, <1>7, <1>9, <1>10, PutAlone

\* The form of an outside piece.
LEMMA PutClassOrderly ==
  ASSUME TypeInv, Ordered, Apart, OrderlyInv, Put("a"), req["a"].job \in Class
  PROVE  OrderlyInv'
<1>a. "a" \in Slot BY DEF Slot
<1>1. PICK r \in ReqRec : r = req["a"] BY <1>a, Puts
<1>2. /\ Busy("a") /\ r.pc = "put" /\ r.job \in Class
      /\ draft'.tags = NewTags(r) /\ draft'.price = r.price /\ UNCHANGED <<case, wanted>>
  BY <1>a, <1>1, Puts DEF Class
<1>3. Alone /\ r.tags = draft.tags /\ r.price = draft.price BY <1>1, <1>2 DEF Apart, Overlaps, Class
<1>4. Sense /\ ToldInv /\ Priced BY DEF OrderlyInv
<1>5. draft'.tags = (draft.tags \ {"missing-inspection"}) \cup {"outside"}
                       \cup (IF draft.tags \cap Class = {} THEN {r.job} ELSE {})
  BY <1>2, <1>3, NewTagsIs
<1>6. CASE draft.tags \cap Class # {}
  <2>1. draft'.tags = (draft.tags \ {"missing-inspection"}) \cup {"outside"} BY <1>5, <1>6
  <2>2. Sense'
    <3>1. \A t \in Tag \ {"missing-inspection", "outside"} : t \in draft'.tags <=> t \in draft.tags
      BY <2>1
    <3>2. /\ GateDue(draft'.tags) <=> GateDue(draft.tags)
          /\ FreeDue(draft'.tags) <=> FreeDue(draft.tags)
          /\ ApproveDue(draft'.tags) <=> ApproveDue(draft.tags)
          /\ QuoteDue(draft'.tags) <=> QuoteDue(draft.tags)
          /\ ReadyDue(draft'.tags) <=> ReadyDue(draft.tags)
      BY <3>1 DEF GateDue, FreeDue, ApproveDue, QuoteDue, ReadyDue, Tag, Class
    <3>3. draft'.tags \cap Later = draft.tags \cap Later /\ draft'.tags \cap Class = draft.tags \cap Class
      BY <2>1 DEF Later, Class
    <3>4. "hq-notified" \in draft'.tags => "intake" \in draft'.tags BY <1>4, <2>1 DEF Sense
    <3> QED BY <1>4, <3>2, <3>3, <3>4 DEF Sense
  <2>3. Priced' BY <1>2, <1>3, <1>4, <2>1 DEF Priced
  <2> QED BY <1>1, <1>2, <1>3, <2>1, <2>2, <2>3, PutAlone DEF Class
<1>7. CASE draft.tags \cap Class = {}
  <2>1. draft'.tags = (draft.tags \ {"missing-inspection"}) \cup {"outside", r.job} BY <1>5, <1>7
  <2>2. draft.tags \cap Later = {} /\ "hq-notified" \notin draft.tags BY <1>4, <1>7 DEF Sense, Class
  <2>3. Sense'
    <3>1. draft'.tags \cap Later = {} /\ "hq-notified" \notin draft'.tags
      BY <1>2, <2>1, <2>2 DEF Later, Class
    <3> QED BY <3>1 DEF Sense, Later, GateDue, FreeDue, ApproveDue, QuoteDue, ReadyDue
  <2>4. Priced' BY <1>2, <1>3, <1>4, <2>1 DEF Priced, Class
  <2> QED BY <1>1, <1>2, <1>3, <2>1, <2>2, <2>3, <2>4, PutAlone DEF Class
<1> QED BY <1>6, <1>7

\* A payment of a draft that awaits one leaves nothing to do.
LEMMA PutPayOrderly ==
  ASSUME TypeInv, Ordered, Apart, OrderlyInv, Put("a"), req["a"].job = "pay"
  PROVE  OrderlyInv' /\ Idling'
<1>a. "a" \in Slot BY DEF Slot
<1>1. PICK r \in ReqRec : r = req["a"] BY <1>a, Puts
<1>2. /\ Busy("a") /\ r.pc = "put" /\ r.job = "pay"
      /\ draft'.tags = NewTags(r) /\ draft'.price = draft.price /\ draft'.item = draft.item
      /\ due' \in Nat /\ due' > 0 /\ due' <= due + 1
      /\ Busy("a")' /\ req'["a"].pc = "paid" /\ req'["a"].job = "pay"
      /\ UNCHANGED <<case, known, chain, told, money, serials, wanted>>
  <2>1. draft'.item = (draft.item \/ r.job \in Class) /\ draft' \in DraftRec BY <1>a, <1>1, Puts
  <2>2. (draft.item = TRUE \/ draft.item = FALSE) BY DEF TypeInv, DraftRec
  <2>3. due' \in 1 .. MaxDue /\ due' <= due + 1 /\ MaxDue \in Nat BY <1>a, Puts, RepairAssumption
  <2>4. r.job \notin Class BY <1>1 DEF Class
  <2>5. draft'.item = draft.item BY <2>1, <2>2, <2>4
  <2> QED BY <1>a, <1>1, <2>3, <2>4, <2>5, Puts
<1>3. Alone /\ r.tags = draft.tags BY <1>1, <1>2 DEF Apart, Overlaps
<1>4. Sense /\ ToldInv /\ Priced /\ Requests /\ RefundInv BY DEF OrderlyInv
<1>5. draft.tags \cap Quoting # {} BY <1>1, <1>2, <1>4 DEF Requests
<1>6. draft.tags \cap Class # {} /\ ~GateDue(draft.tags) BY <1>4, <1>5 DEF Sense, Later, Quoting
<1>7. draft'.tags = (draft.tags \ Quoting) \cup {"paid"} BY <1>2, <1>3, NewTagsIs
<1>8. NothingDue(draft.tags) /\ ~FreeUnpaid /\ ~Uncopied BY <1>3, <1>6, AtRest
<1>9. NothingDue(draft'.tags)
  BY <1>7, <1>8 DEF NothingDue, GateDue, FreeDue, ApproveDue, QuoteDue, ReadyDue, Quoting
<1>10. Sense'
  <2>1. "hq-notified" \in draft'.tags => "intake" \in draft'.tags BY <1>4, <1>7 DEF Sense, Quoting
  <2>2. draft'.tags \cap Class # {} BY <1>6, <1>7 DEF Class, Quoting
  <2> QED BY <1>9, <2>1, <2>2 DEF Sense, NothingDue
<1>11. Priced' BY <1>2, <1>4, <1>7 DEF Priced, Quoting
<1>12. ~Running /\ due = 0 BY <1>3 DEF Alone
<1>13. Steady'
  <2>1. \A t \in {"hq-notified", "free-notified", "store-hq-notified", "completion-notified", "complete"} :
           t \in draft.tags => t \in draft'.tags
    BY <1>7 DEF Quoting
  <2> QED BY <1>2, <1>10, <1>11, <1>12, <2>1, SteadyWritten, OrderlyIs
<1>14. Idling'
  <2>1. ~Running' BY <1>2, <1>12 DEF Running
  <2>2. ~FreeUnpaid' /\ ~Uncopied'
    BY <1>2, <1>5, <1>7, <1>8 DEF FreeUnpaid, Uncopied, Quoting
  <2> QED BY <1>2, <1>9, <1>12, <2>1, <2>2 DEF Idling
<1>15. Requests' BY <1>2, <1>14 DEF Requests, Overlaps
<1>16. RefundInv'
  <2>1. money.vouchers > 0 => "refund-requested" \in draft'.tags
    BY <1>1, <1>2, <1>4, <1>7 DEF RefundInv, Quoting
  <2> QED BY <1>2, <1>4, <2>1 DEF RefundInv
<1> QED BY <1>13, <1>14, <1>15, <1>16 DEF OrderlyInv, Steady

\* A completion, alone or while the passes its own specs asked for look on.
LEMMA PutCompleteOrderly ==
  ASSUME TypeInv, Ordered, Apart, OrderlyInv, Put("a"), req["a"].job = "complete"
  PROVE  OrderlyInv'
<1>a. "a" \in Slot BY DEF Slot
<1>1. PICK r \in ReqRec : r = req["a"] BY <1>a, Puts
<1>2. /\ Busy("a") /\ r.pc = "put" /\ r.job = "complete"
      /\ draft'.tags = NewTags(r) /\ draft'.price = draft.price /\ draft'.item = draft.item
      /\ due' \in Nat /\ due' > 0 /\ ~Busy("a")'
      /\ UNCHANGED <<case, known, chain, told, money, serials, wanted>>
  <2>1. draft'.item = (draft.item \/ r.job \in Class) /\ draft' \in DraftRec BY <1>a, <1>1, Puts
  <2>2. (draft.item = TRUE \/ draft.item = FALSE) BY DEF TypeInv, DraftRec
  <2>3. due' \in 1 .. MaxDue /\ MaxDue \in Nat BY <1>a, Puts, RepairAssumption
  <2>4. r.job \notin Class BY <1>1 DEF Class
  <2>5. draft'.item = draft.item BY <2>1, <2>2, <2>4
  <2> QED BY <1>a, <1>1, <2>3, <2>4, <2>5, Puts
<1>4. Sense /\ View /\ ToldInv /\ Priced /\ Requests /\ RefundInv BY DEF OrderlyInv
<1>5. draft.tags \cap Later # {} /\ r.tags = draft.tags BY <1>1, <1>2, <1>4 DEF Requests
<1>6. draft.tags \cap Class # {} /\ ~GateDue(draft.tags) BY <1>4, <1>5 DEF Sense
<1>7. draft'.tags = draft.tags \cup {"complete"} BY <1>2, <1>5, NewTagsIs
<1>8. NothingDue(draft.tags) /\ ~FreeUnpaid /\ ~Uncopied
  <2>1. CASE Overlaps(r) BY <1>1, <1>2, <1>4, <2>1 DEF Requests, Idling
  <2>2. CASE ~Overlaps(r)
    <3>1. Alone BY <1>1, <1>2, <2>2 DEF Apart
    <3> QED BY <1>6, <3>1, AtRest
  <2> QED BY <2>1, <2>2
<1>9. Sense'
  <2>1. ~GateDue(draft'.tags) /\ ~FreeDue(draft'.tags) /\ ~ApproveDue(draft'.tags) /\ ~QuoteDue(draft'.tags)
    BY <1>7, <1>8 DEF NothingDue, GateDue, FreeDue, ApproveDue, QuoteDue
  <2>2. "hq-notified" \in draft'.tags => "intake" \in draft'.tags BY <1>4, <1>7 DEF Sense
  <2>3. draft'.tags \cap Class # {} BY <1>6, <1>7
  <2> QED BY <2>1, <2>2, <2>3 DEF Sense
<1>10. Priced' BY <1>2, <1>4, <1>7 DEF Priced
<1>11. CASE ~Running
  <2>1. Steady' BY <1>2, <1>7, <1>9, <1>10, <1>11, SteadyWritten, OrderlyIs
  <2>2. Requests' BY <1>2 DEF Requests
  <2>3. RefundInv' BY <1>1, <1>2, <1>4, <1>7 DEF RefundInv
  <2> QED BY <2>1, <2>2, <2>3 DEF OrderlyInv, Steady
<1>12. CASE Running
  <2>1. Overlaps(r) /\ Idling BY <1>1, <1>2, <1>4, <1>12 DEF Apart, Alone, Requests
  <2>2. /\ chain.pc \in {"fetch", "copy", "end"} /\ chain.pass = 1
        /\ chain.pc = "copy" => Same /\ ~known
    BY <1>12, <2>1 DEF Idling
  <2>3. /\ Running' /\ chain'.pc \in {"fetch", "copy", "end"} /\ chain'.pass = 1
        /\ chain'.price = draft'.price
        /\ chain'.pc = "copy" => /\ chain'.tags = draft.tags /\ chain'.item = draft'.item
                                 /\ ~draft'.item /\ "outside" \notin draft'.tags
    BY <1>2, <1>4, <1>7, <1>12, <2>2 DEF Running, View, Same
  <2>4. View'
    BY <1>7, <1>8, <2>3 DEF View, GatePc, FreePc, ApprovePc, QuotePc, ReadyPc
  <2>5. Passes' BY <1>2, <2>3 DEF Passes
  <2>6. Tidy'
    <3>1. ~FreeUnpaid' /\ ~Uncopied'
      BY <1>2, <1>5, <1>7, <1>8 DEF FreeUnpaid, Uncopied
    <3>2. "resync" \notin draft'.tags BY <1>7, <1>8 DEF NothingDue
    <3> QED BY <3>1, <3>2 DEF Tidy
  <2>7. ToldInv' BY <1>2, <1>4, <1>7 DEF ToldInv
  <2>8. Requests' BY <1>2 DEF Requests
  <2>9. RefundInv' BY <1>1, <1>2, <1>4, <1>7 DEF RefundInv
  <2> QED BY <1>9, <1>10, <2>4, <2>5, <2>6, <2>7, <2>8, <2>9 DEF OrderlyInv
<1> QED BY <1>11, <1>12

LEMMA RequestOrderly ==
  ASSUME TypeInv, Ordered, Apart, OrderlyInv, NEW s \in Slot, ReqStep(s)
  PROVE  OrderlyInv'
<1>1. Busy(s)
  BY Reads, WriteFinalIs, WriteSpecsIs, ReadDeltaIs, IssueVoucherIs, Puts, WritePaidIs DEF ReqStep
<1>2. s = "a" BY <1>1 DEF Apart, Slot
<1>3. CASE Put(s)
  <2>1. "a" \in Slot BY DEF Slot
  <2>2. req["a"] \in ReqRec BY <1>2, <1>3, <2>1, Puts
  <2>3. req["a"].job \in {"estimate", "complete", "approve", "refund", "pay"} \cup Class BY <2>2, NewTagsIs
  <2> QED BY <1>2, <1>3, <2>3, PutEstimateOrderly, PutCompleteOrderly, PutApproveOrderly, PutRefundOrderly,
             PutPayOrderly, PutClassOrderly
<1> QED BY <1>2, <1>3, SilentOrderly, WriteSpecsOrderly DEF ReqStep

LEMMA NextOrderly ==
  ASSUME TypeInv, TypeInv', Ordered, Apart, OrderlyInv, ~Allowed("fault"), ~Allowed("overlap"), [Next]_vars
  PROVE  OrderlyInv'
<1>1. CASE Deliver \/ PassStep BY <1>1, PassOrderly
<1>2. CASE Staffs BY <1>2, StaffOrderly
<1>3. ASSUME NEW s \in Slot, Requested(s) PROVE OrderlyInv'
  <2>1. ~ReqFails(s) BY DEF ReqFails
  <2> QED BY <1>3, <2>1, StartOrderly, RequestOrderly DEF Requested
<1>4. CASE \E l \in links : PayLink(l) BY <1>4, PayOrderly
<1>5. CASE PassFails \/ GateFails \/ Restart BY <1>5 DEF PassFails, GateFails, Restart
<1>6. CASE UNCHANGED vars
  <2>1. UNCHANGED <<case, draft, known, due, chain, told, serials, wanted, req, money>> BY <1>6 DEF vars
  <2>2. Steady' /\ (Idling <=> Idling') BY <2>1, SteadyKept, OrderlyIs
  <2>3. Requests' BY <2>1, <2>2 DEF OrderlyInv, Requests, Overlaps, Busy
  <2>4. RefundInv' BY <2>1 DEF OrderlyInv, RefundInv, Busy
  <2> QED BY <2>2, <2>3, <2>4 DEF OrderlyInv, Steady
<1> QED BY <1>1, <1>2, <1>3, <1>4, <1>5, <1>6, Steps

LEMMA InitOrderly == Init => OrderlyInv
<1> SUFFICES ASSUME Init PROVE OrderlyInv OBVIOUS
<1>1. /\ draft.tags = {} /\ draft.price = case.price /\ ~draft.item /\ due = 0 /\ chain.pc = "idle"
      /\ ~Running /\ ~Busy("a") /\ serials = {} /\ wanted = None
      /\ told.received = 0 /\ told.free = 0 /\ told.approved = 0 /\ told.ready = 0
      /\ money.vouchers = 0 /\ money.back = 0
  <2>1. req = [s \in Slot |-> Idle] /\ "a" \in Slot BY DEF Init, Slot
  <2>2. req["a"] = Idle BY <2>1
  <2> QED BY <2>2 DEF Init, Idle, Running, Busy
<1>2. Sense BY <1>1 DEF Sense, FreeDue, ApproveDue, QuoteDue, ReadyDue
<1>3. View /\ Requests BY <1>1 DEF View, Requests
<1>4. Passes BY <1>1 DEF Passes, Work, AnyDue, GateDue, FreeDue, ApproveDue, QuoteDue, ReadyDue
<1>5. Tidy BY <1>1 DEF Tidy, FreeUnpaid, Uncopied
<1>6. ToldInv BY <1>1 DEF ToldInv
<1>7. Priced BY <1>1 DEF Priced
<1>8. RefundInv BY <1>1 DEF RefundInv
<1> QED BY <1>2, <1>3, <1>4, <1>5, <1>6, <1>7, <1>8 DEF OrderlyInv

--------------------
(* What a step of the pass leaves to the estimate, the payment, the bill *)

\* A pass is at the mail of an estimate or of a completion.
Telling == {"mailQuote", "markQuoted", "balance", "mailReady"}
Lasting == {"free", "estimate-ready", "estimate-sent", "complete", "paid", "store-approved"}

TagsLast ==
    /\ \A t \in Lasting : t \in draft'.tags <=> t \in draft.tags
    /\ "free-notified" \in draft'.tags => draft.tags \cap {"free-notified", "free"} # {}
    /\ "store-hq-notified" \in draft'.tags => draft.tags \cap {"store-hq-notified", "store-approved"} # {}

PlainStep ==
    /\ UNCHANGED <<case, known, fields, req, links, calls, money, wanted>>
    /\ told'.quote = told.quote /\ told'.ask = told.ask /\ told'.ready = told.ready
    /\ draft'.price = draft.price \/ ("free" \in draft.tags /\ draft'.price = 0)
    /\ TagsLast
    /\ \A p \in Telling : (Running' /\ chain'.pc = p) <=> (Running /\ chain.pc = p)
    /\ Running' /\ chain'.pc \in Telling => chain'.ask = chain.ask

MailQuote == Mails("mailQuote", "markQuoted", [told EXCEPT !.quote = chain.price])
MailReady ==
    Mails("mailReady", "markReady",
          [told EXCEPT !.ready = @ + 1,
                       !.ask = [mode |-> chain.ask.mode, amount |-> chain.ask.amount, got |-> money.got]])

LEMMA PassPlain ==
  ASSUME TypeInv, TypeInv', OrderlyInv, Deliver \/ PassStep
  PROVE  \/ PlainStep \/ MakeLink \/ MailQuote \/ Marks("markQuoted", "estimate-sent", "end")
         \/ ReadFields \/ MakeBalanceLink \/ MailReady
<1> USE DEF Elsewhere, SameCopies, TagsAre, LineIs, Copies, GoesTo, Fresh
<1>v. View BY DEF OrderlyInv
<1>t. draft.tags \in SUBSET Tag /\ (Running => chain.tags \in SUBSET Tag)
  BY PassRec DEF ChainRec, TypeInv, DraftRec
<1>o. \A t \in SUBSET Tag : Onward(t) \notin Telling
  <2> TAKE t \in SUBSET Tag
  <2>1. Onward(t) \in {"resync", "gate", "mailFree", "mailApproved", "link", "fields", "end"} BY OnwardIs
  <2> QED BY <2>1 DEF Telling
<1>s. ASSUME UNCHANGED <<case, known, fields, req, links, calls, money, wanted>>,
             told'.quote = told.quote /\ told'.ask = told.ask /\ told'.ready = told.ready,
             draft'.price = draft.price \/ ("free" \in draft.tags /\ draft'.price = 0), TagsLast,
             chain.pc \notin Telling, Running' => chain'.pc \notin Telling
      PROVE  PlainStep
  BY <1>s DEF PlainStep
<1>u. draft'.tags = draft.tags => TagsLast BY DEF TagsLast
<1>p. Running /\ chain.pc # "reread" => chain.price = draft.price BY <1>v DEF View
<1>1. CASE Deliver
  <2>1. draft' = draft /\ Elsewhere /\ (~Running => chain'.pc = "fetch")
        /\ (Running => Running' /\ chain'.pc = chain.pc /\ chain'.ask = chain.ask)
    BY <1>1, DeliverIs
  <2> QED BY <1>u, <2>1 DEF PlainStep, Telling
<1>2. CASE EndPass
  <2>1. chain.pc = "end" /\ SameCopies /\ Elsewhere /\ (Running' => chain'.pc = "fetch") BY <1>2, EndPassIs
  <2> QED BY <1>s, <1>u, <2>1 DEF Telling
<1>3. CASE Fetch
  <2>1. /\ chain.pc = "fetch" /\ SameCopies /\ Elsewhere
        /\ chain'.pc \in {"end", "copy", "zero"} \/ chain'.pc = Onward(draft.tags)
    BY <1>3, FetchIs
  <2> QED BY <1>o, <1>s, <1>t, <1>u, <2>1 DEF Telling
<1>4. CASE Copy
  <2>1. /\ chain.pc = "copy" /\ Running /\ Elsewhere /\ draft'.tags = draft.tags
        /\ draft'.price = draft.price \/ draft'.price = chain.price
        /\ chain'.pc \in {"zero", "reread"} \/ chain'.pc = Onward(chain.tags)
    BY <1>4, CopyIs
  <2> QED BY <1>o, <1>p, <1>s, <1>t, <1>u, <2>1 DEF Telling
<1>5. CASE Zero
  <2>1. /\ chain.pc = "zero" /\ Running /\ Elsewhere /\ draft'.tags = draft.tags /\ draft'.price = 0
        /\ chain'.pc = "reread"
    BY <1>5, ZeroIs
  <2>2. "free" \in draft.tags BY <1>v, <2>1 DEF View
  <2> QED BY <1>s, <1>u, <2>1, <2>2 DEF Telling
<1>6. CASE Reread
  <2>1. chain.pc = "reread" /\ Running /\ SameCopies /\ Elsewhere /\ chain'.pc = Onward(chain.tags) BY <1>6, RereadIs
  <2> QED BY <1>o, <1>s, <1>t, <1>u, <2>1 DEF Telling
<1>7. CASE Resync \/ Recopy
  <2>1. /\ chain.pc \in {"resync", "recopy"} /\ Running /\ Elsewhere /\ draft'.tags = draft.tags
        /\ draft'.price = draft.price \/ draft'.price = chain.price
        /\ chain'.pc \in {"resynced", "end"}
    BY <1>7, ResyncIs, RecopyIs
  <2> QED BY <1>p, <1>s, <1>u, <2>1 DEF Telling
<1>8. CASE Resynced
  <2>1. /\ chain.pc = "resynced" /\ Running /\ Elsewhere /\ draft'.tags = chain.tags \ {"resync"}
        /\ draft'.price = draft.price /\ chain'.pc = "reread"
    BY <1>8, ResyncedIs
  <2>2. chain.tags = draft.tags BY <1>v, <2>1 DEF View, Same
  <2>3. TagsLast BY <2>1, <2>2 DEF TagsLast, Lasting
  <2> QED BY <1>s, <2>1, <2>3 DEF Telling
<1>9. CASE Gate
  <2>1. /\ chain.pc = "gate" /\ Elsewhere /\ Running /\ chain'.pc \in {"end", "unhold", "mailReceived"}
        /\ draft'.price = draft.price \/ draft'.price = chain.price
        /\ draft'.tags = draft.tags \/ \E tag \in Hold : draft'.tags = chain.tags \cup {tag}
    BY <1>9, GateIs
  <2>2. chain.tags = draft.tags BY <1>v, <2>1 DEF View, Same, GatePc
  <2>3. TagsLast BY <1>u, <2>1, <2>2 DEF TagsLast, Lasting, Hold
  <2> QED BY <1>p, <1>s, <2>1, <2>3 DEF Telling
<1>10. CASE Unhold
  <2>1. /\ chain.pc = "unhold" /\ Running /\ Elsewhere /\ draft'.tags = chain.tags \ {"missing-order-ref"}
        /\ draft'.price = draft.price /\ chain'.pc = "mailReceived"
    BY <1>10, UnholdIs
  <2>2. chain.tags = draft.tags BY <1>v, <2>1 DEF View, Same, GatePc
  <2>3. TagsLast BY <2>1, <2>2 DEF TagsLast, Lasting
  <2> QED BY <1>s, <2>1, <2>3 DEF Telling
<1>x. /\ GatePc \cup FreePc \cup ApprovePc \cup QuotePc \cup ReadyPc \cup AfterPc \subseteq ChainPc
      /\ {"mailReceived", "markReceived"} \subseteq GatePc /\ {"mailFree", "markFree"} \subseteq FreePc
      /\ {"mailApproved", "markApproved"} \subseteq ApprovePc /\ {"mailQuote", "markQuoted"} \subseteq QuotePc
      /\ {"mailReady", "markReady"} \subseteq ReadyPc /\ {"end", "recopy", "serial"} \subseteq AfterPc
      /\ {"hq-notified", "free-notified", "store-hq-notified", "estimate-sent", "completion-notified"} \subseteq Tag
      /\ "idle" \notin ChainPc
  BY DEF ChainPc, GatePc, FreePc, ApprovePc, QuotePc, ReadyPc, AfterPc, Tag
<1>y. /\ told \in ToldRec /\ told.received \in Nat /\ told.free \in Nat /\ told.approved \in Nat /\ told.ready \in Nat
  BY DEF TypeInv, ToldRec
<1>11. ASSUME NEW step \in ChainPc, NEW next \in ChainPc, NEW m \in ToldRec, Mails(step, next, m),
              step \notin Telling, next \notin Telling,
              m.quote = told.quote, m.ask = told.ask, m.ready = told.ready
       PROVE  PlainStep
  <2>1. /\ chain.pc = step /\ GoesTo(next) /\ told' = m /\ SameCopies
        /\ UNCHANGED <<case, known, fields, req, links, calls, money, serials, wanted>>
    BY <1>11, <1>x, MailsIs
  <2> QED BY <1>11, <1>s, <1>u, <2>1
<1>12. ASSUME NEW step \in ChainPc, NEW tag \in Tag, NEW next \in ChainPc, Marks(step, tag, next),
              step \notin Telling, next \notin Telling, tag \notin Lasting,
              tag = "free-notified" => "free" \in draft.tags,
              tag = "store-hq-notified" => "store-approved" \in draft.tags,
              Running /\ chain.pc = step => chain.tags = draft.tags
       PROVE  PlainStep
  <2>1. /\ chain.pc = step /\ GoesTo(next) /\ TagsAre(chain.tags \cup {tag}) /\ Elsewhere
    BY <1>12, <1>x, MarksIs
  <2>2. draft'.tags = draft.tags \cup {tag} /\ draft'.price = draft.price BY <1>12, <2>1
  <2>3. TagsLast BY <1>12, <2>2 DEF TagsLast
  <2> QED BY <1>12, <1>s, <2>1, <2>2, <2>3
<1>13. CASE Received
  <2>1. PICK m \in ToldRec : m = [told EXCEPT !.received = @ + 1] BY MailedTypes
  <2>2. m.ready = told.ready /\ m.quote = told.quote /\ m.ask = told.ask BY <2>1, <1>y DEF ToldRec
  <2>3. {"mailReceived", "markReceived", "end"} \cap Telling = {} BY DEF Telling
  <2>4. CASE Mails("mailReceived", "markReceived", m) BY <1>11, <1>x, <2>2, <2>3, <2>4
  <2>5. CASE Marks("markReceived", "hq-notified", "end")
    <3>1. Running /\ chain.pc = "markReceived" => chain.tags = draft.tags BY <1>v DEF View, Same, GatePc
    <3> QED BY <1>12, <1>x, <2>3, <2>5, <3>1 DEF Lasting
  <2> QED BY <1>13, <2>1, <2>4, <2>5 DEF Received
<1>14. CASE Mails("mailFree", "markFree", [told EXCEPT !.free = @ + 1]) \/ Marks("markFree", "free-notified", "recopy")
  <2>1. PICK m \in ToldRec : m = [told EXCEPT !.free = @ + 1] BY MailedTypes
  <2>2. m.ready = told.ready /\ m.quote = told.quote /\ m.ask = told.ask BY <2>1, <1>y DEF ToldRec
  <2>3. {"mailFree", "markFree", "recopy"} \cap Telling = {} BY DEF Telling
  <2>4. CASE Mails("mailFree", "markFree", m) BY <1>11, <1>x, <2>2, <2>3, <2>4
  <2>5. CASE Marks("markFree", "free-notified", "recopy")
    <3>1. Running /\ chain.pc = "markFree" => chain.tags = draft.tags /\ "free" \in draft.tags
      BY <1>v DEF View, Same, FreePc, FreeDue
    <3>2. Running /\ chain.pc = "markFree" BY <2>5 DEF Marks, Running
    <3> QED BY <1>12, <1>x, <2>3, <2>5, <3>1, <3>2 DEF Lasting
  <2> QED BY <1>14, <2>1, <2>4, <2>5
<1>15. CASE Approved
  <2>1. PICK m \in ToldRec : m = [told EXCEPT !.approved = @ + 1] BY MailedTypes
  <2>2. m.ready = told.ready /\ m.quote = told.quote /\ m.ask = told.ask BY <2>1, <1>y DEF ToldRec
  <2>3. {"mailApproved", "markApproved", "end"} \cap Telling = {} BY DEF Telling
  <2>4. CASE Mails("mailApproved", "markApproved", m) BY <1>11, <1>x, <2>2, <2>3, <2>4
  <2>5. CASE Marks("markApproved", "store-hq-notified", "end")
    <3>1. Running /\ chain.pc = "markApproved" => chain.tags = draft.tags /\ "store-approved" \in draft.tags
      BY <1>v DEF View, Same, ApprovePc, ApproveDue
    <3>2. Running /\ chain.pc = "markApproved" BY <2>5 DEF Marks, Running
    <3> QED BY <1>12, <1>x, <2>3, <2>5, <3>1, <3>2 DEF Lasting
  <2> QED BY <1>15, <2>1, <2>4, <2>5 DEF Approved
<1>16. CASE Marks("markReady", "completion-notified", "serial")
  <2>1. Running /\ chain.pc = "markReady" => chain.tags = draft.tags BY <1>v DEF View, Same, ReadyPc
  <2>2. {"markReady", "serial"} \cap Telling = {} BY DEF Telling
  <2> QED BY <1>12, <1>x, <1>16, <2>1, <2>2 DEF Lasting
<1>17. CASE MintService
  <2>1. /\ chain.pc = "serial" /\ chain'.pc = "end" /\ SameCopies
        /\ UNCHANGED <<case, known, fields, req, links, calls, told, money, wanted>>
    BY <1>17, MintServiceIs
  <2> QED BY <1>s, <1>u, <2>1 DEF Telling
<1> QED BY <1>1, <1>2, <1>3, <1>4, <1>5, <1>6, <1>7, <1>8, <1>9, <1>10, <1>13, <1>14, <1>15, <1>16, <1>17
    DEF PassStep, MadeFree, Quoted, Ready, MailQuote, MailReady

--------------------
(* What awaits payment is what was quoted *)

LEMMA PassQuote ==
  ASSUME TypeInv, TypeInv', OrderlyInv, QuoteInv, Deliver \/ PassStep
  PROVE  QuoteInv'
<1>v. View BY DEF OrderlyInv
<1>n. draft.price # None BY MoneyIsNat DEF TypeInv, DraftRec
<1>b. req' = req => (Busy("a")' <=> Busy("a")) BY DEF Busy
<1>1. CASE PlainStep
  <2>1. "free" \in draft.tags => "estimate-sent" \notin draft.tags /\ ~(Running /\ chain.pc = "markQuoted")
    BY <1>n DEF QuoteInv
  <2>2. /\ req' = req /\ wanted' = wanted /\ told'.quote = told.quote
        /\ draft'.price = draft.price \/ "free" \in draft.tags
        /\ \A t \in {"free", "estimate-ready", "estimate-sent"} : t \in draft'.tags <=> t \in draft.tags
        /\ Running' /\ chain'.pc = "markQuoted" => Running /\ chain.pc = "markQuoted"
    BY <1>1 DEF PlainStep, TagsLast, Lasting, Telling
  <2> QED BY <1>b, <2>1, <2>2 DEF QuoteInv
<1>2. ASSUME draft' = draft, UNCHANGED <<req, wanted, told>>, chain'.pc # "markQuoted" PROVE QuoteInv'
  BY <1>b, <1>2 DEF QuoteInv
<1>3. CASE MakeLink BY <1>2, <1>3, MakeLinkIs DEF GoesTo, SameCopies
<1>4. CASE ReadFields BY <1>2, <1>4, ReadFieldsIs DEF GoesTo, SameCopies, Elsewhere
<1>5. CASE MakeBalanceLink BY <1>2, <1>5, MakeBalanceLinkIs DEF GoesTo, SameCopies
<1>y. told \in ToldRec BY DEF TypeInv
<1>6. CASE MailReady
  <2>1. PICK m : m = [told EXCEPT !.ready = @ + 1, !.ask = [mode |-> chain.ask.mode, amount |-> chain.ask.amount, got |-> money.got]] OBVIOUS
  <2>2. m.quote = told.quote BY <1>y, <2>1 DEF ToldRec
  <2>3. /\ chain'.pc = "markReady" /\ told' = m /\ draft' = draft /\ UNCHANGED <<req, wanted>>
    BY <1>6, <2>1, MailsIs DEF MailReady, GoesTo, SameCopies, ChainPc, ReadyPc
  <2> QED BY <1>b, <2>2, <2>3 DEF QuoteInv
<1>7. CASE MailQuote
  <2>1. PICK m : m = [told EXCEPT !.quote = chain.price] OBVIOUS
  <2>2. m.quote = chain.price BY <1>y, <2>1 DEF ToldRec
  <2>3. /\ Running /\ chain.pc = "mailQuote" /\ told' = m /\ draft' = draft /\ UNCHANGED <<req, wanted>>
    BY <1>7, <2>1, MailsIs DEF MailQuote, GoesTo, SameCopies, ChainPc, QuotePc
  <2>4. chain.price = draft.price /\ "estimate-ready" \in draft.tags
    BY <1>v, <2>3 DEF View, QuotePc, QuoteDue
  <2>5. "free" \notin draft.tags BY <2>4 DEF QuoteInv
  <2> QED BY <1>b, <2>2, <2>3, <2>4, <2>5 DEF QuoteInv
<1>8. CASE Marks("markQuoted", "estimate-sent", "end")
  <2>1. /\ Running /\ chain.pc = "markQuoted" /\ chain'.pc = "end" /\ draft'.tags = chain.tags \cup {"estimate-sent"}
        /\ draft'.price = draft.price /\ UNCHANGED <<req, wanted, told>>
    BY <1>8, MarksIs DEF GoesTo, TagsAre, Elsewhere, Tag, ChainPc, AfterPc
  <2>2. chain.tags = draft.tags BY <1>v, <2>1 DEF View, Same, QuotePc
  <2>3. told.quote = draft.price BY <2>1 DEF QuoteInv
  <2>4. "free" \in draft'.tags <=> "free" \in draft.tags BY <2>1, <2>2
  <2>5. "estimate-ready" \in draft'.tags <=> "estimate-ready" \in draft.tags BY <2>1, <2>2
  <2> QED BY <1>b, <2>1, <2>3, <2>4, <2>5 DEF QuoteInv
<1> QED BY <1>1, <1>3, <1>4, <1>5, <1>6, <1>7, <1>8, PassPlain

\* What was quoted is a price staff set, after the intake was mailed.
LEMMA QuotedIntake ==
  ASSUME TypeInv, Ordered, OrderlyInv, Alone, told.quote # None
  PROVE  wanted # None /\ "intake" \in draft.tags /\ "hq-notified" \in draft.tags
<1>1. wanted # None /\ told.received > 0 BY DEF Ordered
<1>2. "hq-notified" \in draft.tags BY <1>1, AtRest DEF OrderlyInv, ToldInv
<1> QED BY <1>1, <1>2 DEF OrderlyInv, Sense

\* At rest, an estimate that is ready was sent.
LEMMA ReadySent ==
  ASSUME OrderlyInv, Alone, "estimate-ready" \in draft.tags
  PROVE  "estimate-sent" \in draft.tags
<1>1. ~QuoteDue(draft.tags) BY AtRest DEF NothingDue
<1> QED BY <1>1 DEF QuoteDue

LEMMA StaffQuote ==
  ASSUME TypeInv, TypeInv', OrderlyInv, QuoteInv, ~Allowed("overlap"), ~Allowed("waived"), Staffs
  PROVE  QuoteInv'
<1>1. /\ Settled /\ UNCHANGED <<case, chain, req, told, wanted>> /\ draft'.price = draft.price
  BY StaffTagIs, FillIs, Prompts DEF Staffs, TagsAre
<1>2. ~Running /\ Alone /\ ~Busy("a") /\ ~Busy("a")' /\ ~Running'
  BY <1>1 DEF Settled, Busy, Slot, Alone, Running
<1>3. CASE FillReference
  <2>1. draft' = draft BY <1>3, FillIs
  <2> QED BY <1>1, <1>2, <2>1 DEF QuoteInv
<1>4. ASSUME NEW tag \in Class \cup {"outside", "resync"}, StaffTag(tag) PROVE QuoteInv'
  <2>1. /\ draft'.tags = draft.tags \cup {tag} /\ tag \notin {"estimate-sent", "estimate-ready"}
        /\ tag = "free" => told.quote = None
    BY <1>4, StaffTagIs DEF TagsAre, Class
  <2>2. "estimate-sent" \in draft'.tags => told'.quote = draft'.price BY <1>1, <2>1 DEF QuoteInv
  <2>3. "free" \in draft'.tags => told'.quote = None /\ "estimate-ready" \notin draft'.tags
    <3>1. CASE "free" \in draft.tags BY <1>1, <2>1, <3>1 DEF QuoteInv
    <3>2. CASE tag = "free"
      <4>1. draft.price # None BY MoneyIsNat DEF TypeInv, DraftRec
      <4>2. "estimate-sent" \notin draft.tags BY <2>1, <3>2, <4>1 DEF QuoteInv
      <4>3. "estimate-ready" \notin draft.tags BY <1>2, <4>2, ReadySent
      <4> QED BY <1>1, <2>1, <3>2, <4>3
    <3> QED BY <2>1, <3>1, <3>2
  <2> QED BY <1>2, <2>2, <2>3 DEF QuoteInv
<1> QED BY <1>3, <1>4 DEF Staffs

LEMMA StartQuote ==
  ASSUME TypeInv, QuoteInv, ~Allowed("overlap"), ~Allowed("revise"), ~Allowed("waived"),
         NEW s \in Slot, Posts(s) \/ (\E n \in calls : Notified(s, n))
  PROVE  QuoteInv'
<1>1. PICK task \in Job, amount \in Nat \cup {None}, extra \in BOOLEAN :
         /\ Start(s, task, amount, extra) /\ Settled
         /\ task = "estimate" => wanted = None /\ (amount # 0 => "free" \notin draft.tags)
  <2>1. CASE Posts(s)
    <3>1. PICK task \in Job, amount \in Nat \cup {None}, extra \in BOOLEAN :
            /\ Post(s, task, amount, extra)
            /\ task = "estimate" => \E a \in Amount \cup {0} : amount = a /\ PostEstimate(s, a)
      BY <2>1, PostIs
    <3>2. task = "estimate" => wanted = None /\ (amount # 0 => "free" \notin draft.tags)
      BY <3>1 DEF PostEstimate
    <3> QED BY <3>1, <3>2, Prompts DEF Post
  <2>2. CASE \E n \in calls : Notified(s, n)
    <3>1. Start(s, "pay", 0, FALSE) /\ Settled BY <2>2, NotifiedIs
    <3>2. "pay" \in Job BY DEF Job
    <3> QED BY <3>1, <3>2
  <2> QED BY <2>1, <2>2
<1>2. req'["a"].job = task /\ req'["a"].amount = amount BY <1>1, StartsAlone
<1>3. UNCHANGED <<draft, chain, told, wanted>> BY <1>1 DEF Start, ghosts
<1> QED BY <1>1, <1>2, <1>3 DEF QuoteInv, Running

LEMMA RequestQuote ==
  ASSUME TypeInv, TypeInv', Ordered, Apart, OrderlyInv, QuoteInv, NEW s \in Slot, ReqStep(s)
  PROVE  QuoteInv'
<1>1. Busy(s)
  BY Reads, WriteFinalIs, WriteSpecsIs, ReadDeltaIs, IssueVoucherIs, Puts, WritePaidIs DEF ReqStep
<1>2. s = "a" /\ Busy("a") BY <1>1 DEF Apart, Slot
<1>3. ASSUME draft'.tags = draft.tags, draft'.price = draft.price, UNCHANGED <<chain, told, wanted>>,
             ~Busy("a")' \/ (req'["a"].job = req["a"].job /\ req'["a"].amount = req["a"].amount)
                \/ req'["a"].job # "estimate"
      PROVE  QuoteInv'
  BY <1>2, <1>3 DEF QuoteInv, Running
<1>4. CASE Read(s) BY <1>2, <1>3, <1>4, Reads DEF ghosts
<1>5. CASE WriteFinal(s) BY <1>2, <1>3, <1>5, WriteFinalIs
<1>6. CASE WriteSpecs(s)
  <2>1. req["a"].price = draft.price BY <1>2, <1>6, WriteSpecsIs DEF Apart, Overlaps
  <2> QED BY <1>2, <1>3, <1>6, <2>1, WriteSpecsIs DEF LineIs
<1>7. CASE ReadDelta(s) BY <1>2, <1>3, <1>7, ReadDeltaIs
<1>8. CASE IssueVoucher(s) BY <1>2, <1>3, <1>8, IssueVoucherIs
<1>9. CASE WritePaid(s) BY <1>2, <1>3, <1>9, WritePaidIs
<1>10. CASE Put(s)
  <2>1. PICK r \in ReqRec : r = req["a"] BY <1>2, <1>10, Puts
  <2>2. /\ r.pc = "put" /\ draft'.tags = NewTags(r)
        /\ draft'.price = (IF r.job = "estimate" THEN r.amount ELSE IF r.job \in Class THEN r.price ELSE draft.price)
        /\ wanted' = (IF r.job = "estimate" THEN r.amount ELSE wanted)
        /\ UNCHANGED <<chain, told>>
        /\ ~Busy("a")' \/ req'["a"].job = "pay"
    BY <1>2, <1>10, <2>1, Puts
  <2>3. r.tags = draft.tags BY <1>2, <2>1, <2>2 DEF OrderlyInv, Requests
  <2>4. r.job # "complete" => Alone /\ r.price = draft.price BY <1>2, <2>1, <2>2 DEF Apart, Overlaps
  <2>5. CASE r.job = "estimate"
    <3>1. ~Running /\ ~Running' BY <2>2, <2>4, <2>5 DEF Alone, Running
    <3>2. wanted = None /\ (r.amount # 0 => "free" \notin draft.tags) BY <1>2, <2>1, <2>5 DEF QuoteInv
    <3>3. told.quote = None /\ draft.tags \cap Quoting = {} BY <3>2 DEF Ordered
    <3>4. draft'.tags = draft.tags \cup {IF r.amount = 0 THEN "free" ELSE "estimate-ready"}
      BY <2>2, <2>3, <2>5, NewTagsIs
    <3>5. "estimate-sent" \notin draft'.tags BY <3>3, <3>4 DEF Quoting
    <3>6. "free" \in draft'.tags => "estimate-ready" \notin draft'.tags
      BY <3>2, <3>3, <3>4 DEF Quoting
    <3>7. ~Busy("a")' BY <1>2, <1>10, <2>1, <2>5, Puts
    <3> QED BY <2>2, <3>1, <3>3, <3>5, <3>6, <3>7 DEF QuoteInv
  <2>6. CASE r.job \in Class
    <3>1. draft'.price = draft.price /\ Alone BY <2>2, <2>4, <2>6 DEF Class
    <3>2. draft'.tags = (r.tags \ {"missing-inspection"}) \cup {"outside"}
                               \cup (IF r.tags \cap Class = {} THEN {r.job} ELSE {})
      BY <2>2, <2>6, NewTagsIs
    <3>3. \A t \in Quoting : t \in draft'.tags <=> t \in draft.tags
      BY <2>3, <2>6, <3>2 DEF Quoting, Class
    <3>4. "free" \in draft'.tags => "free" \in draft.tags \/ draft.tags \cap Class = {} BY <2>3, <3>2
    <3>5. draft.tags \cap Class = {} => told.quote = None /\ "estimate-ready" \notin draft.tags
      <4>1. "intake" \in Class /\ "estimate-ready" \in Later BY DEF Class, Later
      <4>2. draft.tags \cap Class = {} => "estimate-ready" \notin draft.tags BY <4>1 DEF OrderlyInv, Sense
      <4> QED BY <3>1, <4>1, <4>2, QuotedIntake
    <3>6. "free" \in draft'.tags => told.quote = None /\ "estimate-ready" \notin draft'.tags
      BY <3>3, <3>4, <3>5 DEF QuoteInv, Quoting
    <3>7. "estimate-sent" \in draft'.tags => told.quote = draft'.price BY <3>1, <3>3 DEF QuoteInv, Quoting
    <3>8. ~Busy("a")' \/ req'["a"].job # "estimate" BY <2>2
    <3> QED BY <2>2, <3>1, <3>6, <3>7, <3>8 DEF QuoteInv, Alone, Running
  <2>7. CASE r.job \in {"approve", "complete", "refund", "pay"}
    <3>1. draft'.price = draft.price /\ wanted' = wanted BY <2>2, <2>7 DEF Class
    <3>2. \A t \in {"free", "estimate-ready", "estimate-sent"} : t \in draft'.tags => t \in draft.tags
      BY <2>2, <2>3, <2>7, NewTagsIs DEF Quoting
    <3>3. ~Busy("a")' \/ req'["a"].job # "estimate" BY <2>2
    <3> QED BY <2>2, <3>1, <3>2, <3>3 DEF QuoteInv, Running
  <2> QED BY <2>5, <2>6, <2>7, NewTagsIs
<1> QED BY <1>4, <1>5, <1>6, <1>7, <1>8, <1>9, <1>10 DEF ReqStep

LEMMA NextQuote ==
  ASSUME TypeInv, TypeInv', Ordered, Apart, OrderlyInv, QuoteInv,
         ~Allowed("fault"), ~Allowed("overlap"), ~Allowed("revise"), ~Allowed("waived"), [Next]_vars
  PROVE  QuoteInv'
<1>1. CASE Deliver \/ PassStep BY <1>1, PassQuote
<1>2. CASE Staffs BY <1>2, StaffQuote
<1>3. ASSUME NEW s \in Slot, Requested(s) PROVE QuoteInv'
  <2>1. ~ReqFails(s) BY DEF ReqFails
  <2> QED BY <1>3, <2>1, StartQuote, RequestQuote DEF Requested
<1>4. CASE \E l \in links : PayLink(l)
  <2>1. UNCHANGED <<draft, chain, req, told, wanted>> BY <1>4, PayIs
  <2> QED BY <2>1 DEF QuoteInv, Running, Busy
<1>5. CASE PassFails \/ GateFails \/ Restart BY <1>5 DEF PassFails, GateFails, Restart
<1>6. CASE UNCHANGED vars BY <1>6 DEF vars, QuoteInv, Running, Busy
<1> QED BY <1>1, <1>2, <1>3, <1>4, <1>5, <1>6, Steps

LEMMA InitQuote == Init => QuoteInv
<1> SUFFICES ASSUME Init PROVE QuoteInv OBVIOUS
<1>1. draft.tags = {} /\ ~Running BY DEF Init, Running, Idle
<1>2. req = [s \in Slot |-> Idle] /\ "a" \in Slot BY DEF Init, Slot
<1>3. ~Busy("a") BY <1>2 DEF Busy, Idle
<1> QED BY <1>1, <1>3 DEF QuoteInv

--------------------
(* One estimate, paid once, and recorded *)

LEMMA EstimateKept ==
  ASSUME EstimateInv, links' = links, draft'.price = draft.price \/ ~Estimated,
         told'.quote = told.quote \/ (told'.quote # None /\ Running' /\ chain'.pc = "markQuoted"),
         "estimate-ready" \in draft'.tags <=> "estimate-ready" \in draft.tags,
         "estimate-sent" \in draft.tags => "estimate-sent" \in draft'.tags,
         Running /\ chain.pc = "markQuoted" =>
            (Running' /\ chain'.pc = "markQuoted") \/ "estimate-sent" \in draft'.tags,
         Running /\ chain.pc = "mailQuote" => (Running' /\ chain'.pc = "mailQuote") \/ told'.quote # None
  PROVE  EstimateInv'
  BY DEF EstimateInv, Estimated, LinkPaid

LEMMA BalanceKept ==
  ASSUME BalanceInv, links' = links, told.ready > 0 => told'.ready > 0,
         Running /\ chain.pc = "mailReady" => told'.ready > 0 \/ (Running' /\ chain'.pc = "mailReady"),
         Running' /\ chain'.pc = "balance" => LinkPaid
  PROVE  BalanceInv'
  BY DEF BalanceInv, LinkPaid

\* A payment stays where it was.
Unpaid == ~(LinkPaid /\ Plain) /\ ~(Paying("a") /\ req["a"].pc = "paid")

LEMMA PaymentKept ==
  ASSUME PaymentInv, links' = links, calls' = calls, money'.got = money.got, fields'.paid = fields.paid,
         draft'.price = draft.price \/ Unpaid,
         "estimate-sent" \in draft.tags => "estimate-sent" \in draft'.tags,
         Paying("a")' <=> Paying("a"),
         Paying("a") => req'["a"].pc = req["a"].pc /\ req'["a"].price = req["a"].price
  PROVE  PaymentInv'
<1>1. (LinkPaid <=> LinkPaid') /\ (Plain <=> Plain') BY DEF LinkPaid, Plain
<1>2. OnItsWay => OnItsWay' BY DEF OnItsWay
<1> QED BY <1>1, <1>2 DEF PaymentInv, Unpaid

\* Steps that touch neither a link nor a payment, nor what was told.
LEMMA PaidKept ==
  ASSUME PaidInv, links' = links, calls' = calls, money'.got = money.got, fields'.paid = fields.paid,
         draft'.price = draft.price, UNCHANGED <<told, chain>>,
         "estimate-ready" \in draft'.tags <=> "estimate-ready" \in draft.tags,
         "estimate-sent" \in draft.tags => "estimate-sent" \in draft'.tags,
         Paying("a")' <=> Paying("a"),
         Paying("a") => req'["a"].pc = req["a"].pc /\ req'["a"].price = req["a"].price
  PROVE  PaidInv'
<1>1. Running' <=> Running BY DEF Running
<1>2. EstimateInv /\ BalanceInv /\ PaymentInv BY DEF PaidInv
<1>3. EstimateInv' BY <1>1, <1>2, EstimateKept
<1>4. BalanceInv' BY <1>1, <1>2 DEF BalanceInv, LinkPaid
<1>5. PaymentInv' BY <1>2, PaymentKept
<1> QED BY <1>3, <1>4, <1>5 DEF PaidInv

\* A free repair has no estimate to pay.
LEMMA FreeUnestimated ==
  ASSUME OrderlyInv, QuoteInv, EstimateInv, "free" \in draft.tags
  PROVE  ~Estimated
<1>1. told.quote = None /\ "estimate-ready" \notin draft.tags BY DEF QuoteInv
<1>2. ~(Running /\ chain.pc = "mailQuote")
  BY <1>1 DEF OrderlyInv, View, QuotePc, QuoteDue
<1> QED BY <1>1, <1>2 DEF EstimateInv

LEMMA PassPaid ==
  ASSUME TypeInv, TypeInv', Apart, OrderlyInv, QuoteInv, PaidInv, Deliver \/ PassStep
  PROVE  PaidInv'
<1>0. EstimateInv /\ BalanceInv /\ PaymentInv /\ View BY DEF PaidInv, OrderlyInv
<1>b. req' = req => (Paying("a")' <=> Paying("a")) BY DEF Paying, Busy
<1>y. told \in ToldRec /\ told.ready \in Nat BY DEF TypeInv, ToldRec
<1>z. /\ {"mailQuote", "markQuoted", "balance", "mailReady", "markReady", "end"} \subseteq ChainPc
      /\ "estimate-sent" \in Tag
  BY DEF ChainPc, QuotePc, ReadyPc, AfterPc, Tag
<1>1. CASE PlainStep
  <2>1. /\ links' = links /\ calls' = calls /\ money' = money /\ fields' = fields /\ req' = req
        /\ told'.quote = told.quote /\ told'.ready = told.ready
        /\ draft'.price = draft.price \/ ("free" \in draft.tags /\ draft'.price = 0)
        /\ "estimate-ready" \in draft'.tags <=> "estimate-ready" \in draft.tags
        /\ "estimate-sent" \in draft'.tags <=> "estimate-sent" \in draft.tags
        /\ \A p \in {"mailQuote", "markQuoted", "balance", "mailReady"} :
              (Running' /\ chain'.pc = p) <=> (Running /\ chain.pc = p)
    BY <1>1 DEF PlainStep, TagsLast, Lasting, Telling
  <2>2. "free" \in draft.tags => ~Estimated BY <1>0, FreeUnestimated
  <2>3. EstimateInv' BY <1>0, <2>1, <2>2, EstimateKept
  <2>4. BalanceInv' BY <1>0, <2>1, BalanceKept DEF BalanceInv
  <2>5. draft'.price = draft.price \/ Unpaid
    <3> SUFFICES ASSUME draft'.price # draft.price PROVE Unpaid OBVIOUS
    <3>1. "free" \in draft.tags /\ draft'.price = 0 /\ draft.price # 0 BY <2>1
    <3>2. ~(LinkPaid /\ Plain) BY <2>2, <3>1 DEF LinkPaid, Plain, Estimated
    <3>3. ~(Paying("a") /\ req["a"].pc = "paid")
      <4> SUFFICES ASSUME Paying("a"), req["a"].pc = "paid" PROVE FALSE OBVIOUS
      <4>1. Idling BY DEF OrderlyInv, Requests, Overlaps, Paying
      <4> QED BY <3>1, <4>1 DEF Idling, FreeUnpaid
    <3> QED BY <3>2, <3>3 DEF Unpaid
  <2>6. PaymentInv' BY <1>0, <1>b, <2>1, <2>5, PaymentKept
  <2> QED BY <2>3, <2>4, <2>6 DEF PaidInv
<1>2. CASE MakeLink
  <2>1. /\ Running /\ chain.pc = "link" /\ Running' /\ chain'.pc = "mailQuote" /\ draft' = draft
        /\ UNCHANGED <<fields, req, calls, told, money>>
    BY <1>2, MakeLinkIs DEF GoesTo, SameCopies
  <2>2. PICK l \in LinkRec : l.kind = "estimate" /\ l.amount = chain.price /\ ~l.paid /\ links' = links \cup {l}
    BY <1>2, MakeLinkIs DEF Links1
  <2>3. chain.price = draft.price /\ "estimate-ready" \in draft.tags /\ "estimate-sent" \notin draft.tags
    BY <1>0, <2>1 DEF View, QuotePc, QuoteDue
  <2>4. ~Estimated BY <1>0, <2>1, <2>3 DEF EstimateInv
  <2>5. (LinkPaid' <=> LinkPaid) /\ (Plain' <=> Plain) BY <2>2 DEF LinkPaid, Plain
  <2>6. EstimateInv'
    <3>1. \A k \in links' : k.kind = "estimate" => k = l BY <2>2, <2>4 DEF Estimated
    <3>2. (\A k, m \in links : k.kind = "estimate" /\ m.kind = "estimate" => k = m)'
      BY <3>1
    <3>3. (\A k \in links : k.kind = "estimate" => k.amount = draft.price)' BY <2>1, <2>2, <2>3, <3>1
    <3>4. (told.quote # None =>
          (Running /\ chain.pc = "markQuoted") \/ "estimate-sent" \in draft.tags \/ "estimate-ready" \notin draft.tags)'
      BY <1>0, <2>1, <2>3 DEF EstimateInv
    <3> QED BY <2>1, <2>3, <3>2, <3>3, <3>4 DEF EstimateInv
  <2>7. BalanceInv' BY <1>0, <2>1, <2>2 DEF BalanceInv
  <2>8. OnItsWay => OnItsWay' BY <1>b, <2>1 DEF OnItsWay
  <2>9. PaymentInv' BY <1>0, <1>b, <2>1, <2>5, <2>8 DEF PaymentInv
  <2> QED BY <2>6, <2>7, <2>9 DEF PaidInv
<1>3. CASE MailQuote
  <2>1. PICK m : m = [told EXCEPT !.quote = chain.price] OBVIOUS
  <2>2. m.quote = chain.price /\ m.ready = told.ready BY <1>y, <2>1 DEF ToldRec
  <2>3. /\ Running /\ chain.pc = "mailQuote" /\ Running' /\ chain'.pc = "markQuoted" /\ told' = m /\ draft' = draft
        /\ chain.price \in Money /\ UNCHANGED <<fields, req, links, calls, money>>
    BY <1>3, <1>z, <2>1, MailsIs DEF MailQuote, GoesTo, SameCopies, ChainRec
  <2>4. told'.quote # None BY <2>2, <2>3, MoneyIsNat
  <2>5. EstimateInv' BY <1>0, <2>3, <2>4, EstimateKept
  <2>6. BalanceInv' BY <1>0, <2>2, <2>3, BalanceKept
  <2>7. PaymentInv' BY <1>0, <1>b, <2>3, PaymentKept
  <2> QED BY <2>5, <2>6, <2>7 DEF PaidInv
<1>4. CASE Marks("markQuoted", "estimate-sent", "end")
  <2>1. /\ Running /\ chain.pc = "markQuoted" /\ Running' /\ chain'.pc = "end"
        /\ draft'.tags = chain.tags \cup {"estimate-sent"}
        /\ draft'.price = draft.price /\ UNCHANGED <<fields, req, links, calls, money, told>>
    BY <1>4, <1>z, MarksIs DEF GoesTo, TagsAre, Elsewhere
  <2>2. chain.tags = draft.tags BY <1>0, <2>1 DEF View, Same, QuotePc
  <2>3. EstimateInv'
    <3>1. "estimate-ready" \in draft'.tags <=> "estimate-ready" \in draft.tags BY <2>1, <2>2
    <3> QED BY <1>0, <2>1, <2>2, <3>1, EstimateKept
  <2>4. BalanceInv' BY <1>0, <2>1, BalanceKept
  <2>5. PaymentInv' BY <1>0, <1>b, <2>1, <2>2, PaymentKept
  <2> QED BY <2>3, <2>4, <2>5 DEF PaidInv
<1>5. CASE ReadFields
  <2>1. /\ Running /\ chain.pc = "fields" /\ Running' /\ draft' = draft
        /\ chain'.pc = (IF chain'.ask.mode = "balance" THEN "balance" ELSE "mailReady")
        /\ chain'.ask = Completion(fields.paid, fields.final, chain.price, "free" \in chain.tags)
        /\ UNCHANGED <<fields, req, links, calls, money, told>>
    BY <1>5, ReadFieldsIs DEF GoesTo, SameCopies, Elsewhere
  <2>2. fields.paid = 0 => chain'.ask.mode # "balance" BY <2>1 DEF Completion
  <2>3. chain'.pc = "balance" => LinkPaid BY <1>0, <2>1, <2>2 DEF PaymentInv
  <2>4. EstimateInv' BY <1>0, <2>1, EstimateKept
  <2>5. BalanceInv' BY <1>0, <2>1, <2>3, BalanceKept
  <2>6. PaymentInv' BY <1>0, <1>b, <2>1, PaymentKept
  <2> QED BY <2>4, <2>5, <2>6 DEF PaidInv
<1>6. CASE MakeBalanceLink
  <2>1. /\ Running /\ chain.pc = "balance" /\ Running' /\ chain'.pc = "mailReady" /\ draft' = draft
        /\ UNCHANGED <<fields, req, calls, told, money>>
    BY <1>6, MakeBalanceLinkIs DEF GoesTo, SameCopies
  <2>2. PICK l \in LinkRec : l.kind = "balance" /\ ~l.paid /\ links' = links \cup {l}
    BY <1>6, MakeBalanceLinkIs DEF Links1
  <2>3. (LinkPaid' <=> LinkPaid) /\ (Plain' <=> Plain) /\ (Estimated' <=> Estimated)
    BY <2>2 DEF LinkPaid, Plain, Estimated
  <2>4. EstimateInv'
    <3>1. \A k \in links' : k.kind = "estimate" => k \in links BY <2>2
    <3> QED BY <1>0, <2>1, <2>3, <3>1 DEF EstimateInv
  <2>5. BalanceInv' BY <1>0, <2>1, <2>2 DEF BalanceInv
  <2>6. OnItsWay => OnItsWay' BY <1>b, <2>1 DEF OnItsWay
  <2>7. PaymentInv' BY <1>0, <1>b, <2>1, <2>3, <2>6 DEF PaymentInv
  <2> QED BY <2>4, <2>5, <2>7 DEF PaidInv
<1>7. CASE MailReady
  <2>1. PICK m : m = [told EXCEPT !.ready = @ + 1, !.ask = [mode |-> chain.ask.mode, amount |-> chain.ask.amount, got |-> money.got]] OBVIOUS
  <2>2. m.quote = told.quote /\ m.ready = told.ready + 1 BY <1>y, <2>1 DEF ToldRec
  <2>3. /\ Running /\ chain.pc = "mailReady" /\ Running' /\ chain'.pc = "markReady" /\ told' = m /\ draft' = draft
        /\ UNCHANGED <<fields, req, links, calls, money>>
    BY <1>7, <1>z, <2>1, MailsIs DEF MailReady, GoesTo, SameCopies
  <2>4. told'.ready > 0 BY <1>y, <2>2, <2>3
  <2>5. EstimateInv' BY <1>0, <2>2, <2>3, EstimateKept
  <2>6. BalanceInv' BY <1>0, <2>3, <2>4, BalanceKept
  <2>7. PaymentInv' BY <1>0, <1>b, <2>3, PaymentKept
  <2> QED BY <2>5, <2>6, <2>7 DEF PaidInv
<1> QED BY <1>1, <1>2, <1>3, <1>4, <1>5, <1>6, <1>7, PassPlain

LEMMA StaffPaid ==
  ASSUME TypeInv, PaidInv, ~Allowed("overlap"), Staffs
  PROVE  PaidInv'
<1>1. UNCHANGED <<fields, chain, req, links, calls, told, money>> /\ draft'.price = draft.price
  BY StaffTagIs, FillIs DEF Staffs, TagsAre
<1>2. \A t \in {"estimate-ready", "estimate-sent"} : t \in draft'.tags <=> t \in draft.tags
  <2>1. CASE FillReference BY <2>1, FillIs
  <2>2. ASSUME NEW tag \in Class \cup {"outside", "resync"}, StaffTag(tag)
        PROVE  \A t \in {"estimate-ready", "estimate-sent"} : t \in draft'.tags <=> t \in draft.tags
    BY <2>2, StaffTagIs DEF TagsAre, Class
  <2> QED BY <2>1, <2>2 DEF Staffs
<1>3. Paying("a")' <=> Paying("a") BY <1>1 DEF Paying, Busy
<1> QED BY <1>1, <1>2, <1>3, PaidKept

LEMMA StartPaid ==
  ASSUME TypeInv, PaidInv, ~Allowed("overlap"), NEW s \in Slot, Posts(s) \/ (\E n \in calls : Notified(s, n))
  PROVE  PaidInv'
<1>0. EstimateInv /\ BalanceInv /\ PaymentInv BY DEF PaidInv
<1>1. PICK task \in Job, amount \in Nat \cup {None}, extra \in BOOLEAN :
         /\ Start(s, task, amount, extra) /\ Settled
         /\ task = "pay" => calls # {}
         /\ task # "pay" => calls' = calls
  <2>1. CASE Posts(s)
    <3>1. PICK task \in Job, amount \in Nat \cup {None}, extra \in BOOLEAN :
            Post(s, task, amount, extra) /\ task # "pay"
      BY <2>1, PostIs
    <3> QED BY <3>1, Prompts DEF Post
  <2>2. CASE \E n \in calls : Notified(s, n)
    <3>1. Start(s, "pay", 0, FALSE) /\ Settled /\ calls # {} BY <2>2, NotifiedIs
    <3>2. "pay" \in Job BY DEF Job
    <3> QED BY <3>1, <3>2
  <2> QED BY <2>1, <2>2
<1>2. /\ req'["a"].job = task /\ req'["a"].pc = "read" /\ ~Busy("a") /\ Busy("a")'
  BY <1>1, StartsAlone
<1>3. UNCHANGED <<draft, fields, chain, links, told, money>> BY <1>1 DEF Start, ghosts
<1>4. (Running' <=> Running) /\ (LinkPaid' <=> LinkPaid) /\ (Plain' <=> Plain) BY <1>3 DEF Running, LinkPaid, Plain
<1>5. EstimateInv' BY <1>0, <1>3, <1>4, EstimateKept
<1>6. BalanceInv' BY <1>0, <1>3, <1>4, BalanceKept DEF BalanceInv
<1>7. PaymentInv'
  <2>1. ~LinkPaid' => /\ money'.got = 0 /\ fields'.paid = 0 /\ calls = {} /\ task # "pay"
                      /\ calls' = {} /\ ~Paying("a")'
    BY <1>0, <1>1, <1>2, <1>3, <1>4 DEF PaymentInv, Paying
  <2>2. OnItsWay => OnItsWay' BY <1>1, <1>2, <1>3 DEF OnItsWay, Paying
  <2>3. ~(Paying("a") /\ req["a"].pc = "paid")' BY <1>2
  <2> QED BY <1>0, <1>3, <1>4, <2>1, <2>2, <2>3 DEF PaymentInv
<1> QED BY <1>5, <1>6, <1>7 DEF PaidInv

\* The customer pays what is on the draft, once it was sent.
LEMMA PayPaid ==
  ASSUME TypeInv, OrderlyInv, PaidInv, ~Allowed("overlap"), NEW l \in links, PayLink(l)
  PROVE  PaidInv'
<1>0. EstimateInv /\ BalanceInv /\ PaymentInv BY DEF PaidInv
<1>1. /\ l \in LinkRec /\ ~l.paid
      /\ calls' # {} /\ money'.got = money.got + l.amount /\ Settled
      /\ UNCHANGED <<draft, fields, chain, req, told>>
  BY PayIs, Prompts
<1>2. PICK k \in LinkRec : /\ k.kind = l.kind /\ k.amount = l.amount /\ k.paid
                           /\ links' = (links \ {l}) \cup {k}
  BY PayIs
<1>3. Alone /\ ~Running /\ ~Running' /\ ~Busy("a") /\ ~Busy("a")'
  BY <1>1 DEF Settled, Alone, Running, Busy, Slot
<1>4. LinkPaid' /\ (Estimated' <=> Estimated) BY <1>2 DEF LinkPaid, Estimated
<1>5. EstimateInv'
  <2>1. (\A i, m \in links : i.kind = "estimate" /\ m.kind = "estimate" => i = m)'
    <3> SUFFICES ASSUME NEW i \in links', NEW m \in links', i.kind = "estimate", m.kind = "estimate"
                 PROVE  i = m
      OBVIOUS
    <3>1. \A j \in links \ {l} : j.kind = "estimate" => l.kind # "estimate" BY <1>0 DEF EstimateInv
    <3> QED BY <1>0, <1>2, <3>1 DEF EstimateInv
  <2>2. (\A i \in links : i.kind = "estimate" => i.amount = draft.price)'
    BY <1>0, <1>1, <1>2 DEF EstimateInv
  <2>3. (told.quote # None =>
          (Running /\ chain.pc = "markQuoted") \/ "estimate-sent" \in draft.tags \/ "estimate-ready" \notin draft.tags)'
    BY <1>0, <1>1, <1>3 DEF EstimateInv
  <2> QED BY <1>0, <1>1, <1>3, <1>4, <2>1, <2>2, <2>3 DEF EstimateInv
<1>6. BalanceInv' BY <1>0, <1>1, <1>2, <1>3 DEF BalanceInv
<1>7. PaymentInv'
  <2>1. ASSUME Plain' PROVE money'.got = draft'.price /\ OnItsWay'
    <3>1. l.kind = "estimate" /\ (\A m \in links : m.paid => m.kind = "estimate")
      BY <1>1, <1>2, <2>1 DEF Plain
    <3>2. ~LinkPaid BY <1>0, <1>1, <3>1 DEF LinkPaid, EstimateInv
    <3>3. money.got = 0 /\ l.amount = draft.price /\ "estimate-ready" \in draft.tags
      BY <1>0, <3>1, <3>2 DEF PaymentInv, EstimateInv, Estimated
    <3>4. "estimate-sent" \in draft.tags BY <1>3, <3>3, ReadySent
    <3>5. l.amount \in Nat BY <1>1 DEF LinkRec
    <3> QED BY <1>1, <3>3, <3>4, <3>5 DEF OnItsWay
  <2> QED BY <1>3, <1>4, <2>1 DEF PaymentInv, Paying
<1> QED BY <1>5, <1>6, <1>7 DEF PaidInv

\* A request that is not a payment writes no price but an estimate's.
LEMMA OtherPaid ==
  ASSUME TypeInv, Apart, OrderlyInv, PaidInv,
         Read("a") \/ WriteFinal("a") \/ WriteSpecs("a") \/ ReadDelta("a") \/ IssueVoucher("a")
         \/ (Put("a") /\ req["a"].job \in {"approve", "complete", "refund"} \cup Class), ~Paying("a")
  PROVE  PaidInv'
<1>a. "a" \in Slot BY DEF Slot
<1>b. Busy("a") BY <1>a, Reads, WriteFinalIs, WriteSpecsIs, ReadDeltaIs, IssueVoucherIs, Puts
<1>1. ASSUME UNCHANGED <<links, calls, told, chain>>, money'.got = money.got, fields'.paid = fields.paid,
             draft'.price = draft.price,
             \A t \in Quoting : t \in draft'.tags <=> t \in draft.tags,
             ~Busy("a")' \/ req'["a"].job = req["a"].job
      PROVE  PaidInv'
  <2>1. ~Paying("a")' BY <1>b, <1>1 DEF Paying
  <2> QED BY <1>1, <2>1, PaidKept DEF Quoting
<1>2. CASE Read("a") BY <1>a, <1>1, <1>2, Reads DEF ghosts
<1>3. CASE WriteFinal("a") BY <1>a, <1>1, <1>3, WriteFinalIs
<1>4. CASE WriteSpecs("a")
  <2>1. req["a"].price = draft.price BY <1>a, <1>4, WriteSpecsIs DEF Apart, Overlaps
  <2> QED BY <1>a, <1>1, <1>4, <2>1, WriteSpecsIs DEF LineIs
<1>5. CASE ReadDelta("a") BY <1>a, <1>1, <1>5, ReadDeltaIs
<1>6. CASE IssueVoucher("a") BY <1>a, <1>1, <1>6, IssueVoucherIs
<1>7. CASE Put("a") /\ req["a"].job \in {"approve", "complete", "refund"} \cup Class
  <2>1. PICK r \in ReqRec : r = req["a"] BY <1>a, <1>7, Puts
  <2>2. /\ r.pc = "put" /\ draft'.tags = NewTags(r) /\ r.job \in {"approve", "complete", "refund"} \cup Class
        /\ draft'.price = (IF r.job = "estimate" THEN r.amount ELSE IF r.job \in Class THEN r.price ELSE draft.price)
        /\ UNCHANGED <<fields, links, calls, chain, told, money>>
        /\ ~Busy("a")'
    BY <1>a, <1>7, <2>1, Puts DEF Class
  <2>3. r.tags = draft.tags BY <1>b, <2>1, <2>2 DEF OrderlyInv, Requests
  <2>4. r.job \in Class => r.price = draft.price BY <1>b, <2>1, <2>2 DEF Apart, Overlaps, Class
  <2>5. draft'.price = draft.price BY <2>2, <2>4 DEF Class
  <2>6. \A t \in Quoting : t \in draft'.tags <=> t \in draft.tags
    <3>1. CASE r.job \in Class
      <4>1. NewTags(r) = (r.tags \ {"missing-inspection"}) \cup {"outside"}
                            \cup (IF r.tags \cap Class = {} THEN {r.job} ELSE {})
        BY <3>1, NewTagsIs
      <4> QED BY <2>2, <2>3, <3>1, <4>1 DEF Quoting, Class
    <3>2. CASE r.job \in {"approve", "complete", "refund"}
      BY <2>2, <2>3, <3>2, NewTagsIs DEF Quoting
    <3> QED BY <2>2, <3>1, <3>2
  <2> QED BY <1>1, <2>2, <2>5, <2>6
<1> QED BY <1>2, <1>3, <1>4, <1>5, <1>6, <1>7

\* The first estimate: nothing was quoted, linked or paid.
LEMMA EstimatePaid ==
  ASSUME TypeInv, Ordered, Apart, OrderlyInv, QuoteInv, PaidInv, Put("a"), req["a"].job = "estimate"
  PROVE  PaidInv'
<1>a. "a" \in Slot BY DEF Slot
<1>1. PICK r \in ReqRec : r = req["a"] BY <1>a, Puts
<1>2. /\ Busy("a") /\ r.pc = "put" /\ draft'.tags = NewTags(r) /\ r.job = "estimate" /\ ~Busy("a")'
      /\ UNCHANGED <<fields, links, calls, chain, told, money>>
  BY <1>a, <1>1, Puts
<1>3. wanted = None BY <1>1, <1>2 DEF QuoteInv
<1>4. links = {} /\ calls = {} /\ fields.paid = 0 /\ told.quote = None BY <1>3 DEF Ordered
<1>5. ~Running BY <1>1, <1>2 DEF Apart, Overlaps, Alone
<1>6. ~LinkPaid /\ money.got = 0 BY <1>4 DEF LinkPaid, PaidInv, PaymentInv
<1>7. EstimateInv' BY <1>2, <1>4 DEF EstimateInv, Estimated
<1>8. BalanceInv' BY <1>2, <1>4, <1>5 DEF BalanceInv, Running
<1>9. PaymentInv' BY <1>2, <1>4, <1>6 DEF PaymentInv, LinkPaid, Paying
<1> QED BY <1>7, <1>8, <1>9 DEF PaidInv

\* A payment: it reads, takes the draft off the list of those that await one,
\* and records the price it read.
LEMMA PaymentPaid ==
  ASSUME TypeInv, Apart, OrderlyInv, PaidInv, Paying("a"), Read("a") \/ Put("a") \/ WritePaid("a")
  PROVE  PaidInv'
<1>a. "a" \in Slot BY DEF Slot
<1>0. EstimateInv /\ BalanceInv /\ PaymentInv BY DEF PaidInv
<1>1. PICK r \in ReqRec : r = req["a"] BY <1>a, RequestRec DEF Paying
<1>2. r.job = "pay" /\ Busy("a") BY <1>1 DEF Paying
<1>3. LinkPaid BY <1>0 DEF PaymentInv
<1>4. CASE Read("a")
  <2>1. /\ r.pc = "read" /\ UNCHANGED <<draft, fields, links, calls, chain, told, money>>
        /\ AfterRead(r) = "idle" => ~Busy("a")'
        /\ AfterRead(r) # "idle" => Busy("a")' /\ req'["a"].pc = AfterRead(r) /\ req'["a"].job = "pay"
    BY <1>a, <1>1, <1>2, <1>4, Reads DEF ghosts
  <2>2. AfterRead(r) = IF draft.tags \cap Quoting = {} THEN "idle" ELSE "put"
    BY <1>2 DEF AfterRead, Class, Quoting
  <2>3. (Running' <=> Running) /\ (LinkPaid' <=> LinkPaid) /\ (Plain' <=> Plain) BY <2>1 DEF Running, LinkPaid, Plain
  <2>4. EstimateInv' BY <1>0, <2>1, <2>3, EstimateKept
  <2>5. BalanceInv' BY <1>0, <2>1, <2>3 DEF BalanceInv
  <2>6. OnItsWay => OnItsWay'
    <3>1. "estimate-sent" \in draft.tags => req'["a"].pc = "put" /\ Paying("a")'
      BY <2>1, <2>2 DEF Quoting, Paying
    <3> QED BY <1>1, <2>1, <3>1 DEF OnItsWay
  <2>7. ~(Paying("a") /\ req["a"].pc = "paid")' BY <2>1, <2>2 DEF Paying
  <2>8. PaymentInv' BY <1>0, <1>3, <2>1, <2>3, <2>6, <2>7 DEF PaymentInv
  <2> QED BY <2>4, <2>5, <2>8 DEF PaidInv
<1>5. CASE Put("a")
  <2>1. /\ r.pc = "put" /\ draft'.tags = NewTags(r) /\ draft'.price = draft.price
        /\ UNCHANGED <<fields, links, calls, chain, told, money>>
        /\ Busy("a")' /\ req'["a"].pc = "paid" /\ req'["a"].job = "pay" /\ req'["a"].price = r.price
    BY <1>a, <1>1, <1>2, <1>5, Puts DEF Class
  <2>2. r.price = draft.price BY <1>1, <1>2, <2>1 DEF Apart, Overlaps
  <2>3. "estimate-ready" \notin draft'.tags BY <1>2, <2>1, NewTagsIs DEF Quoting
  <2>4. (Running' <=> Running) /\ (LinkPaid' <=> LinkPaid) /\ (Plain' <=> Plain) /\ (Estimated' <=> Estimated)
    BY <2>1 DEF Running, LinkPaid, Plain, Estimated
  <2>5. EstimateInv' BY <1>0, <1>3, <2>1, <2>3, <2>4 DEF EstimateInv
  <2>6. BalanceInv' BY <1>0, <2>1, <2>4 DEF BalanceInv
  <2>7. PaymentInv' BY <1>0, <1>3, <2>1, <2>2, <2>4 DEF PaymentInv, OnItsWay, Paying
  <2> QED BY <2>5, <2>6, <2>7 DEF PaidInv
<1>6. CASE WritePaid("a")
  <2>1. /\ r.pc = "paid" /\ fields'.paid = r.price /\ ~Busy("a")'
        /\ UNCHANGED <<draft, links, calls, chain, told, money>>
    BY <1>a, <1>1, <1>6, WritePaidIs
  <2>2. r.price = draft.price BY <1>0, <1>1, <2>1 DEF PaymentInv
  <2>4. (Running' <=> Running) /\ (LinkPaid' <=> LinkPaid) /\ (Plain' <=> Plain)
    BY <2>1 DEF Running, LinkPaid, Plain
  <2>5. EstimateInv' BY <1>0, <2>1, <2>4, EstimateKept
  <2>6. BalanceInv' BY <1>0, <2>1, <2>4 DEF BalanceInv
  <2>7. PaymentInv' BY <1>0, <1>3, <2>1, <2>2, <2>4 DEF PaymentInv, Paying
  <2> QED BY <2>5, <2>6, <2>7 DEF PaidInv
<1> QED BY <1>4, <1>5, <1>6

LEMMA RequestPaid ==
  ASSUME TypeInv, Ordered, Apart, OrderlyInv, QuoteInv, PaidInv, NEW s \in Slot, ReqStep(s)
  PROVE  PaidInv'
<1>1. Busy(s)
  BY Reads, WriteFinalIs, WriteSpecsIs, ReadDeltaIs, IssueVoucherIs, Puts, WritePaidIs DEF ReqStep
<1>2. s = "a" /\ Busy("a") BY <1>1 DEF Apart, Slot
<1>3. CASE Paying("a")
  <2>1. ~WriteFinal(s) /\ ~WriteSpecs(s) /\ ~ReadDelta(s) /\ ~IssueVoucher(s)
    BY <1>2, <1>3, WriteFinalIs, WriteSpecsIs, ReadDeltaIs, IssueVoucherIs DEF Paying
  <2> QED BY <1>2, <1>3, <2>1, PaymentPaid DEF ReqStep
<1>4. CASE ~Paying("a")
  <2>1. ~WritePaid(s) BY <1>2, <1>4, WritePaidIs DEF Paying
  <2>2. CASE Put(s)
    <3>1. req["a"] \in ReqRec BY <1>2, <2>2, Puts
    <3>2. req["a"].job \in {"estimate", "complete", "approve", "refund", "pay"} \cup Class BY <3>1, NewTagsIs
    <3>3. req["a"].job # "pay" BY <1>2, <1>4 DEF Paying
    <3> QED BY <1>2, <1>4, <2>2, <3>2, <3>3, EstimatePaid, OtherPaid
  <2> QED BY <1>2, <1>4, <2>1, <2>2, OtherPaid DEF ReqStep
<1> QED BY <1>3, <1>4

LEMMA NextPaid ==
  ASSUME TypeInv, TypeInv', Ordered, Apart, OrderlyInv, QuoteInv, PaidInv,
         ~Allowed("fault"), ~Allowed("overlap"), [Next]_vars
  PROVE  PaidInv'
<1>1. CASE Deliver \/ PassStep BY <1>1, PassPaid
<1>2. CASE Staffs BY <1>2, StaffPaid
<1>3. ASSUME NEW s \in Slot, Requested(s) PROVE PaidInv'
  <2>1. ~ReqFails(s) BY DEF ReqFails
  <2> QED BY <1>3, <2>1, StartPaid, RequestPaid DEF Requested
<1>4. CASE \E l \in links : PayLink(l) BY <1>4, PayPaid
<1>5. CASE PassFails \/ GateFails \/ Restart BY <1>5 DEF PassFails, GateFails, Restart
<1>6. CASE UNCHANGED vars
  <2>1. Paying("a")' <=> Paying("a") BY <1>6 DEF vars, Paying, Busy
  <2> QED BY <1>6, <2>1, PaidKept DEF vars
<1> QED BY <1>1, <1>2, <1>3, <1>4, <1>5, <1>6, Steps

LEMMA InitPaid == Init => PaidInv
<1> SUFFICES ASSUME Init PROVE PaidInv OBVIOUS
<1>1. /\ links = {} /\ calls = {} /\ fields.paid = 0 /\ told.quote = None /\ money.got = 0 /\ ~Running
  BY DEF Init, Running, Idle
<1>2. req = [s \in Slot |-> Idle] /\ "a" \in Slot BY DEF Init, Slot
<1>3. ~Busy("a") BY <1>2 DEF Busy, Idle
<1> QED BY <1>1, <1>3 DEF PaidInv, EstimateInv, BalanceInv, PaymentInv, Estimated, LinkPaid, Paying

--------------------
(* What is given back was paid too much *)

\* Steps that leave the bill and the vouchers as they were.
LEMMA BackKept ==
  ASSUME BackInv, fields'.final = fields.final, UNCHANGED <<money, chain>>, told'.ask = told.ask,
         Completing' => "complete" \notin draft'.tags,
         Busy("a")' => /\ req'["a"].job = "refund" => fields.final # None
                       /\ req'["a"].pc = "voucher" => req'["a"].amount <= money.got - fields.final
  PROVE  BackInv'
  BY DEF BackInv, Running

\* A refund is offered only when a final cost was entered.
LEMMA RefundEntered ==
  ASSUME TypeInv, NEW price, NEW free,
         Completion(fields.paid, fields.final, price, free).mode = "refund"
  PROVE  fields.final # None
<1>1. fields.paid \in Nat BY MoneyIsNat DEF TypeInv
<1> QED BY <1>1 DEF Completion

LEMMA PassBack ==
  ASSUME TypeInv, TypeInv', OrderlyInv, BackInv, Deliver \/ PassStep
  PROVE  BackInv'
<1>v. View BY DEF OrderlyInv
<1>z. /\ {"mailQuote", "markQuoted", "balance", "mailReady", "markReady", "end"} \subseteq ChainPc
      /\ "estimate-sent" \in Tag
  BY DEF ChainPc, QuotePc, ReadyPc, AfterPc, Tag
<1>1. ASSUME UNCHANGED <<fields, req, money>>, "complete" \in draft'.tags => "complete" \in draft.tags,
             (Running /\ chain.pc \in {"balance", "mailReady"} /\ chain.ask.mode = "refund" => fields.final # None)',
             (told.ask # None /\ told.ask.mode = "refund" => fields.final # None)'
      PROVE  BackInv'
  BY <1>1 DEF BackInv, Completing, Busy
<1>2. CASE PlainStep
  BY <1>1, <1>2 DEF PlainStep, TagsLast, Lasting, Telling, BackInv
<1>3. CASE MakeLink BY <1>1, <1>3, MakeLinkIs DEF GoesTo, SameCopies, BackInv
<1>4. CASE MailQuote
  <2>1. PICK m : m = [told EXCEPT !.quote = chain.price] OBVIOUS
  <2>2. m.ask = told.ask BY <2>1 DEF TypeInv, ToldRec
  <2>3. chain'.pc = "markQuoted" /\ told' = m /\ draft' = draft /\ UNCHANGED <<fields, req, money>>
    BY <1>4, <1>z, <2>1, MailsIs DEF MailQuote, GoesTo, SameCopies
  <2> QED BY <1>1, <2>2, <2>3 DEF BackInv
<1>5. CASE Marks("markQuoted", "estimate-sent", "end")
  <2>1. /\ Running /\ chain.pc = "markQuoted" /\ chain'.pc = "end"
        /\ draft'.tags = chain.tags \cup {"estimate-sent"} /\ UNCHANGED <<fields, req, money, told>>
    BY <1>5, <1>z, MarksIs DEF GoesTo, TagsAre, Elsewhere
  <2>2. chain.tags = draft.tags BY <1>v, <2>1 DEF View, Same, QuotePc
  <2>3. "complete" \in draft'.tags => "complete" \in draft.tags BY <2>1, <2>2
  <2> QED BY <1>1, <2>1, <2>3 DEF BackInv
<1>6. CASE ReadFields
  <2>1. /\ chain'.ask = Completion(fields.paid, fields.final, chain.price, "free" \in chain.tags)
        /\ draft' = draft /\ UNCHANGED <<fields, req, money, told>>
    BY <1>6, ReadFieldsIs DEF SameCopies, Elsewhere
  <2>2. chain'.ask.mode = "refund" => fields.final # None BY <2>1, RefundEntered
  <2> QED BY <1>1, <2>1, <2>2 DEF BackInv
<1>7. CASE MakeBalanceLink
  <2>1. /\ Running /\ chain.pc = "balance" /\ chain'.ask = chain.ask
        /\ draft' = draft /\ UNCHANGED <<fields, req, money, told>>
    BY <1>7, MakeBalanceLinkIs DEF GoesTo, SameCopies
  <2> QED BY <1>1, <2>1 DEF BackInv
<1>8. CASE MailReady
  <2>1. PICK m : m = [told EXCEPT !.ready = @ + 1, !.ask = [mode |-> chain.ask.mode, amount |-> chain.ask.amount, got |-> money.got]] OBVIOUS
  <2>2. m.ask.mode = chain.ask.mode BY <2>1 DEF TypeInv, ToldRec
  <2>3. /\ Running /\ chain.pc = "mailReady" /\ chain'.pc = "markReady" /\ told' = m
        /\ draft' = draft /\ UNCHANGED <<fields, req, money>>
    BY <1>8, <1>z, <2>1, MailsIs DEF MailReady, GoesTo, SameCopies
  <2> QED BY <1>1, <2>2, <2>3 DEF BackInv
<1> QED BY <1>2, <1>3, <1>4, <1>5, <1>6, <1>7, <1>8, PassPlain

LEMMA StaffBack ==
  ASSUME TypeInv, BackInv, ~Allowed("overlap"), Staffs
  PROVE  BackInv'
<1>1. UNCHANGED <<fields, chain, req, told, money>> BY StaffTagIs, FillIs DEF Staffs
<1>2. "complete" \in draft'.tags => "complete" \in draft.tags
  <2>1. CASE FillReference BY <2>1, FillIs
  <2>2. ASSUME NEW tag \in Class \cup {"outside", "resync"}, StaffTag(tag)
        PROVE  "complete" \in draft'.tags => "complete" \in draft.tags
    BY <2>2, StaffTagIs DEF TagsAre, Class
  <2> QED BY <2>1, <2>2 DEF Staffs
<1> QED BY <1>1, <1>2, BackKept DEF BackInv, Completing, Busy

LEMMA StartBack ==
  ASSUME TypeInv, BackInv, ~Allowed("overlap"), ~Allowed("revise"), NEW s \in Slot,
         Posts(s) \/ (\E n \in calls : Notified(s, n))
  PROVE  BackInv'
<1>1. PICK task \in Job, amount \in Nat \cup {None}, extra \in BOOLEAN :
         /\ Start(s, task, amount, extra) /\ Settled
         /\ task = "complete" => "complete" \notin draft.tags
         /\ task = "refund" => told.ask # None /\ told.ask.mode = "refund"
  <2>1. CASE Posts(s)
    <3>1. PICK task \in Job, amount \in Nat \cup {None}, extra \in BOOLEAN :
            /\ Post(s, task, amount, extra)
            /\ task = "complete" => \E f \in Amount \cup {0, None}, specs \in BOOLEAN :
                                      amount = f /\ extra = specs /\ PostComplete(s, f, specs)
            /\ task = "refund" => ClickRefund(s)
      BY <2>1, PostIs
    <3>2. task = "complete" => "complete" \notin draft.tags BY <3>1 DEF PostComplete
    <3>3. task = "refund" => told.ask # None /\ told.ask.mode = "refund" BY <3>1 DEF ClickRefund
    <3> QED BY <3>1, <3>2, <3>3, Prompts DEF Post
  <2>2. CASE \E n \in calls : Notified(s, n)
    <3>1. Start(s, "pay", 0, FALSE) /\ Settled BY <2>2, NotifiedIs
    <3>2. "pay" \in Job BY DEF Job
    <3> QED BY <3>1, <3>2
  <2> QED BY <2>1, <2>2
<1>2. req'["a"].job = task /\ req'["a"].pc = "read" BY <1>1, StartsAlone
<1>3. UNCHANGED <<draft, fields, chain, told, money>> BY <1>1 DEF Start, ghosts
<1> QED BY <1>1, <1>2, <1>3, BackKept DEF BackInv, Completing

\* Once a refund was made, nothing is completed again.
LEMMA CompletesFirst ==
  ASSUME TypeInv, OrderlyInv, BackInv, Completing
  PROVE  money.vouchers = 0 /\ told.ready = 0
<1>1. "complete" \notin draft.tags BY DEF BackInv
<1>2. told.ready \in Nat /\ money.vouchers \in Nat BY DEF TypeInv, ToldRec
<1>3. ~(told.ready > 0) BY <1>1 DEF OrderlyInv, ToldInv
<1> QED BY <1>2, <1>3 DEF OrderlyInv, RefundInv

LEMMA RequestBack ==
  ASSUME TypeInv, Apart, Afforded, OrderlyInv, BackInv, NEW s \in Slot, ReqStep(s)
  PROVE  BackInv'
<1>1. Busy(s)
  BY Reads, WriteFinalIs, WriteSpecsIs, ReadDeltaIs, IssueVoucherIs, Puts, WritePaidIs DEF ReqStep
<1>2. s = "a" /\ Busy("a") BY <1>1 DEF Apart, Slot
<1>3. ASSUME UNCHANGED <<chain, told, money>>, fields'.final = fields.final,
             "complete" \in draft'.tags => "complete" \in draft.tags,
             ~Busy("a")' \/ (req'["a"].job = req["a"].job /\ req'["a"].pc # "voucher")
      PROVE  BackInv'
  BY <1>2, <1>3, BackKept DEF BackInv, Completing
<1>n. /\ fields.final # None => fields.final \in Nat
      /\ money.got \in Nat /\ money.back \in Nat /\ money.vouchers \in Nat
  BY MoneyIsNat DEF TypeInv
<1>4. CASE Read(s)
  <2>1. \A r \in ReqRec : AfterRead(r) # "voucher"
    <3> TAKE r \in ReqRec
    <3> QED BY DEF AfterRead, ReqRec, Job
  <2>2. /\ req["a"] \in ReqRec /\ UNCHANGED <<draft, fields, chain, told, money>>
        /\ ~Busy("a")' \/ (req'["a"].job = req["a"].job /\ req'["a"].pc = AfterRead(req["a"]))
    BY <1>2, <1>4, Reads DEF ghosts
  <2> QED BY <1>3, <2>1, <2>2
<1>5. CASE WriteFinal(s)
  <2>1. /\ req["a"].job = "complete" /\ UNCHANGED <<draft, chain, told, money>>
        /\ fields'.final = (IF req["a"].amount = None THEN fields.final ELSE req["a"].amount)
        /\ req'["a"].job = "complete" /\ req'["a"].pc # "voucher"
    BY <1>2, <1>5, WriteFinalIs
  <2>2. Completing BY <1>2, <2>1 DEF Completing
  <2>3. money.vouchers = 0 BY <2>2, CompletesFirst
  <2>4. fields.final # None => fields'.final # None BY <2>1
  <2>5. "complete" \notin draft'.tags BY <2>1, <2>2 DEF BackInv
  <2> QED BY <1>n, <2>1, <2>3, <2>4, <2>5 DEF BackInv, Running
<1>6. CASE WriteSpecs(s) BY <1>2, <1>3, <1>6, WriteSpecsIs DEF LineIs
<1>7. CASE ReadDelta(s)
  <2>1. /\ req["a"].job = "refund" /\ UNCHANGED <<draft, fields, chain, told, money>>
        /\ \/ ~Busy("a")'
           \/ /\ req'["a"].job = "refund"
              /\ req'["a"].amount = fields.paid - (IF fields.final = None THEN 0 ELSE fields.final)
    BY <1>2, <1>7, ReadDeltaIs
  <2>2. fields.final # None BY <1>2, <2>1 DEF BackInv
  <2>3. fields.paid <= money.got /\ fields.paid \in Nat BY MoneyIsNat DEF Afforded, TypeInv
  <2>4. Busy("a")' => req'["a"].amount <= money.got - fields.final BY <1>n, <2>1, <2>2, <2>3
  <2>5. ~Completing' BY <2>1 DEF Completing
  <2> QED BY <2>1, <2>2, <2>4, <2>5, BackKept
<1>8. CASE IssueVoucher(s)
  <2>1. /\ req["a"].pc = "voucher" /\ req["a"].job = "refund" /\ req["a"].amount \in Nat
        /\ money'.got = money.got /\ money'.back = money.back + req["a"].amount
        /\ req'["a"].job = "refund" /\ req'["a"].pc = "put"
        /\ UNCHANGED <<draft, fields, chain, told>>
    BY <1>2, <1>8, IssueVoucherIs
  <2>2. money.back = 0 BY <1>2, <2>1 DEF OrderlyInv, Requests, RefundInv
  <2>3. fields.final # None /\ req["a"].amount <= money.got - fields.final BY <1>2, <2>1 DEF BackInv
  <2>4. money'.back <= money'.got - fields'.final BY <1>n, <2>1, <2>2, <2>3
  <2> QED BY <2>1, <2>3, <2>4 DEF BackInv, Running, Completing
<1>9. CASE Put(s)
  <2>1. PICK r \in ReqRec : r = req["a"] BY <1>2, <1>9, Puts
  <2>2. /\ r.pc = "put" /\ draft'.tags = NewTags(r) /\ UNCHANGED <<fields, chain, told, money>>
        /\ r.job = "pay" => req'["a"].job = "pay" /\ req'["a"].pc = "paid"
        /\ r.job # "pay" => ~Busy("a")'
    BY <1>2, <1>9, <2>1, Puts
  <2> QED BY <2>2, BackKept DEF Completing
<1>10. CASE WritePaid(s) BY <1>2, <1>3, <1>10, WritePaidIs
<1> QED BY <1>4, <1>5, <1>6, <1>7, <1>8, <1>9, <1>10 DEF ReqStep

LEMMA NextBack ==
  ASSUME TypeInv, TypeInv', Apart, Afforded, OrderlyInv, BackInv,
         ~Allowed("fault"), ~Allowed("overlap"), ~Allowed("revise"), [Next]_vars
  PROVE  BackInv'
<1>1. CASE Deliver \/ PassStep BY <1>1, PassBack
<1>2. CASE Staffs BY <1>2, StaffBack
<1>3. ASSUME NEW s \in Slot, Requested(s) PROVE BackInv'
  <2>1. ~ReqFails(s) BY DEF ReqFails
  <2> QED BY <1>3, <2>1, StartBack, RequestBack DEF Requested
<1>4. CASE \E l \in links : PayLink(l)
  <2>1. PICK l \in links : PayLink(l) BY <1>4
  <2>2. /\ l \in LinkRec /\ money'.got = money.got + l.amount /\ money'.back = money.back
        /\ money'.vouchers = money.vouchers /\ UNCHANGED <<draft, fields, chain, req, told>>
    BY <2>1, PayIs
  <2>3. /\ l.amount \in Nat /\ money.got \in Nat /\ money.back \in Nat
        /\ fields.final # None => fields.final \in Nat
    BY <2>2, MoneyIsNat DEF LinkRec, TypeInv
  <2>4. Busy("a") /\ req["a"].pc = "voucher" =>
           req["a"].job = "refund" /\ req["a"].amount \in Nat
    BY DEF TypeInv, JobOK, Slot
  <2>5. (Busy("a") /\ req["a"].pc = "voucher" => req["a"].amount <= money.got - fields.final)'
    BY <2>2, <2>3, <2>4 DEF BackInv, Busy
  <2>6. (money.vouchers > 0 => fields.final # None /\ money.back <= money.got - fields.final)'
    BY <2>2, <2>3 DEF BackInv
  <2> QED BY <2>2, <2>5, <2>6 DEF BackInv, Running, Completing, Busy
<1>5. CASE PassFails \/ GateFails \/ Restart BY <1>5 DEF PassFails, GateFails, Restart
<1>6. CASE UNCHANGED vars BY <1>6, BackKept DEF vars, BackInv, Completing, Busy
<1> QED BY <1>1, <1>2, <1>3, <1>4, <1>5, <1>6, Steps

LEMMA InitBack == Init => BackInv
<1> SUFFICES ASSUME Init PROVE BackInv OBVIOUS
<1>1. /\ ~Running /\ told.ask = None /\ money.vouchers = 0 BY DEF Init, Running, Idle
<1>2. req = [s \in Slot |-> Idle] /\ "a" \in Slot BY DEF Init, Slot
<1>3. ~Busy("a") BY <1>2 DEF Busy, Idle
<1> QED BY <1>1, <1>3 DEF BackInv, Completing

--------------------
(* What is asked at the end is fair *)

\* A pass that finds nothing to do leaves nothing to do.
LEMMA PassIdles ==
  ASSUME TypeInv, TypeInv', Apart, OrderlyInv, Deliver \/ PassStep, Idling
  PROVE  Idling'
<1>1. PassStep => Running /\ chain.pc \in {"fetch", "copy", "end"}
  <2>2. PassStep => Running
    <3> SUFFICES ASSUME PassStep, ~Running PROVE FALSE OBVIOUS
    <3>1. chain.pc = "idle" BY DEF Running
    <3> QED BY <3>1
        DEF PassStep, EndPass, Fetch, Copy, Zero, Reread, Resync, Resynced, Gate, Unhold, Received, MadeFree,
            Approved, Quoted, Ready, Mails, Marks, Recopy, MakeLink, ReadFields, MakeBalanceLink, MintService
  <2> QED BY <2>2 DEF Idling
<1>2. PassStep => Fetch \/ Copy \/ EndPass
  BY <1>1
  DEF PassStep, Zero, Reread, Resync, Resynced, Gate, Unhold, Received, MadeFree,
      Approved, Quoted, Ready, Mails, Marks, Recopy, MakeLink, ReadFields, MakeBalanceLink, MintService
<1> QED BY <1>2, DeliverOrderly, FetchOrderly, CopyOrderly, EndPassOrderly

\* While the completion is read, what was paid is what the draft says, and
\* nothing for a free repair.
LEMMA Reckoned ==
  ASSUME TypeInv, Apart, OrderlyInv, QuoteInv, PaidInv, FairInv, Running, chain.pc = "fields"
  PROVE  /\ fields.paid = money.got /\ money.got \in Nat
         /\ "free" \in draft.tags => money.got = 0
<1>1. ~Idling /\ ReadyDue(draft.tags) BY DEF Idling, OrderlyInv, View, ReadyPc
<1>2. ~Alone BY DEF Alone
<1>3. ~Busy("a") /\ calls = {} BY <1>1, <1>2, Undisturbed DEF FairInv
<1>4. ~(told.ready > 0) BY <1>1 DEF OrderlyInv, ToldInv, ReadyDue
<1>5. \A l \in links : l.kind # "balance" BY <1>4 DEF PaidInv, BalanceInv
<1>6. Plain /\ (LinkPaid => Estimated)
  BY <1>5 DEF Plain, LinkPaid, Estimated, TypeInv, LinkRec
<1>7. ~OnItsWay BY <1>3 DEF OnItsWay, Paying
<1>8. fields.paid = money.got BY <1>6, <1>7 DEF PaidInv, PaymentInv
<1>9. "free" \in draft.tags => ~LinkPaid BY <1>6, FreeUnestimated DEF PaidInv
<1> QED BY <1>8, <1>9 DEF PaidInv, PaymentInv, TypeInv

\* What is asked is the difference between what the repair cost and what was paid.
LEMMA CompletionFair ==
  ASSUME TypeInv, "free" \in draft.tags => money.got = 0
  PROVE  Fair(Completion(money.got, fields.final, draft.price, "free" \in draft.tags).amount, money.got)
<1>1. /\ money.got \in Nat /\ draft.price \in Nat
      /\ fields.final # None => fields.final \in Nat
  BY MoneyIsNat DEF TypeInv, DraftRec
<1> QED BY <1>1 DEF Fair, Completion

\* The cost of a repair does not change with its draft.
CostLasts ==
    /\ "free" \in draft'.tags <=> "free" \in draft.tags
    /\ fields'.final = fields.final
    /\ draft'.price = draft.price \/ "free" \in draft.tags

\* What was asked stays fair.
LEMMA AskKept ==
  ASSUME CostLasts, FairInv, told'.ask = told.ask
  PROVE  (told.ask # None => Fair(told.ask.amount, told.ask.got))'
  BY DEF CostLasts, Fair, FairInv

LEMMA ReckonKept ==
  ASSUME CostLasts, FairInv, money'.got = money.got,
         Running' /\ chain'.pc \in {"balance", "mailReady"} =>
            Running /\ chain.pc \in {"balance", "mailReady"} /\ chain'.ask = chain.ask
  PROVE  (Running /\ chain.pc \in {"balance", "mailReady"} => Fair(chain.ask.amount, money.got))'
  BY DEF CostLasts, Fair, FairInv

LEMMA PassFair ==
  ASSUME TypeInv, TypeInv', Apart, OrderlyInv, QuoteInv, PaidInv, FairInv, Deliver \/ PassStep
  PROVE  FairInv'
<1>v. View BY DEF OrderlyInv
<1>z. /\ {"mailQuote", "markQuoted", "balance", "mailReady", "markReady", "end"} \subseteq ChainPc
      /\ "estimate-sent" \in Tag
  BY DEF ChainPc, QuotePc, ReadyPc, AfterPc, Tag
<1>i. req' = req => (Busy("a")' <=> Busy("a")) /\ (Paying("a")' <=> Paying("a")) /\ (Completing' <=> Completing)
  BY DEF Busy, Paying, Completing
<1>1. ASSUME UNCHANGED <<req, calls, wanted>>,
             (Running /\ chain.pc \in {"balance", "mailReady"} => Fair(chain.ask.amount, money.got))',
             (told.ask # None => Fair(told.ask.amount, told.ask.got))', TagsLast
      PROVE  FairInv'
  <2>1. (calls # {} => Idling /\ (Busy("a") => Paying("a")))' BY <1>i, <1>1, PassIdles DEF FairInv
  <2>2. Grounds' BY <1>i, <1>1 DEF FairInv, Grounds, TagsLast, Lasting
  <2> QED BY <1>1, <2>1, <2>2 DEF FairInv
<1>2. CASE PlainStep
  <2>1. /\ CostLasts /\ TagsLast /\ UNCHANGED <<req, calls, wanted, money>> /\ told'.ask = told.ask
        /\ Running' /\ chain'.pc \in {"balance", "mailReady"} =>
              Running /\ chain.pc \in {"balance", "mailReady"} /\ chain'.ask = chain.ask
    BY <1>2 DEF PlainStep, CostLasts, TagsLast, Lasting, Telling
  <2> QED BY <1>1, <2>1, AskKept, ReckonKept
<1>3. ASSUME draft' = draft, fields' = fields, UNCHANGED <<req, calls, wanted>>,
             (Running /\ chain.pc \in {"balance", "mailReady"} => Fair(chain.ask.amount, money.got))',
             (told.ask # None => Fair(told.ask.amount, told.ask.got))'
      PROVE  FairInv'
  <2>1. TagsLast BY <1>3 DEF TagsLast
  <2> QED BY <1>1, <1>3, <2>1
<1>4. draft' = draft /\ fields' = fields => CostLasts BY DEF CostLasts
<1>5. CASE MakeLink BY <1>3, <1>4, <1>5, MakeLinkIs, AskKept DEF GoesTo, SameCopies
<1>6. CASE MailQuote
  <2>1. PICK m : m = [told EXCEPT !.quote = chain.price] OBVIOUS
  <2>2. m.ask = told.ask BY <2>1 DEF TypeInv, ToldRec
  <2>3. chain'.pc = "markQuoted" /\ told' = m /\ draft' = draft /\ UNCHANGED <<fields, req, calls, wanted>>
    BY <1>6, <1>z, <2>1, MailsIs DEF MailQuote, GoesTo, SameCopies
  <2> QED BY <1>3, <1>4, <2>2, <2>3, AskKept
<1>7. CASE Marks("markQuoted", "estimate-sent", "end")
  <2>1. /\ Running /\ chain.pc = "markQuoted" /\ chain'.pc = "end"
        /\ draft'.tags = chain.tags \cup {"estimate-sent"} /\ draft'.price = draft.price
        /\ UNCHANGED <<fields, req, calls, wanted, told>>
    BY <1>7, <1>z, MarksIs DEF GoesTo, TagsAre, Elsewhere
  <2>2. chain.tags = draft.tags BY <1>v, <2>1 DEF View, Same, QuotePc
  <2>3. CostLasts BY <2>1, <2>2 DEF CostLasts
  <2>4. (told.ask # None => Fair(told.ask.amount, told.ask.got))' BY <2>1, <2>3, AskKept
  <2>5. (calls # {} => Idling /\ (Busy("a") => Paying("a")))' BY <1>i, <2>1, PassIdles DEF FairInv
  <2>6. Grounds' BY <1>i, <2>1, <2>2 DEF FairInv, Grounds
  <2> QED BY <2>1, <2>4, <2>5, <2>6 DEF FairInv
<1>8. CASE ReadFields
  <2>1. /\ Running /\ chain.pc = "fields"
        /\ chain'.ask = Completion(fields.paid, fields.final, chain.price, "free" \in chain.tags)
        /\ draft' = draft /\ UNCHANGED <<fields, req, calls, wanted, told, money>>
    BY <1>8, ReadFieldsIs DEF GoesTo, SameCopies, Elsewhere
  <2>2. chain.tags = draft.tags /\ chain.price = draft.price BY <1>v, <2>1 DEF View, Same, ReadyPc
  <2>3. fields.paid = money.got /\ ("free" \in draft.tags => money.got = 0) BY <2>1, Reckoned
  <2>4. Fair(chain'.ask.amount, money.got) BY <2>1, <2>2, <2>3, CompletionFair
  <2>5. Fair(chain.ask.amount, money.got)' BY <2>1, <2>4 DEF Fair
  <2> QED BY <1>3, <1>4, <2>1, <2>5, AskKept
<1>9. CASE MakeBalanceLink
  <2>1. /\ Running /\ chain.pc = "balance" /\ chain'.ask = chain.ask
        /\ draft' = draft /\ UNCHANGED <<fields, req, calls, wanted, told, money>>
    BY <1>9, MakeBalanceLinkIs DEF GoesTo, SameCopies
  <2> QED BY <1>3, <1>4, <2>1, AskKept, ReckonKept
<1>10. CASE MailReady
  <2>1. PICK m : m = [told EXCEPT !.ready = @ + 1, !.ask = [mode |-> chain.ask.mode, amount |-> chain.ask.amount, got |-> money.got]] OBVIOUS
  <2>2. m.ask.amount = chain.ask.amount /\ m.ask.got = money.got BY <2>1 DEF TypeInv, ToldRec
  <2>3. /\ Running /\ chain.pc = "mailReady" /\ chain'.pc = "markReady" /\ told' = m
        /\ draft' = draft /\ UNCHANGED <<fields, req, calls, wanted>>
    BY <1>10, <1>z, <2>1, MailsIs DEF MailReady, GoesTo, SameCopies
  <2>4. Fair(chain.ask.amount, money.got) BY <2>3 DEF FairInv
  <2>5. Fair(told.ask.amount, told.ask.got)' BY <2>2, <2>3, <2>4 DEF Fair
  <2> QED BY <1>3, <2>3, <2>5
<1> QED BY <1>2, <1>5, <1>6, <1>7, <1>8, <1>9, <1>10, PassPlain

LEMMA PromptsQuiet ==
  ASSUME ~Allowed("overlap"), ~Allowed("late"), Prompt
  PROVE  Settled /\ calls = {}
  BY DEF Prompt, Quiet

\* The ready mail is of a draft that was completed, and is so for good.
LEMMA AskedComplete ==
  ASSUME Ordered, OrderlyInv, told.ask # None
  PROVE  told.ready > 0 /\ "complete" \in draft.tags
  BY DEF Ordered, OrderlyInv, ToldInv

LEMMA StaffFair ==
  ASSUME TypeInv, Ordered, OrderlyInv, FairInv, ~Allowed("overlap"), ~Allowed("late"), ~Allowed("revise"), Staffs
  PROVE  FairInv'
<1>1. /\ Settled /\ calls = {} /\ draft'.price = draft.price
      /\ UNCHANGED <<fields, chain, req, calls, told, money, wanted>>
  BY StaffTagIs, FillIs, PromptsQuiet DEF Staffs, TagsAre
<1>2. ~Running' /\ ~Completing' /\ ~Completing
  BY <1>1 DEF Settled, Running, Completing, Busy, Slot
<1>3. CASE FillReference
  <2>1. draft' = draft BY <1>3, FillIs
  <2>2. CostLasts BY <1>1, <2>1 DEF CostLasts
  <2> QED BY <1>1, <1>2, <2>1, <2>2, AskKept DEF FairInv, Grounds
<1>4. ASSUME NEW tag \in Class \cup {"outside", "resync"}, StaffTag(tag) PROVE FairInv'
  <2>1. /\ draft'.tags = draft.tags \cup {tag} /\ tag \in {"intake", "free", "outside", "resync"}
        /\ tag = "free" => "complete" \notin draft.tags
    BY <1>4, StaffTagIs DEF TagsAre, Class
  <2>2. told.ask # None => tag # "free" BY <2>1, AskedComplete
  <2>3. (told.ask # None => Fair(told.ask.amount, told.ask.got))'
    <3>1. CASE told.ask = None BY <1>1, <3>1
    <3>2. CASE told.ask # None
      <4>1. CostLasts BY <1>1, <2>1, <2>2, <3>2 DEF CostLasts
      <4> QED BY <1>1, <4>1, AskKept
    <3> QED BY <3>1, <3>2
  <2>4. Grounds'
    <3>1. \A t \in {"free-notified", "paid", "store-approved", "store-hq-notified", "complete"} :
             t \in draft'.tags => t \in draft.tags
      BY <2>1
    <3>2. "free" \in draft.tags => "free" \in draft'.tags BY <2>1
    <3> QED BY <1>1, <1>2, <3>1, <3>2 DEF FairInv, Grounds
  <2> QED BY <1>1, <1>2, <2>3, <2>4 DEF FairInv
<1> QED BY <1>3, <1>4 DEF Staffs

LEMMA StartFair ==
  ASSUME TypeInv, OrderlyInv, FairInv, ~Allowed("overlap"), ~Allowed("late"), NEW s \in Slot,
         Posts(s) \/ (\E n \in calls : Notified(s, n))
  PROVE  FairInv'
<1>1. PICK task \in Job, amount \in Nat \cup {None}, extra \in BOOLEAN :
         /\ Start(s, task, amount, extra) /\ Settled /\ calls' \subseteq calls
         /\ task = "complete" => draft.tags \cap {"paid", "free-notified", "store-hq-notified"} # {}
         /\ calls # {} => task = "pay"
  <2>1. CASE Posts(s)
    <3>1. PICK task \in Job, amount \in Nat \cup {None}, extra \in BOOLEAN :
            /\ Post(s, task, amount, extra)
            /\ task = "complete" => \E f \in Amount \cup {0, None}, specs \in BOOLEAN :
                                      amount = f /\ extra = specs /\ PostComplete(s, f, specs)
      BY <2>1, PostIs
    <3>2. task = "complete" => draft.tags \cap {"paid", "free-notified", "store-hq-notified"} # {}
      BY <3>1 DEF PostComplete
    <3> QED BY <3>1, <3>2, PromptsQuiet DEF Post
  <2>2. CASE \E n \in calls : Notified(s, n)
    <3>1. Start(s, "pay", 0, FALSE) /\ Settled /\ calls' \subseteq calls BY <2>2, NotifiedIs
    <3>2. "pay" \in Job BY DEF Job
    <3> QED BY <3>1, <3>2
  <2> QED BY <2>1, <2>2
<1>2. req'["a"].job = task BY <1>1, StartsAlone
<1>3. UNCHANGED <<case, draft, known, fields, due, chain, told, serials, money, wanted>> BY <1>1 DEF Start, ghosts
<1>4. ~Running' BY <1>1, <1>3 DEF Settled, Running
<1>5. CostLasts BY <1>3 DEF CostLasts
<1>6. Idling <=> Idling' BY <1>3, SteadyKept, OrderlyIs
<1>7. (calls # {} => Idling /\ (Busy("a") => Paying("a")))' BY <1>1, <1>2, <1>6 DEF FairInv, Paying
<1>8. Grounds'
  <2>1. task = "complete" => wanted # None \/ "free" \in draft.tags BY <1>1 DEF FairInv, Grounds
  <2> QED BY <1>2, <1>3, <2>1 DEF FairInv, Grounds, Completing
<1>9. (told.ask # None => Fair(told.ask.amount, told.ask.got))' BY <1>3, <1>5, AskKept
<1> QED BY <1>4, <1>7, <1>8, <1>9 DEF FairInv

\* An estimate or a balance is paid once all has been handled: nothing is due.
LEMMA PayFair ==
  ASSUME TypeInv, Ordered, OrderlyInv, PaidInv, FairInv, ~Allowed("overlap"), ~Allowed("late"),
         NEW l \in links, PayLink(l)
  PROVE  FairInv'
<1>1. /\ l \in LinkRec /\ Settled
      /\ UNCHANGED <<case, draft, known, fields, due, chain, req, told, serials, wanted>>
  BY PayIs, PromptsQuiet
<1>2. Alone /\ ~Running /\ ~Running' /\ ~Busy("a") /\ ~Busy("a")'
  BY <1>1 DEF Settled, Alone, Running, Busy, Slot
<1>3. ~GateDue(draft.tags)
  <2>1. CASE l.kind = "estimate"
    <3>1. told.quote # None BY <1>2, <2>1 DEF PaidInv, EstimateInv, Estimated
    <3> QED BY <1>2, <3>1, QuotedIntake DEF GateDue
  <2>2. CASE l.kind = "balance"
    <3>1. told.ready > 0 BY <1>2, <2>2 DEF PaidInv, BalanceInv
    <3>2. "complete" \in draft.tags /\ "complete" \in Later BY <3>1 DEF OrderlyInv, ToldInv, Later
    <3> QED BY <3>2 DEF OrderlyInv, Sense
  <2> QED BY <1>1, <2>1, <2>2 DEF LinkRec
<1>4. Idling
  <2>1. NothingDue(draft.tags) /\ ~FreeUnpaid /\ ~Uncopied BY <1>2, <1>3, AtRest
  <2> QED BY <1>2, <2>1 DEF Idling, Alone
<1>5. Idling' BY <1>1, <1>4, SteadyKept, OrderlyIs
<1>6. CostLasts BY <1>1 DEF CostLasts
<1>7. (told.ask # None => Fair(told.ask.amount, told.ask.got))' BY <1>1, <1>6, AskKept
<1>8. Grounds' BY <1>1, <1>2 DEF FairInv, Grounds, Completing
<1> QED BY <1>2, <1>5, <1>7, <1>8 DEF FairInv

\* Requests that write neither the tags nor the estimate.
LEMMA SilentFair ==
  ASSUME TypeInv, Ordered, Apart, OrderlyInv, BackInv, FairInv,
         Read("a") \/ WriteFinal("a") \/ WriteSpecs("a") \/ ReadDelta("a") \/ IssueVoucher("a") \/ WritePaid("a")
  PROVE  FairInv'
<1>a. "a" \in Slot BY DEF Slot
<1>1. ASSUME UNCHANGED <<case, draft, known, due, chain, told, serials, wanted, calls>>,
             fields'.final = fields.final, money'.got = money.got,
             ~Busy("a")' \/ (Busy("a") /\ req'["a"].job = req["a"].job)
      PROVE  FairInv'
  <2>1. CostLasts BY <1>1 DEF CostLasts
  <2>2. Idling <=> Idling' BY <1>1, SteadyKept, OrderlyIs
  <2>3. (calls # {} => Idling /\ (Busy("a") => Paying("a")))' BY <1>1, <2>2 DEF FairInv, Paying
  <2>4. Grounds' BY <1>1 DEF FairInv, Grounds, Completing
  <2>5. Running' <=> Running BY <1>1 DEF Running
  <2> QED BY <1>1, <2>1, <2>3, <2>4, <2>5, AskKept, ReckonKept DEF FairInv
<1>2. CASE Read("a") BY <1>a, <1>1, <1>2, Reads DEF ghosts
<1>3. CASE ReadDelta("a") BY <1>a, <1>1, <1>3, ReadDeltaIs
<1>4. CASE IssueVoucher("a") BY <1>a, <1>1, <1>4, IssueVoucherIs
<1>5. CASE WritePaid("a") BY <1>a, <1>1, <1>5, WritePaidIs
<1>6. CASE WriteFinal("a")
  <2>1. /\ Busy("a") /\ req["a"].job = "complete" /\ Busy("a")' /\ req'["a"].job = "complete"
        /\ UNCHANGED <<draft, chain, calls, told, wanted>>
    BY <1>a, <1>6, WriteFinalIs
  <2>2. Completing BY <2>1 DEF Completing
  <2>3. calls = {} BY <2>1 DEF FairInv, Paying
  <2>4. told.ask = None BY <2>2, CompletesFirst DEF Ordered
  <2>5. ~(Running /\ chain.pc \in {"balance", "mailReady"})
    <3>1. Running /\ chain.pc \in ReadyPc => "complete" \in draft.tags BY DEF OrderlyInv, View, ReadyDue
    <3> QED BY <2>2, <3>1 DEF BackInv, ReadyPc
  <2>6. Grounds' BY <2>1 DEF FairInv, Grounds, Completing
  <2> QED BY <2>1, <2>3, <2>4, <2>5, <2>6 DEF FairInv, Running
<1>7. CASE WriteSpecs("a")
  <2>1. /\ Busy("a") /\ req["a"].job = "complete" /\ req["a"].pc = "specs" /\ Busy("a")' /\ req'["a"].job = "complete"
        /\ draft'.tags = draft.tags /\ draft'.price = req["a"].price
        /\ UNCHANGED <<fields, chain, calls, told, wanted>>
    BY <1>a, <1>7, WriteSpecsIs DEF LineIs
  <2>2. req["a"].price = draft.price /\ Alone BY <2>1 DEF Apart, Overlaps
  <2>3. calls = {} BY <2>1 DEF FairInv, Paying
  <2>4. CostLasts BY <2>1, <2>2 DEF CostLasts
  <2>5. ~Running' BY <2>1, <2>2 DEF Alone, Running
  <2>6. Grounds' BY <2>1 DEF FairInv, Grounds, Completing
  <2> QED BY <2>1, <2>3, <2>4, <2>5, <2>6, AskKept DEF FairInv
<1> QED BY <1>2, <1>3, <1>4, <1>5, <1>6, <1>7

LEMMA PutFair ==
  ASSUME TypeInv, Ordered, Apart, OrderlyInv, QuoteInv, BackInv, FairInv, Put("a")
  PROVE  FairInv'
<1>a. "a" \in Slot BY DEF Slot
<1>1. PICK r \in ReqRec : r = req["a"] BY <1>a, Puts
<1>2. /\ Busy("a") /\ r.pc = "put" /\ draft'.tags = NewTags(r)
      /\ draft'.price = (IF r.job = "estimate" THEN r.amount ELSE IF r.job \in Class THEN r.price ELSE draft.price)
      /\ wanted' = (IF r.job = "estimate" THEN r.amount ELSE wanted)
      /\ r.job = "pay" => Busy("a")' /\ req'["a"].job = "pay"
      /\ r.job # "pay" => ~Busy("a")'
      /\ UNCHANGED <<fields, chain, calls, told, money>>
  BY <1>a, <1>1, Puts
<1>3. r.tags = draft.tags BY <1>1, <1>2 DEF OrderlyInv, Requests
<1>4. r.job # "complete" => Alone /\ r.price = draft.price BY <1>1, <1>2 DEF Apart, Overlaps
<1>j. r.job \in {"estimate", "complete", "approve", "refund", "pay"} \cup Class BY NewTagsIs
<1>5. (calls # {} => Idling /\ (Busy("a") => Paying("a")))'
  <2>1. CASE r.job = "pay" BY <1>1, <1>2, <2>1, PutPayOrderly DEF Paying
  <2>2. CASE r.job # "pay" BY <1>1, <1>2, <2>2 DEF FairInv, Paying
  <2> QED BY <2>1, <2>2
<1>6. r.job # "estimate" /\ told.ask # None => CostLasts
  <2> SUFFICES ASSUME r.job # "estimate", told.ask # None PROVE CostLasts OBVIOUS
  <2>1. CASE r.job \in Class
    <3>1. draft'.tags = (r.tags \ {"missing-inspection"}) \cup {"outside"}
                            \cup (IF r.tags \cap Class = {} THEN {r.job} ELSE {})
      BY <1>2, <2>1, NewTagsIs
    <3>2. draft.tags \cap Class # {}
      <4>1. "complete" \in draft.tags /\ "complete" \in Later BY AskedComplete DEF Later
      <4> QED BY <4>1 DEF OrderlyInv, Sense
    <3>3. "free" \in draft'.tags <=> "free" \in draft.tags BY <1>3, <3>1, <3>2
    <3>4. draft'.price = draft.price BY <1>2, <1>4, <2>1 DEF Class
    <3> QED BY <1>2, <3>3, <3>4 DEF CostLasts
  <2>2. CASE r.job \in {"complete", "approve", "refund", "pay"}
    <3>1. draft'.price = draft.price BY <1>2, <2>2 DEF Class
    <3>2. "free" \in draft'.tags <=> "free" \in draft.tags BY <1>2, <1>3, <2>2, NewTagsIs DEF Quoting
    <3> QED BY <1>2, <3>1, <3>2 DEF CostLasts
  <2> QED BY <1>j, <2>1, <2>2
<1>7. r.job = "estimate" /\ told.ask # None => CostLasts
  <2> SUFFICES ASSUME r.job = "estimate", told.ask # None PROVE CostLasts OBVIOUS
  <2>1. wanted = None BY <1>1, <1>2 DEF QuoteInv
  <2>2. "free" \in draft.tags BY <2>1, AskedComplete DEF FairInv, Grounds
  <2>3. "free" \in draft'.tags BY <1>2, <1>3, <2>2, NewTagsIs
  <2> QED BY <1>2, <2>2, <2>3 DEF CostLasts
<1>8. (told.ask # None => Fair(told.ask.amount, told.ask.got))'
  <2>1. CASE told.ask = None BY <1>2, <2>1
  <2>2. CASE told.ask # None BY <1>2, <1>6, <1>7, <2>2, AskKept
  <2> QED BY <2>1, <2>2
<1>9. ~(Running' /\ chain'.pc \in {"balance", "mailReady"})
  <2>1. CASE r.job # "complete" BY <1>2, <1>4, <2>1 DEF Alone, Running
  <2>2. CASE r.job = "complete"
    <3>1. Running /\ chain.pc \in ReadyPc => "complete" \in draft.tags BY DEF OrderlyInv, View, ReadyDue
    <3>2. "complete" \notin draft.tags BY <1>1, <1>2, <2>2 DEF BackInv, Completing
    <3> QED BY <1>2, <3>1, <3>2 DEF ReadyPc, Running
  <2> QED BY <2>1, <2>2
<1>10. Grounds'
  <2>1. ~Completing' BY <1>2 DEF Completing
  <2>2. r.job = "approve" \/ r.job = "pay" => wanted # None
    BY <1>a, <1>1, <1>2 DEF Ordered
  <2>3. r.job = "complete" => wanted # None \/ "free" \in draft.tags
    BY <1>1, <1>2 DEF FairInv, Grounds, Completing
  <2>4. r.job = "estimate" => wanted' # None
    <3>1. r.job = "estimate" => r.amount \in Money BY <1>1, <1>2, <1>a DEF TypeInv, JobOK
    <3> QED BY <1>2, <3>1, MoneyIsNat
  <2>5. wanted # None => wanted' # None BY <1>2, <2>4
  <2>6. "free" \in draft.tags => "free" \in draft'.tags
    BY <1>2, <1>3, <1>j, NewTagsIs DEF Quoting
  <2>7. /\ "free-notified" \in draft'.tags => "free-notified" \in draft.tags
        /\ draft'.tags \cap {"paid", "store-approved", "store-hq-notified"} # {} =>
              draft.tags \cap {"paid", "store-approved", "store-hq-notified"} # {} \/ r.job \in {"approve", "pay"}
        /\ "complete" \in draft'.tags => "complete" \in draft.tags \/ r.job = "complete"
    <3>1. CASE r.job \in Class
      <4>1. draft'.tags = (r.tags \ {"missing-inspection"}) \cup {"outside"}
                              \cup (IF r.tags \cap Class = {} THEN {r.job} ELSE {})
        BY <1>2, <3>1, NewTagsIs
      <4> QED BY <1>3, <3>1, <4>1 DEF Class
    <3>2. CASE r.job \in {"estimate", "complete", "approve", "refund", "pay"}
      BY <1>2, <1>3, <3>2, NewTagsIs DEF Quoting
    <3> QED BY <1>j, <3>1, <3>2
  <2>8. Grounds BY DEF FairInv
  <2>9. ("free-notified" \in draft.tags => "free" \in draft.tags)' BY <2>6, <2>7, <2>8 DEF Grounds
  <2>10. (draft.tags \cap {"paid", "store-approved", "store-hq-notified"} # {} => wanted # None)'
    BY <2>2, <2>5, <2>7, <2>8 DEF Grounds
  <2>11. ("complete" \in draft.tags \/ Completing => wanted # None \/ "free" \in draft.tags)'
    BY <2>1, <2>3, <2>5, <2>6, <2>7, <2>8 DEF Grounds
  <2> QED BY <2>9, <2>10, <2>11 DEF Grounds
<1> QED BY <1>5, <1>8, <1>9, <1>10 DEF FairInv

LEMMA NextFair ==
  ASSUME TypeInv, TypeInv', Ordered, Apart, OrderlyInv, QuoteInv, PaidInv, BackInv, FairInv,
         ~Allowed("fault"), ~Allowed("overlap"), ~Allowed("late"), ~Allowed("revise"), [Next]_vars
  PROVE  FairInv'
<1>1. CASE Deliver \/ PassStep BY <1>1, PassFair
<1>2. CASE Staffs BY <1>2, StaffFair
<1>3. ASSUME NEW s \in Slot, Requested(s) PROVE FairInv'
  <2>1. ~ReqFails(s) BY DEF ReqFails
  <2>2. CASE ReqStep(s)
    <3>1. Busy(s)
      BY <2>2, Reads, WriteFinalIs, WriteSpecsIs, ReadDeltaIs, IssueVoucherIs, Puts, WritePaidIs DEF ReqStep
    <3>2. s = "a" BY <3>1 DEF Apart, Slot
    <3> QED BY <2>2, <3>2, SilentFair, PutFair DEF ReqStep
  <2> QED BY <1>3, <2>1, <2>2, StartFair DEF Requested
<1>4. CASE \E l \in links : PayLink(l) BY <1>4, PayFair
<1>5. CASE PassFails \/ GateFails \/ Restart BY <1>5 DEF PassFails, GateFails, Restart
<1>6. CASE UNCHANGED vars
  <2>1. UNCHANGED <<case, draft, known, fields, due, chain, req, calls, told, money, serials, wanted>>
    BY <1>6 DEF vars
  <2>2. CostLasts BY <2>1 DEF CostLasts
  <2>3. Idling <=> Idling' BY <2>1, SteadyKept, OrderlyIs
  <2>4. Running' <=> Running BY <2>1 DEF Running
  <2>5. (calls # {} => Idling /\ (Busy("a") => Paying("a")))' BY <2>1, <2>3 DEF FairInv, Busy, Paying
  <2>6. Grounds' BY <2>1 DEF FairInv, Grounds, Completing, Busy
  <2> QED BY <2>1, <2>2, <2>4, <2>5, <2>6, AskKept, ReckonKept DEF FairInv
<1> QED BY <1>1, <1>2, <1>3, <1>4, <1>5, <1>6, Steps

LEMMA InitFair == Init => FairInv
<1> SUFFICES ASSUME Init PROVE FairInv OBVIOUS
<1>1. /\ ~Running /\ told.ask = None /\ calls = {} /\ draft.tags = {} BY DEF Init, Running, Idle
<1>2. req = [s \in Slot |-> Idle] /\ "a" \in Slot BY DEF Init, Slot
<1>3. ~Busy("a") BY <1>2 DEF Busy, Idle
<1> QED BY <1>1, <1>3 DEF FairInv, Grounds, Completing

--------------------
(* The whole invariant *)

LEMMA CaseStays ==
  ASSUME TypeInv, [Next]_vars
  PROVE  case' = case
<1>1. CASE Deliver \/ PassStep \/ PassFails \/ GateFails BY <1>1, PassApart
<1>2. CASE Staffs BY <1>2, StaffTagIs, FillIs DEF Staffs
<1>3. ASSUME NEW s \in Slot, Requested(s) PROVE case' = case
  <2>1. CASE Posts(s)
    <3>1. PICK task \in Job, amount \in Nat \cup {None}, extra \in BOOLEAN : Post(s, task, amount, extra)
      BY <2>1, PostIs
    <3> QED BY <3>1 DEF Post, Start
  <2>2. CASE \E n \in calls : Notified(s, n) BY <2>2, NotifiedIs DEF Start
  <2>3. CASE ReqStep(s)
    BY <2>3, Reads, WriteFinalIs, WriteSpecsIs, ReadDeltaIs, IssueVoucherIs, Puts, WritePaidIs DEF ReqStep
  <2>4. CASE ReqFails(s) BY <2>4 DEF ReqFails
  <2> QED BY <1>3, <2>1, <2>2, <2>3, <2>4 DEF Requested
<1>4. CASE \E l \in links : PayLink(l) BY <1>4, PayIs
<1>5. CASE Restart BY <1>5 DEF Restart
<1>6. CASE UNCHANGED vars BY <1>6 DEF vars
<1> QED BY <1>1, <1>2, <1>3, <1>4, <1>5, <1>6, Steps

\* What a case leaves out, the stricter ones leave out too.
LEMMA Stricter ==
  /\ Only({"balance", "again"}) => Only({"balance", "late", "again"}) /\ ~Allowed("late")
  /\ Only({"balance", "late", "again"}) => Only(Trouble \ {"revise", "fault", "overlap"}) /\ ~Allowed("waived")
  /\ Only(Trouble \ {"revise", "fault", "overlap"}) =>
        Only(Trouble \ {"fault", "overlap"}) /\ Only(Trouble \ {"revise", "overlap"})
  /\ Only(Trouble \ {"fault", "overlap"}) => Only(Trouble \ {"overlap"}) /\ ~Allowed("fault")
  /\ Only(Trouble \ {"revise", "overlap"}) => Only(Trouble \ {"overlap"}) /\ ~Allowed("revise")
  /\ Only(Trouble \ {"overlap"}) => ~Allowed("overlap")
  BY DEF Only, Allowed, Trouble

LEMMA NextUnbalanced ==
  ASSUME TypeInv, Unbalanced, [Next]_vars
  PROVE  Unbalanced'
<1>0. Allowed("balance")' <=> Allowed("balance") BY CaseStays DEF Allowed
<1> SUFFICES ASSUME ~Allowed("balance") PROVE Plain' BY <1>0 DEF Unbalanced
<1>p. Plain BY DEF Unbalanced
<1>1. ASSUME links' = links \/ (\E l : links' = links \cup {l} /\ ~l.paid) PROVE Plain'
  BY <1>p, <1>1 DEF Plain
<1>2. ASSUME links' = links PROVE Plain' BY <1>p, <1>2 DEF Plain
<1>3. CASE Deliver \/ PassStep
  <2>1. CASE MakeLink BY <1>1, <2>1, MakeLinkIs DEF Links1
  <2>2. CASE MakeBalanceLink BY <1>1, <2>2, MakeBalanceLinkIs DEF Links1
  <2>3. CASE ~MakeLink /\ ~MakeBalanceLink
    <3>1. links' = links
      BY <1>3, <2>3 DEF PassStep, Deliver, EndPass, Fetch, Copy, Zero, Reread, Resync, Resynced, Gate, Unhold, Received,
         MadeFree, Approved, Quoted, Ready, Mails, Marks, Recopy, ReadFields, MintService
    <3> QED BY <1>2, <3>1
  <2> QED BY <2>1, <2>2, <2>3
<1>4. CASE Staffs BY <1>2, <1>4, StaffTagIs, FillIs DEF Staffs
<1>5. ASSUME NEW s \in Slot, Requested(s) PROVE Plain'
  <2>1. CASE Posts(s)
    <3>1. PICK task \in Job, amount \in Nat \cup {None}, extra \in BOOLEAN : Post(s, task, amount, extra)
      BY <2>1, PostIs
    <3> QED BY <1>2, <3>1 DEF Post, Start
  <2>2. CASE \E n \in calls : Notified(s, n) BY <1>2, <2>2, NotifiedIs DEF Start
  <2>3. CASE ReqStep(s)
    BY <1>2, <2>3, Reads, WriteFinalIs, WriteSpecsIs, ReadDeltaIs, IssueVoucherIs, Puts, WritePaidIs DEF ReqStep
  <2>4. CASE ReqFails(s) BY <1>2, <2>4 DEF ReqFails
  <2> QED BY <1>5, <2>1, <2>2, <2>3, <2>4 DEF Requested
<1>6. ASSUME NEW l \in links, PayLink(l) PROVE Plain'
  <2>1. l.kind # "balance" /\ l \in LinkRec BY <1>6, PayIs DEF PayLink
  <2>2. PICK k \in LinkRec : k.kind = l.kind /\ links' = (links \ {l}) \cup {k} BY <1>6, PayIs
  <2> QED BY <1>p, <2>1, <2>2 DEF Plain, LinkRec
<1>7. CASE PassFails \/ GateFails \/ Restart BY <1>2, <1>7 DEF PassFails, GateFails, Restart
<1>8. CASE UNCHANGED vars BY <1>2, <1>8 DEF vars
<1> QED BY <1>3, <1>4, <1>5, <1>6, <1>7, <1>8, Steps

LEMMA InitIInv == Init => IInv
<1> SUFFICES ASSUME Init PROVE IInv OBVIOUS
<1>1. Unbalanced BY DEF Init, Unbalanced, Plain
<1> QED BY <1>1, InitTypes, InitOrdered, InitApart, InitAfforded, InitOrderly, InitQuote, InitPaid, InitFair, InitBack
    DEF IInv

LEMMA NextIInv == IInv /\ [Next]_vars => IInv'
<1> SUFFICES ASSUME IInv, [Next]_vars PROVE IInv' OBVIOUS
<1>1. TypeInv /\ Ordered /\ Unbalanced BY DEF IInv
<1>2. TypeInv' BY <1>1, NextTypes
<1>3. Ordered' /\ Unbalanced' BY <1>1, <1>2, NextOrdered, NextUnbalanced
<1>4. \A S : Only(S)' <=> Only(S) BY <1>1, CaseStays DEF Only
<1>5. Only(Trouble \ {"overlap"}) => Apart /\ Apart'
  BY <1>1, <1>2, Stricter, NextApart DEF IInv
<1>6. Only(Trouble \ {"revise", "overlap"}) => Afforded /\ Afforded'
  BY <1>1, <1>2, <1>5, Stricter, NextAfforded DEF IInv
<1>7. Only(Trouble \ {"fault", "overlap"}) => OrderlyInv /\ OrderlyInv'
  BY <1>1, <1>2, <1>5, Stricter, NextOrderly DEF IInv
<1>8. Only({"balance", "late", "again"}) => QuoteInv /\ PaidInv /\ QuoteInv' /\ PaidInv'
  BY <1>1, <1>2, <1>5, <1>7, Stricter, NextQuote, NextPaid DEF IInv
<1>9. Only(Trouble \ {"revise", "fault", "overlap"}) => BackInv /\ BackInv'
  BY <1>1, <1>2, <1>5, <1>6, <1>7, Stricter, NextBack DEF IInv
<1>10. Only({"balance", "again"}) => FairInv'
  BY <1>1, <1>2, <1>5, <1>7, <1>8, <1>9, Stricter, NextFair DEF IInv
<1> QED BY <1>2, <1>3, <1>4, <1>5, <1>6, <1>7, <1>8, <1>9, <1>10 DEF IInv

--------------------
(* What the invariant says *)

LEMMA TypesHold == TypeInv => TypeOK
<1> SUFFICES ASSUME TypeInv PROVE TypeOK OBVIOUS
<1>1. /\ draft.tags \subseteq Tag /\ draft.price \in Money /\ draft.item \in BOOLEAN
      /\ fields.paid \in Money /\ fields.final \in Money \cup {None}
      /\ due \in 0 .. MaxDue /\ serials \subseteq {"TS", "FS"}
  BY DEF TypeInv, DraftRec
<1>2. Running => /\ chain.tags \subseteq Tag /\ chain.price \in Money
                 /\ chain.pass \in 1..3 /\ chain.pending \in BOOLEAN
                 /\ chain.pc \in {"balance", "mailReady", "markReady"} => chain.ask.mode \in AskMode
  BY PassRec DEF TypeInv, ChainRec, Ask
<1>3. \A s \in Slot : Busy(s) => req[s].tags \subseteq Tag /\ req[s].price \in Money
  BY RequestRec DEF ReqRec
<1>4. \A l \in links : l.amount >= 0 /\ l.paid \in BOOLEAN BY DEF TypeInv, LinkRec
<1> QED BY <1>1, <1>2, <1>3, <1>4 DEF TypeOK

LEMMA OneSerial ==
  ASSUME \A x, y \in serials : x = y
  PROVE  Cardinality(serials) <= 1
<1>1. CASE serials = {} BY <1>1, FS_EmptySet
<1>2. CASE serials # {}
  <2>1. PICK x \in serials : TRUE BY <1>2
  <2>2. serials = {x} BY <2>1
  <2>3. Cardinality({x}) = 1 BY FS_Singleton
  <2> QED BY <2>2, <2>3
<1> QED BY <1>1, <1>2

LEMMA AllHandled == Quiet => Alone /\ ~Busy("a") /\ calls = {}
  BY DEF Quiet, Settled, Alone, Slot

LEMMA SoundHolds == IInv => RepairSound
<1> SUFFICES ASSUME IInv PROVE RepairSound OBVIOUS
<1>1. TypeOK BY TypesHold DEF IInv
<1>2. ToldOnce BY OneSerial DEF IInv, ToldOnce, OrderlyInv, ToldInv
<1>3. PriceStands
  <2> SUFFICES ASSUME Only(Trouble \ {"fault", "overlap"}), Quiet
               PROVE  draft.price = IF "free" \in draft.tags THEN 0 ELSE IF wanted = None THEN case.price ELSE wanted
    BY DEF PriceStands
  <2>1. OrderlyInv BY DEF IInv
  <2>2. ~FreeUnpaid BY <2>1, AllHandled, AtRest
  <2> QED BY <2>1, <2>2 DEF OrderlyInv, Priced, FreeUnpaid
<1>4. QuoteStands
  <2>1. Trouble \ {"revise", "waived", "fault", "overlap"} = {"balance", "late", "again"} BY DEF Trouble
  <2> QED BY <2>1 DEF QuoteStands, IInv, QuoteInv
<1> QED BY <1>1, <1>2, <1>3, <1>4 DEF RepairSound

LEMMA AgreesHolds == IInv => MoneyAgrees
<1> SUFFICES ASSUME IInv PROVE MoneyAgrees OBVIOUS
<1>1. PaidIsRecorded
  <2> SUFFICES ASSUME Only({"late", "again"}), Quiet PROVE fields.paid = money.got BY DEF PaidIsRecorded
  <2>1. Only({"balance", "late", "again"}) /\ ~Allowed("balance") BY DEF Only, Allowed
  <2>2. Plain /\ PaymentInv BY <2>1 DEF IInv, Unbalanced, PaidInv
  <2>3. ~OnItsWay BY AllHandled DEF OnItsWay, Paying
  <2> QED BY <2>2, <2>3 DEF PaymentInv
<1>2. NothingInvented BY DEF NothingInvented, IInv, Afforded
<1>3. ReadyIsFair BY DEF ReadyIsFair, IInv, FairInv, Fair
<1>4. RefundOnce BY DEF RefundOnce, IInv, OrderlyInv, RefundInv
<1>5. RefundIsFair BY DEF RefundIsFair, IInv, BackInv
<1> QED BY <1>1, <1>2, <1>3, <1>4, <1>5 DEF MoneyAgrees

\* Whatever staff, customers and passes do, and in whatever order: the customer
\* is told of each step once and gets one service number, the draft keeps the
\* price staff set and asks for what was quoted, so long as no call fails and
\* no requests overlap (the tags of runAfterSalesTriggers, the price of
\* mergeLineItemProps).
THEOREM RepairSoundHolds == Spec => []RepairSound
<1>1. IInv /\ [Next]_vars => IInv' BY NextIInv
<1> QED BY <1>1, InitIInv, SoundHolds, PTL DEF Spec

\* What was paid is recorded, the ready mail asks for the difference, and too
\* much is given back once and never more than that (handleRepairPayment,
\* resolveRepairCompletion, the refund link).
THEOREM MoneyAgreesHolds == Spec => []MoneyAgrees
<1>1. IInv /\ [Next]_vars => IInv' BY NextIInv
<1> QED BY <1>1, InitIInv, AgreesHolds, PTL DEF Spec

--------------------
(* Payment links *)

--------------------
(* Types *)

\* Where requests and callbacks may be, and that they know their link.
JobData ==
    /\ \A p \in Staff :
          /\ pc[p] \in {"ready", "done", "insert", "cancelAsk", "cancelWrite"}
          /\ pc[p] \notin {"ready", "done"} => job[p] \in Link
    /\ \A c \in Callback :
          /\ pc[c] \in {"ready", "done", "paid", "record"}
          /\ pc[c] \in {"paid", "record"} => job[c] \in Link

LinksTypeInv == LinksTypeOK /\ JobData

LEMMA LinksInitTypes == LinksInit => LinksTypeInv
  BY LinksAssumption DEF LinksInit, LinksTypeInv, LinksTypeOK, JobData, Proc

\* A request or callback that returns leaves its types alone.
LEMMA ReturnTypes ==
  ASSUME LinksTypeInv, NEW p \in Proc, Return(p)
  PROVE  /\ pc' \in [Proc -> {"ready", "done", "insert", "cancelAsk",
                              "cancelWrite", "paid", "record"}]
         /\ job' \in [Proc -> Link \cup {NoLink}]
         /\ JobData'
  BY DEF LinksTypeInv, LinksTypeOK, JobData, Return, Proc

\* So does one that goes on to a call its kind may make.
LEMMA GotoTypes ==
  ASSUME LinksTypeInv, NEW p \in Proc, NEW l \in Link, NEW step,
         CallNext(p, step, l),
         \/ p \in Staff /\ step \in {"insert", "cancelAsk", "cancelWrite"}
         \/ p \in Callback /\ step \in {"paid", "record"}
  PROVE  /\ pc' \in [Proc -> {"ready", "done", "insert", "cancelAsk",
                              "cancelWrite", "paid", "record"}]
         /\ job' \in [Proc -> Link \cup {NoLink}]
         /\ JobData'
  BY LinksAssumption DEF LinksTypeInv, LinksTypeOK, JobData, CallNext, Proc

\* The steps of requests keep the types.
LEMMA LinksStaffTypes ==
  ASSUME LinksTypeInv, NEW p \in Staff,
         \/ \E l \in Link : Generate(p, l) \/ CancelLink(p, l) \/ CancelActive(p, l)
         \/ Insert(p) \/ InsertFails(p) \/ CancelAsk(p) \/ CancelWrite(p) \/ Unwritten(p)
  PROVE  LinksTypeInv'
<1> p \in Proc BY DEF Proc
<1>1. CASE \E l \in Link : Generate(p, l) \/ CancelLink(p, l) \/ CancelActive(p, l)
  BY <1>1, GotoTypes
  DEF LinksTypeInv, LinksTypeOK, Generate, CancelLink, CancelActive, past
<1>2. CASE Insert(p) \/ InsertFails(p)
  <2>1. job[p] \in Link BY <1>2 DEF Insert, InsertFails, LinksTypeInv, JobData
  <2>2. made' \in Seq(Link)
    <3>1. made \in Seq(Link) BY DEF LinksTypeInv, LinksTypeOK
    <3>2. made' = Append(made, job[p]) \/ made' = made
      BY <1>2 DEF Insert, InsertFails
    <3> QED BY <2>1, <3>1, <3>2
  <2> QED
    BY <1>2, <2>1, <2>2, ReturnTypes
    DEF LinksTypeInv, LinksTypeOK, Insert, InsertFails, Fault, past
<1>3. CASE CancelAsk(p)
  <2>1. job[p] \in Link BY <1>3 DEF CancelAsk, LinksTypeInv, JobData
  <2>2. <<job[p], "cancelled", 1>> \in Callback BY <2>1 DEF Callback, Kind
  <2>3. CASE gokwik[job[p]] = "open"
    <3>1. /\ CallNext(p, "cancelWrite", job[p])
          /\ gokwik' = [gokwik EXCEPT ![job[p]] = "cancelled"]
          /\ posted' = posted \cup {<<job[p], "cancelled", 1>>}
          /\ UNCHANGED <<status, made, recorded, apart, failed>>
      BY <1>3, <2>3 DEF CancelAsk, past
    <3>2. /\ pc' \in [Proc -> {"ready", "done", "insert", "cancelAsk",
                             "cancelWrite", "paid", "record"}]
          /\ job' \in [Proc -> Link \cup {NoLink}]
          /\ JobData'
      BY <2>1, <3>1, GotoTypes
    <3> QED BY <2>2, <3>1, <3>2 DEF LinksTypeInv, LinksTypeOK
  <2>4. CASE gokwik[job[p]] # "open"
    BY <1>3, <2>4, ReturnTypes DEF LinksTypeInv, LinksTypeOK, CancelAsk, past
  <2> QED BY <2>3, <2>4
<1>4. CASE CancelWrite(p)
  BY <1>4, ReturnTypes DEF LinksTypeInv, LinksTypeOK, CancelWrite, JobData, Kind, past
<1>5. CASE Unwritten(p)
  <2>1. Return(p)
    BY <1>5, LinksAssumption DEF Unwritten, LinksTypeInv, LinksTypeOK, JobData
  <2> QED
    BY <1>5, <2>1, ReturnTypes DEF LinksTypeInv, LinksTypeOK, Unwritten, Fault
<1> QED BY <1>1, <1>2, <1>3, <1>4, <1>5

\* The steps of callbacks keep the types.
LEMMA CallbackTypes ==
  ASSUME LinksTypeInv, NEW c \in Callback,
         Webhook(c) \/ MarkPaid(c) \/ Record(c) \/ Unwritten(c) \/ Unrecorded(c)
  PROVE  LinksTypeInv'
<1> c \in Proc BY DEF Proc
<1>1. CASE Success(c)
  BY <1>1, ReturnTypes, GotoTypes DEF LinksTypeInv, LinksTypeOK, Success, past
<1>2. CASE Closed(c)
  BY <1>2, ReturnTypes DEF LinksTypeInv, LinksTypeOK, Closed, Callback, Kind, Created, past
<1>3. CASE MarkPaid(c)
  <2>1. job[c] \in Link BY <1>3 DEF MarkPaid, LinksTypeInv, JobData
  <2> QED
    BY <1>3, <2>1, GotoTypes DEF LinksTypeInv, LinksTypeOK, MarkPaid, Kind, past
<1>4. CASE Record(c)
  BY <1>4, ReturnTypes DEF LinksTypeInv, LinksTypeOK, JobData, Record, past
<1>5. CASE Unwritten(c) \/ Unrecorded(c)
  <2>1. CASE Return(c)
    BY <1>5, <2>1, ReturnTypes
    DEF LinksTypeInv, LinksTypeOK, Unwritten, Unrecorded, Fault
  <2>2. CASE Unwritten(c) /\ pc[c] = "paid" /\ CallNext(c, "record", job[c])
    <3>1. job[c] \in Link BY <2>2 DEF LinksTypeInv, JobData
    <3> QED
      BY <2>2, <3>1, GotoTypes DEF LinksTypeInv, LinksTypeOK, Unwritten, Fault
  <2> QED BY <1>5, <2>1, <2>2 DEF Unwritten, Unrecorded
<1> QED BY <1>1, <1>2, <1>3, <1>4, <1>5 DEF Webhook

LEMMA OutsideTypes ==
  ASSUME LinksTypeInv,
         \/ \E l \in Link, kind \in Kind : Close(l, kind) \/ Redeliver(l, kind)
         \/ LinksRestart
  PROVE  LinksTypeInv'
<1>1. ASSUME NEW l \in Link, NEW kind \in Kind, Close(l, kind) \/ Redeliver(l, kind)
      PROVE  LinksTypeInv'
  <2>1. CASE Close(l, kind)
    BY <2>1 DEF LinksTypeInv, LinksTypeOK, JobData, Close, Callback, Kind, past
  <2>2. CASE Redeliver(l, kind)
    <3>1. posted' \subseteq Callback /\ failed' \subseteq Faults /\ apart' \in BOOLEAN
      BY <2>2 DEF Redeliver, Fault, Callback, LinksTypeInv, LinksTypeOK
    <3> QED
      BY <2>2, <3>1 DEF LinksTypeInv, LinksTypeOK, JobData, Redeliver
  <2> QED BY <1>1, <2>1, <2>2
<1>2. CASE LinksRestart
  BY <1>2 DEF LinksTypeInv, LinksTypeOK, JobData, LinksRestart, Fault, Proc
<1> QED BY <1>1, <1>2

\* Every step is one of a request, of a callback or from outside.
LEMMA LinksSteps ==
  ASSUME LinksTypeInv, LinksNext
  PROVE  \/ \E p \in Staff :
              \/ \E l \in Link : Generate(p, l) \/ CancelLink(p, l) \/ CancelActive(p, l)
              \/ Insert(p) \/ InsertFails(p) \/ CancelAsk(p) \/ CancelWrite(p) \/ Unwritten(p)
         \/ \E c \in Callback : Webhook(c) \/ MarkPaid(c) \/ Record(c) \/ Unwritten(c) \/ Unrecorded(c)
         \/ \E l \in Link, kind \in Kind : Close(l, kind) \/ Redeliver(l, kind)
         \/ LinksRestart
<1>1. ASSUME NEW p \in Proc, RunStep(p)
      PROVE  \/ p \in Staff /\ (Insert(p) \/ CancelAsk(p) \/ CancelWrite(p))
             \/ p \in Callback /\ (MarkPaid(p) \/ Record(p))
  BY <1>1 DEF RunStep, Insert, CancelAsk, CancelWrite, MarkPaid, Record,
              LinksTypeInv, JobData, Proc
<1>2. ASSUME NEW p \in Proc, Unwritten(p)
      PROVE  p \in Staff \/ p \in Callback
  BY DEF Proc
<1> QED BY <1>1, <1>2 DEF LinksNext

LEMMA LinksNextTypes == LinksTypeInv /\ [LinksNext]_linksVars => LinksTypeInv'
<1>1. CASE LinksTypeInv /\ LinksNext
  BY <1>1, LinksSteps, LinksStaffTypes, CallbackTypes, OutsideTypes
<1>2. CASE LinksTypeInv /\ UNCHANGED linksVars
  BY <1>2 DEF LinksTypeInv, LinksTypeOK, JobData, linksVars
<1> QED BY <1>1, <1>2

\* Types, for any instance.
THEOREM LinkTypes == LinksSpec => [](LinksTypeOK /\ JobData)
<1> QED BY LinksInitTypes, LinksNextTypes, PTL DEF LinksSpec, LinksTypeInv

--------------------
(* What is recorded was paid *)

Result(kind) == IF kind = "success" THEN "paid" ELSE kind

\* What holds of rows and callbacks however links overlap: a link without a
\* sent message has no open row, a callback says what became of its link, and
\* requests about to write know what GoKwik did.
LinksGrounds ==
    /\ \A l \in Link : gokwik[l] \in {"none", "made"} => status[l] = "none"
    /\ \A c \in posted : gokwik[c[1]] = Result(c[2])
    /\ \A p \in Staff : pc[p] = "insert" => gokwik[job[p]] = "made"
    /\ \A p, q \in Staff :
          pc[p] = "insert" /\ pc[q] = "insert" /\ job[p] = job[q] => p = q
    /\ \A p \in Staff : pc[p] = "cancelWrite" => gokwik[job[p]] = "cancelled"
    /\ \A c \in Callback :
          /\ pc[c] # "ready" => c \in posted
          /\ pc[c] \in {"paid", "record"} => c[2] = "success"
    /\ \A c \in Callback : pc[c] = "paid" => gokwik[job[c]] \notin {"none", "made"}

\* A callback of the link is waiting or at work.
Called(l) == \E c \in posted : c[1] = l /\ pc[c] # "done"

\* One at a time: the second call of a callback comes after the first.
OneCall ==
    \A c, d \in posted :
        c[1] = d[1] /\ pc[c] # "done" /\ pc[d] # "done" => c = d

\* Something of the link is still open: what NoOverlap allows one link only.
Alive(l) ==
    \/ gokwik[l] \in {"made", "open"}
    \/ status[l] = "created"
    \/ Called(l)

OneAlive == \A l, m \in Link : Alive(l) /\ Alive(m) => l = m

\* The row a callback works on is that of its link, and is counted once.
Right ==
    /\ \A l \in Link :
          /\ status[l] = "success" => gokwik[l] = "paid"
          /\ recorded[l] # 0 =>
                /\ recorded[l] = 1 /\ gokwik[l] = "paid"
                /\ status[l] = "success" \/ ("unwritten" \in failed /\ ~Called(l))
    /\ \A c \in Callback :
          /\ pc[c] = "paid" =>
                job[c] = c[1] /\ status[c[1]] = "created" /\ recorded[c[1]] = 0
          /\ pc[c] = "record" =>
                /\ job[c] = c[1] /\ recorded[c[1]] = 0
                /\ status[c[1]] = "success" \/ "unwritten" \in failed

\* A callback that takes a row was told of a payment, and no two callbacks
\* are told of the same link.
LEMMA LinksTold ==
  ASSUME LinksTypeInv, LinksGrounds, NEW c \in Callback, pc[c] \in {"paid", "record"}
  PROVE  /\ c \in posted /\ c[1] \in Link /\ c[2] = "success"
         /\ gokwik[c[1]] = "paid"
  BY DEF LinksGrounds, Callback, Result, Kind

\* The parts of the invariant that need no assumption on overlaps.
LEMMA InitGrounds == LinksInit => LinksGrounds
  BY LinksAssumption DEF LinksInit, LinksGrounds, Proc

\* What a request can do in one step.
StaffSteps(p) ==
    /\ \A q \in Proc : q # p => pc'[q] = pc[q] /\ job'[q] = job[q]
    /\ pc'[p] = "insert" =>
          job'[p] \in Link /\ gokwik[job'[p]] = "none" /\ gokwik'[job'[p]] = "made"
    /\ pc'[p] = "cancelWrite" => job'[p] \in Link /\ gokwik'[job'[p]] = "cancelled"
    /\ \A l \in Link : gokwik'[l] # gokwik[l] =>
          \/ gokwik[l] = "none" /\ gokwik'[l] = "made"
          \/ pc[p] = "insert" /\ job[p] = l /\ gokwik'[l] = "open" /\ pc'[p] = "done"
          \/ gokwik[l] = "open" /\ gokwik'[l] = "cancelled"
    /\ \A l \in Link : status'[l] # status[l] =>
          /\ job[p] = l
          /\ \/ pc[p] = "insert" /\ status'[l] = "created" /\ gokwik'[l] = "open"
             \/ pc[p] = "cancelWrite" /\ status'[l] = "cancelled" /\ gokwik'[l] = gokwik[l]
    /\ posted \subseteq posted'
    /\ \A c \in posted' \ posted :
          /\ c[1] \in Link /\ c = <<c[1], "cancelled", 1>>
          /\ gokwik[c[1]] = "open" /\ gokwik'[c[1]] = "cancelled"
    /\ recorded' = recorded

LEMMA StaffFacts ==
  ASSUME LinksTypeInv, NEW p \in Staff,
         \/ \E l \in Link : Generate(p, l) \/ CancelLink(p, l) \/ CancelActive(p, l)
         \/ Insert(p) \/ InsertFails(p) \/ CancelAsk(p) \/ CancelWrite(p) \/ Unwritten(p)
  PROVE  StaffSteps(p)
<1> p \in Proc BY DEF Proc
<1>1. ASSUME NEW l \in Link, Generate(p, l)
      PROVE  StaffSteps(p)
  BY <1>1 DEF Generate, CallNext, StaffSteps, LinksTypeInv, LinksTypeOK
<1>2. ASSUME NEW l \in Link, CancelLink(p, l) \/ CancelActive(p, l)
      PROVE  StaffSteps(p)
  BY <1>2 DEF CancelLink, CancelActive, CallNext, StaffSteps, LinksTypeInv, LinksTypeOK
<1>3. CASE Insert(p) \/ InsertFails(p)
  <2>1. job[p] \in Link BY <1>3 DEF Insert, InsertFails, LinksTypeInv, JobData
  <2> QED
    BY <1>3, <2>1 DEF Insert, InsertFails, Fault, Return, StaffSteps, LinksTypeInv, LinksTypeOK
<1>4. CASE CancelAsk(p)
  <2>1. job[p] \in Link BY <1>4 DEF CancelAsk, LinksTypeInv, JobData
  <2>2. CASE gokwik[job[p]] = "open"
    BY <1>4, <2>1, <2>2 DEF CancelAsk, CallNext, StaffSteps, LinksTypeInv, LinksTypeOK
  <2>3. CASE gokwik[job[p]] # "open"
    BY <1>4, <2>1, <2>3 DEF CancelAsk, Return, StaffSteps, LinksTypeInv, LinksTypeOK
  <2> QED BY <2>2, <2>3
<1>5. CASE CancelWrite(p)
  <2>1. job[p] \in Link BY <1>5 DEF CancelWrite, LinksTypeInv, JobData
  <2> QED
    BY <1>5, <2>1 DEF CancelWrite, Return, StaffSteps, LinksTypeInv, LinksTypeOK
<1>6. CASE Unwritten(p)
  <2>1. Return(p)
    BY <1>6, LinksAssumption DEF Unwritten, LinksTypeInv, LinksTypeOK, JobData
  <2> QED BY <1>6, <2>1 DEF Unwritten, Return, StaffSteps, LinksTypeInv, LinksTypeOK
<1> QED BY <1>1, <1>2, <1>3, <1>4, <1>5, <1>6

LEMMA StaffGrounds ==
  ASSUME LinksTypeInv, LinksGrounds, NEW p \in Staff, StaffSteps(p), LinksTypeInv'
  PROVE  LinksGrounds'
<1> p \in Proc /\ p \notin Callback /\ Staff \subseteq Proc /\ Callback \subseteq Proc
  BY LinksAssumption DEF Proc
<1> \A q \in Staff : pc[q] = "insert" \/ pc[q] = "cancelWrite" => job[q] \in Link
  BY DEF LinksTypeInv, JobData
<1> posted \subseteq Callback
  BY DEF LinksTypeInv, LinksTypeOK
<1> \A c \in Callback : pc[c] = "paid" => job[c] \in Link
  BY DEF LinksTypeInv, JobData
<1>1. (\A l \in Link : gokwik[l] \in {"none", "made"} => status[l] = "none")'
  BY DEF LinksGrounds, StaffSteps
<1>2. (\A c \in posted : gokwik[c[1]] = Result(c[2]))'
  <2> SUFFICES ASSUME NEW c \in posted'
               PROVE  gokwik'[c[1]] = Result(c[2])
    OBVIOUS
  <2>1. CASE c \in posted
    <3>1. c[1] \in Link /\ Result(c[2]) \in {"paid", "cancelled", "expired"}
      BY <2>1 DEF Callback, Result, Kind
    <3> QED BY <2>1, <3>1 DEF LinksGrounds, StaffSteps
  <2>2. CASE c \notin posted
    BY <2>2 DEF StaffSteps, Result
  <2> QED BY <2>1, <2>2
<1>3. (\A q \in Staff : pc[q] = "insert" => gokwik[job[q]] = "made")'
  BY DEF LinksGrounds, StaffSteps
<1>4. (\A q, r \in Staff :
          pc[q] = "insert" /\ pc[r] = "insert" /\ job[q] = job[r] => q = r)'
  BY DEF LinksGrounds, StaffSteps
<1>5. (\A q \in Staff : pc[q] = "cancelWrite" => gokwik[job[q]] = "cancelled")'
  BY DEF LinksGrounds, StaffSteps
<1>6. (\A c \in Callback : /\ pc[c] # "ready" => c \in posted
                           /\ pc[c] \in {"paid", "record"} => c[2] = "success")'
  BY DEF LinksGrounds, StaffSteps
<1>7. (\A c \in Callback : pc[c] = "paid" => gokwik[job[c]] \notin {"none", "made"})'
  <2> SUFFICES ASSUME NEW c \in Callback, pc'[c] = "paid"
               PROVE  gokwik'[job'[c]] \notin {"none", "made"}
    OBVIOUS
  <2>1. pc[c] = "paid" /\ job'[c] = job[c] BY DEF StaffSteps
  <2>2. job[c] \in Link /\ gokwik[job[c]] \notin {"none", "made"}
    BY <2>1 DEF LinksGrounds
  <2> QED BY <2>1, <2>2 DEF StaffSteps
<1> QED BY <1>1, <1>2, <1>3, <1>4, <1>5, <1>6, <1>7 DEF LinksGrounds

\* What a callback can do in one step.
CallbackSteps(c) ==
    /\ \A q \in Proc : q # c => pc'[q] = pc[q] /\ job'[q] = job[q]
    /\ c \in posted /\ posted' = posted /\ gokwik' = gokwik
    /\ pc'[c] = "paid" =>
          /\ pc[c] = "ready" /\ c[2] = "success" /\ status' = status
          /\ job'[c] \in Link /\ status[job'[c]] = "created"
    /\ pc'[c] = "record" =>
          /\ pc[c] = "paid" /\ job'[c] = job[c]
          /\ status'[job[c]] = "success" \/ (status' = status /\ "unwritten" \in failed')
    /\ pc'[c] # "ready" /\ pc[c] # "done"
    /\ \A l \in Link : status'[l] # status[l] =>
          \/ status[l] = "created" /\ status'[l] = c[2] /\ c[2] # "success" /\ pc[c] = "ready"
          \/ pc[c] = "paid" /\ job[c] = l /\ status'[l] = "success"
    /\ \A l \in Link : recorded'[l] # recorded[l] =>
          /\ pc[c] = "record" /\ job[c] = l /\ pc'[c] = "done"
          /\ recorded'[l] = recorded[l] + 1 /\ status' = status

LEMMA CallbackFacts ==
  ASSUME LinksTypeInv, LinksGrounds, NEW c \in Callback,
         Webhook(c) \/ MarkPaid(c) \/ Record(c) \/ Unwritten(c) \/ Unrecorded(c)
  PROVE  CallbackSteps(c)
<1> c \in Proc BY DEF Proc
<1>1. CASE Success(c)
  BY <1>1 DEF Success, CallNext, Return, Newest, Created, CallbackSteps, LinksTypeInv, LinksTypeOK
<1>2. CASE Closed(c)
  BY <1>2 DEF Closed, Return, Created, CallbackSteps, LinksTypeInv, LinksTypeOK
<1>3. CASE MarkPaid(c)
  <2>1. job[c] \in Link /\ c \in posted BY <1>3 DEF MarkPaid, LinksTypeInv, JobData, LinksGrounds
  <2> QED BY <1>3, <2>1 DEF MarkPaid, CallNext, CallbackSteps, LinksTypeInv, LinksTypeOK
<1>4. CASE Record(c)
  <2>1. job[c] \in Link /\ c \in posted BY <1>4 DEF Record, LinksTypeInv, JobData, LinksGrounds
  <2> QED BY <1>4, <2>1 DEF Record, Return, CallbackSteps, LinksTypeInv, LinksTypeOK
<1>5. CASE Unwritten(c) \/ Unrecorded(c)
  <2>1. c \in posted BY <1>5 DEF Unwritten, Unrecorded, LinksGrounds
  <2>2. pc[c] # "cancelWrite" BY DEF LinksTypeInv, JobData
  <2> QED
    BY <1>5, <2>1, <2>2
    DEF Unwritten, Unrecorded, Return, CallNext, Fault, CallbackSteps, LinksTypeInv, LinksTypeOK
<1> QED BY <1>1, <1>2, <1>3, <1>4, <1>5 DEF Webhook

LEMMA CallbackGrounds ==
  ASSUME LinksTypeInv, LinksGrounds, NEW c \in Callback, CallbackSteps(c), LinksTypeInv'
  PROVE  LinksGrounds'
<1> c \in Proc /\ c \notin Staff /\ Staff \subseteq Proc /\ Callback \subseteq Proc
  BY LinksAssumption DEF Proc
<1> posted \subseteq Callback
  BY DEF LinksTypeInv, LinksTypeOK
<1> \A d \in Callback : pc[d] = "paid" => job[d] \in Link
  BY DEF LinksTypeInv, JobData
<1>1. (\A l \in Link : gokwik[l] \in {"none", "made"} => status[l] = "none")'
  <2> SUFFICES ASSUME NEW l \in Link, gokwik[l] \in {"none", "made"}
               PROVE  status'[l] = "none"
    BY DEF CallbackSteps
  <2> QED BY DEF LinksGrounds, CallbackSteps
<1>2. (\A d \in posted : gokwik[d[1]] = Result(d[2]))'
  BY DEF LinksGrounds, CallbackSteps
<1>3. (\A q \in Staff : /\ pc[q] = "insert" => gokwik[job[q]] = "made"
                        /\ pc[q] = "cancelWrite" => gokwik[job[q]] = "cancelled")'
  BY DEF LinksGrounds, CallbackSteps
<1>4. (\A q, r \in Staff :
          pc[q] = "insert" /\ pc[r] = "insert" /\ job[q] = job[r] => q = r)'
  BY DEF LinksGrounds, CallbackSteps
<1>5. (\A d \in Callback : /\ pc[d] # "ready" => d \in posted
                           /\ pc[d] \in {"paid", "record"} => d[2] = "success")'
  BY DEF LinksGrounds, CallbackSteps
<1>6. (\A d \in Callback : pc[d] = "paid" => gokwik[job[d]] \notin {"none", "made"})'
  BY DEF LinksGrounds, CallbackSteps
<1> QED BY <1>1, <1>2, <1>3, <1>4, <1>5, <1>6 DEF LinksGrounds

\* The customer, the seven days and a restart.
LEMMA CloseFacts ==
  ASSUME LinksTypeInv, LinksGrounds, NEW l \in Link, NEW kind \in Kind, Close(l, kind)
  PROVE  /\ <<l, kind, 1>> \in Callback /\ <<l, kind, 1>> \notin posted
         /\ posted' = posted \cup {<<l, kind, 1>>}
         /\ gokwik[l] = "open" /\ gokwik'[l] = Result(kind)
         /\ \A m \in Link : m # l => gokwik'[m] = gokwik[m]
         /\ pc[<<l, kind, 1>>] = "ready"
         /\ UNCHANGED <<status, made, recorded, pc, job, apart, failed>>
<1>1. <<l, kind, 1>> \in Callback BY DEF Callback
<1>2. Result(kind) # "open" BY DEF Result, Kind
<1>3. <<l, kind, 1>> \notin posted
  BY <1>2 DEF LinksGrounds, Close
<1> QED BY <1>1, <1>3 DEF Close, Result, LinksGrounds, LinksTypeInv, LinksTypeOK, JobData, past

LEMMA CloseGrounds ==
  ASSUME LinksTypeInv, LinksGrounds, NEW l \in Link, NEW kind \in Kind, Close(l, kind), LinksTypeInv'
  PROVE  LinksGrounds'
<1> /\ posted' = posted \cup {<<l, kind, 1>>}
    /\ gokwik[l] = "open" /\ gokwik'[l] = Result(kind)
    /\ \A m \in Link : m # l => gokwik'[m] = gokwik[m]
    /\ pc[<<l, kind, 1>>] = "ready"
    /\ status' = status /\ pc' = pc /\ job' = job
  BY CloseFacts
<1> \A q \in Staff : pc[q] = "insert" \/ pc[q] = "cancelWrite" => job[q] \in Link
  BY DEF LinksTypeInv, JobData
<1> posted \subseteq Callback
  BY DEF LinksTypeInv, LinksTypeOK
<1> \A c \in Callback : pc[c] = "paid" => job[c] \in Link
  BY DEF LinksTypeInv, JobData
<1>1. Result(kind) \notin {"none", "made", "open"} BY DEF Result, Kind
<1>2. (\A m \in Link : gokwik[m] \in {"none", "made"} => status[m] = "none")'
  BY <1>1 DEF LinksGrounds
<1>3. (\A c \in posted : gokwik[c[1]] = Result(c[2]))'
  <2> SUFFICES ASSUME NEW c \in posted, c[1] = l
               PROVE  FALSE
    BY DEF LinksGrounds, Callback
  <2> QED BY DEF LinksGrounds, Callback, Result, Kind
<1>4. (\A p \in Staff : /\ pc[p] = "insert" => gokwik[job[p]] = "made"
                        /\ pc[p] = "cancelWrite" => gokwik[job[p]] = "cancelled")'
  BY DEF LinksGrounds
<1>5. (\A p, q \in Staff :
          pc[p] = "insert" /\ pc[q] = "insert" /\ job[p] = job[q] => p = q)'
  BY DEF LinksGrounds
<1>6. (\A c \in Callback : /\ pc[c] # "ready" => c \in posted
                           /\ pc[c] \in {"paid", "record"} => c[2] = "success")'
  BY DEF LinksGrounds
<1>7. (\A c \in Callback : pc[c] = "paid" => gokwik[job[c]] \notin {"none", "made"})'
  BY <1>1 DEF LinksGrounds
<1> QED BY <1>2, <1>3, <1>4, <1>5, <1>6, <1>7 DEF LinksGrounds

\* The second call of a callback.
LEMMA RedeliverFacts ==
  ASSUME LinksTypeInv, NEW l \in Link, NEW kind \in Kind, Redeliver(l, kind)
  PROVE  /\ <<l, kind, 1>> \in posted /\ <<l, kind, 2>> \in Callback
         /\ posted' = posted \cup {<<l, kind, 2>>} /\ "redelivered" \in failed'
         /\ apart' => pc[<<l, kind, 1>>] = "done"
         /\ UNCHANGED <<gokwik, status, made, recorded, pc, job>>
  BY DEF Redeliver, Fault, Callback

LEMMA RedeliverGrounds ==
  ASSUME LinksTypeInv, LinksGrounds, NEW l \in Link, NEW kind \in Kind, Redeliver(l, kind)
  PROVE  LinksGrounds'
<1>1. /\ <<l, kind, 1>> \in posted /\ posted' = posted \cup {<<l, kind, 2>>}
      /\ UNCHANGED <<gokwik, status, pc, job>>
  BY RedeliverFacts
<1>2. gokwik[l] = Result(kind) BY <1>1 DEF LinksGrounds
<1> QED BY <1>1, <1>2 DEF LinksGrounds

LEMMA RestartGrounds ==
  ASSUME LinksTypeInv, LinksGrounds, LinksRestart
  PROVE  LinksGrounds'
  BY LinksAssumption DEF LinksTypeInv, LinksTypeOK, LinksGrounds, LinksRestart, Proc

LEMMA NextGrounds == LinksTypeInv /\ LinksGrounds /\ [LinksNext]_linksVars => LinksGrounds'
<1>1. ASSUME LinksTypeInv, LinksGrounds, LinksNext
      PROVE  LinksGrounds'
  <2>1. LinksTypeInv' BY <1>1, LinksNextTypes
  <2> QED
    BY <1>1, <2>1, LinksSteps, StaffFacts, StaffGrounds, CallbackFacts,
       CallbackGrounds, CloseGrounds, RedeliverGrounds, RestartGrounds
<1>2. ASSUME LinksGrounds, UNCHANGED linksVars
      PROVE  LinksGrounds'
  BY <1>2 DEF LinksGrounds, linksVars
<1> QED BY <1>1, <1>2

--------------------
(* Without overlap *)

\* Overlap, once there, stays.
LEMMA OverlapStays ==
  ASSUME LinksTypeInv, [LinksNext]_linksVars, NoOverlap'
  PROVE  /\ NoOverlap /\ Made \subseteq Made'
         /\ IsFiniteSet(Made') /\ apart' /\ failed \subseteq failed'
<1>1. /\ \A l \in Link : gokwik[l] # "none" => gokwik'[l] # "none"
      /\ (apart' => apart) /\ failed \subseteq failed'
  <2>1. CASE LinksNext
    <3>1. ASSUME NEW p \in Staff, NEW l \in Link,
                 Generate(p, l) \/ CancelLink(p, l) \/ CancelActive(p, l)
          PROVE  <1>1
      BY <3>1 DEF Generate, CancelLink, CancelActive, LinksTypeInv, LinksTypeOK, past
    <3>2. ASSUME NEW p \in Proc, RunStep(p) \/ InsertFails(p) \/ Unwritten(p)
          PROVE  <1>1
      BY <3>2 DEF RunStep, Insert, InsertFails, CancelAsk, CancelWrite, MarkPaid,
                  Record, Unwritten, Fault, LinksTypeInv, LinksTypeOK, past
    <3>3. ASSUME NEW c \in Callback, Webhook(c) \/ Unrecorded(c)
          PROVE  <1>1
      BY <3>3 DEF Webhook, Success, Closed, Unrecorded, Fault, past
    <3>4. ASSUME NEW l \in Link, NEW kind \in Kind, Close(l, kind) \/ Redeliver(l, kind)
          PROVE  <1>1
      BY <3>4 DEF Close, Redeliver, Fault, Kind, LinksTypeInv, LinksTypeOK, past
    <3>5. CASE LinksRestart
      BY <3>5 DEF LinksRestart, Fault
    <3> QED BY <2>1, <3>1, <3>2, <3>3, <3>4, <3>5 DEF LinksNext, Proc
  <2>2. CASE UNCHANGED linksVars
    BY <2>2 DEF linksVars
  <2> QED BY <2>1, <2>2
<1>2. Made \subseteq Made' BY <1>1 DEF Made
<1>3. IsFiniteSet(Made')
  <2>1. Made' \subseteq Link BY DEF Made
  <2> QED BY <2>1, LinksAssumption, FS_Subset
<1>4. Cardinality(Made) <= Cardinality(Made') /\ Cardinality(Made) \in Nat /\ Cardinality(Made') \in Nat
  BY <1>2, <1>3, FS_Subset, FS_CardinalityType
<1> QED BY <1>1, <1>2, <1>3, <1>4 DEF NoOverlap

\* A set of at most one element has no two.
LEMMA AtMostOne ==
  ASSUME NEW S, IsFiniteSet(S), Cardinality(S) <= 1, NEW a \in S, NEW b \in S
  PROVE  a = b
<1>1. Cardinality(S) = 0 \/ Cardinality(S) = 1 BY FS_CardinalityType
<1>2. CASE Cardinality(S) = 0 BY <1>2, FS_EmptySet
<1>3. CASE Cardinality(S) = 1 BY <1>3, FS_Singleton
<1> QED BY <1>1, <1>2, <1>3

\* A request changes no row that a callback works on or has counted, and the
\* callback of a cancellation is the first of its link.
LEMMA StaffRight ==
  ASSUME LinksTypeInv, LinksGrounds, Right, OneCall, NEW p \in Staff, StaffSteps(p),
         failed \subseteq failed'
  PROVE  Right' /\ OneCall'
<1> p \in Proc /\ p \notin Callback /\ Callback \subseteq Proc /\ posted \subseteq Callback
  BY LinksAssumption DEF Proc, LinksTypeInv, LinksTypeOK
<1>1. \A l \in Link : gokwik[l] = "paid" => gokwik'[l] = "paid"
  BY DEF StaffSteps, LinksGrounds
<1>2. \A l \in Link : status'[l] # status[l] => gokwik[l] # "paid"
  BY DEF StaffSteps, LinksGrounds
<1>3. \A l \in Link : status'[l] = "success" => status[l] = "success"
  BY DEF StaffSteps
<1>a. \A c \in posted : pc'[c] = pc[c]
  BY DEF StaffSteps
<1>b. \A c \in posted' \ posted : \A d \in posted : d[1] # c[1]
  <2> SUFFICES ASSUME NEW c \in posted', c \notin posted, NEW d \in posted, d[1] = c[1]
               PROVE  FALSE
    OBVIOUS
  <2>1. gokwik[c[1]] = "open" BY DEF StaffSteps
  <2> QED BY <2>1 DEF LinksGrounds, Result, Callback, Kind
<1>c. \A l \in Link : gokwik[l] = "paid" /\ Called(l)' => Called(l)
  BY <1>a DEF StaffSteps, Called
<1>4. (\A l \in Link :
          /\ status[l] = "success" => gokwik[l] = "paid"
          /\ recorded[l] # 0 =>
                /\ recorded[l] = 1 /\ gokwik[l] = "paid"
                /\ status[l] = "success" \/ ("unwritten" \in failed /\ ~Called(l)))'
  <2> SUFFICES ASSUME NEW l \in Link
               PROVE  (/\ status[l] = "success" => gokwik[l] = "paid"
                       /\ recorded[l] # 0 =>
                            /\ recorded[l] = 1 /\ gokwik[l] = "paid"
                            /\ \/ status[l] = "success"
                               \/ "unwritten" \in failed /\ ~Called(l))'
    OBVIOUS
  <2> QED BY <1>1, <1>2, <1>3, <1>c DEF Right, StaffSteps
<1>5. (\A c \in Callback :
          /\ pc[c] = "paid" =>
                job[c] = c[1] /\ status[c[1]] = "created" /\ recorded[c[1]] = 0
          /\ pc[c] = "record" =>
                /\ job[c] = c[1] /\ recorded[c[1]] = 0
                /\ status[c[1]] = "success" \/ "unwritten" \in failed)'
  <2> SUFFICES ASSUME NEW c \in Callback, pc'[c] \in {"paid", "record"}
               PROVE  status'[c[1]] = status[c[1]] /\ pc'[c] = pc[c] /\ job'[c] = job[c]
    BY DEF Right, StaffSteps
  <2>1. pc'[c] = pc[c] /\ job'[c] = job[c] BY DEF StaffSteps
  <2> QED BY <1>2, <2>1, LinksTold
<1>6. OneCall'
  <2> SUFFICES ASSUME NEW c \in posted', NEW d \in posted', c[1] = d[1],
                      pc'[c] # "done", pc'[d] # "done"
               PROVE  c = d
    BY DEF OneCall
  <2>1. CASE c \in posted /\ d \in posted BY <1>a, <2>1 DEF OneCall
  <2>2. CASE c \notin posted /\ d \notin posted
    <3>1. c = <<c[1], "cancelled", 1>> /\ d = <<d[1], "cancelled", 1>>
      BY <2>2 DEF StaffSteps
    <3> QED BY <3>1
  <2> QED BY <1>b, <2>1, <2>2
<1> QED BY <1>4, <1>5, <1>6 DEF Right

\* A callback takes the row of its own link: it is the only one alive, and no
\* other call of it is waiting or at work.
LEMMA CallbackRight ==
  ASSUME LinksTypeInv, LinksGrounds, OneAlive, Right, OneCall, NEW c \in Callback,
         CallbackSteps(c), failed \subseteq failed'
  PROVE  Right' /\ OneCall'
<1> /\ c \in Proc /\ Callback \subseteq Proc /\ c[1] \in Link /\ c \in posted
    /\ posted' = posted /\ posted \subseteq Callback /\ gokwik' = gokwik
  BY DEF Proc, Callback, CallbackSteps, LinksTypeInv, LinksTypeOK
<1> recorded \in [Link -> Nat] BY DEF LinksTypeInv, LinksTypeOK
<1>0. pc[c] # "done" /\ Called(c[1]) BY DEF CallbackSteps, Called
<1>1. \A l \in Link : status[l] = "created" => l = c[1]
  BY <1>0 DEF OneAlive, Alive
<1>2. \A d \in Callback : pc[d] \in {"paid", "record"} /\ c[1] = d[1] => d = c
  BY <1>0, LinksTold DEF OneCall
<1>3. \A d \in posted : d # c => pc'[d] = pc[d]
  BY DEF CallbackSteps
<1>4. OneCall'
  <2> SUFFICES ASSUME NEW d \in posted, NEW e \in posted, d[1] = e[1],
                      pc'[d] # "done", pc'[e] # "done"
               PROVE  d = e
    BY DEF OneCall
  <2>1. pc[d] # "done" /\ pc[e] # "done" BY <1>0, <1>3
  <2> QED BY <2>1 DEF OneCall
<1>5. \A l \in Link : ~Called(l) => ~Called(l)'
  BY <1>0, <1>3 DEF Called
<1>6. pc'[c] = "done" => ~Called(c[1])'
  <2> SUFFICES ASSUME pc'[c] = "done", NEW d \in posted, d[1] = c[1], pc'[d] # "done"
               PROVE  FALSE
    BY DEF Called
  <2>1. d # c /\ pc[d] # "done" BY <1>3
  <2> QED BY <1>0, <2>1 DEF OneCall
<1>7. \A l \in Link : status[l] = "success" => status'[l] = "success"
  BY DEF CallbackSteps
<1>8. (\A l \in Link : status[l] = "success" => gokwik[l] = "paid")'
  <2> SUFFICES ASSUME NEW l \in Link, status'[l] = "success"
               PROVE  gokwik[l] = "paid"
    OBVIOUS
  <2>1. CASE status[l] = "success" BY <2>1 DEF Right
  <2>2. CASE status[l] # "success"
    <3>1. pc[c] = "paid" /\ job[c] = l BY <2>2 DEF CallbackSteps
    <3> QED BY <3>1, LinksTold DEF Right
  <2> QED BY <2>1, <2>2
<1>9. ASSUME NEW l \in Link, recorded'[l] # 0
      PROVE  /\ recorded'[l] = 1 /\ gokwik[l] = "paid"
             /\ status'[l] = "success" \/ ("unwritten" \in failed' /\ ~Called(l)')
  <2>1. CASE recorded'[l] = recorded[l]
    BY <1>5, <1>7, <1>9, <2>1 DEF Right
  <2>2. CASE recorded'[l] # recorded[l]
    <3>1. /\ pc[c] = "record" /\ job[c] = l /\ pc'[c] = "done"
          /\ recorded'[l] = recorded[l] + 1 /\ status' = status
      BY <2>2 DEF CallbackSteps
    <3>2. l = c[1] /\ recorded[l] = 0 /\ gokwik[l] = "paid"
          /\ (status[l] = "success" \/ "unwritten" \in failed)
      BY <3>1, LinksTold DEF Right
    <3> QED BY <1>6, <3>1, <3>2
  <2> QED BY <2>1, <2>2
<1>10. ASSUME NEW d \in Callback
       PROVE  /\ pc'[d] = "paid" =>
                   job'[d] = d[1] /\ status'[d[1]] = "created" /\ recorded'[d[1]] = 0
              /\ pc'[d] = "record" =>
                   /\ job'[d] = d[1] /\ recorded'[d[1]] = 0
                   /\ status'[d[1]] = "success" \/ "unwritten" \in failed'
  <2> d[1] \in Link /\ d \in Proc BY DEF Callback
  <2>1. CASE d = c
    <3>1. CASE pc'[c] = "paid"
      <4>1. /\ pc[c] = "ready" /\ status' = status /\ job'[c] \in Link
            /\ status[job'[c]] = "created"
        BY <3>1 DEF CallbackSteps
      <4>2. job'[c] = c[1] BY <1>1, <4>1
      <4>3. recorded'[c[1]] = recorded[c[1]] BY <4>1 DEF CallbackSteps
      <4>4. recorded[c[1]] = 0 BY <1>0, <4>1, <4>2 DEF Right
      <4> QED BY <2>1, <3>1, <4>1, <4>2, <4>3, <4>4
    <3>2. CASE pc'[c] = "record"
      <4>1. /\ pc[c] = "paid" /\ job'[c] = job[c]
            /\ status'[job[c]] = "success" \/ (status' = status /\ "unwritten" \in failed')
        BY <3>2 DEF CallbackSteps
      <4>2. job[c] = c[1] /\ recorded[c[1]] = 0 BY <4>1 DEF Right
      <4>3. recorded'[c[1]] = recorded[c[1]] BY <4>1 DEF CallbackSteps
      <4> QED BY <2>1, <3>2, <4>1, <4>2, <4>3
    <3> QED BY <2>1, <3>1, <3>2
  <2>2. CASE d # c /\ pc[d] \in {"paid", "record"}
    <3>1. c[1] # d[1] BY <1>2, <2>2
    <3>2. pc'[d] = pc[d] /\ job'[d] = job[d] BY <2>2 DEF CallbackSteps
    <3>3. status'[d[1]] = status[d[1]]
      <4> SUFFICES ASSUME status'[d[1]] # status[d[1]] PROVE FALSE
        OBVIOUS
      <4>1. status[d[1]] # "created" BY <1>1, <3>1
      <4>2. pc[c] = "paid" /\ job[c] = d[1] BY <4>1 DEF CallbackSteps
      <4> QED BY <3>1, <4>2 DEF Right
    <3>4. recorded'[d[1]] = recorded[d[1]]
      BY <3>1 DEF CallbackSteps, Right
    <3> QED BY <2>2, <3>2, <3>3, <3>4 DEF Right
  <2>3. CASE d # c /\ pc[d] \notin {"paid", "record"}
    BY <2>3 DEF CallbackSteps
  <2> QED BY <2>1, <2>2, <2>3
<1> QED BY <1>4, <1>8, <1>9, <1>10 DEF Right

\* Only a new link, made while all else is settled, comes to life by a request.
LEMMA StaffAlive ==
  ASSUME LinksTypeInv, LinksGrounds, OneAlive, NEW p \in Staff, StaffSteps(p),
         \/ \E l \in Link : Generate(p, l) /\ AllSettled
         \/ \E l \in Link : CancelLink(p, l) \/ CancelActive(p, l)
         \/ Insert(p) \/ InsertFails(p) \/ CancelAsk(p) \/ CancelWrite(p) \/ Unwritten(p)
  PROVE  OneAlive'
<1> p \in Proc /\ p \notin Callback /\ Callback \subseteq Proc /\ posted \subseteq Callback
  BY LinksAssumption DEF Proc, LinksTypeInv, LinksTypeOK
<1>1. ASSUME NEW l \in Link, Generate(p, l), AllSettled
      PROVE  OneAlive'
  <2>1. \A m \in Link : ~Alive(m) BY <1>1 DEF AllSettled, Alive, Called, Created
  <2>2. \A m \in Link : Alive(m)' => m = l
    BY <1>1, <2>1 DEF Generate, StaffSteps, Alive, Called, LinksTypeInv, LinksTypeOK
  <2> QED BY <2>2 DEF OneAlive
<1>2. ASSUME \A l \in Link : gokwik[l] = "none" => gokwik'[l] = "none"
      PROVE  OneAlive'
  <2>1. ASSUME NEW m \in Link, Alive(m)'
        PROVE  Alive(m)
    <3>1. CASE gokwik'[m] \in {"made", "open"}
      BY <1>2, <3>1 DEF StaffSteps, LinksGrounds, Alive
    <3>2. CASE status'[m] = "created"
      BY <3>2 DEF StaffSteps, LinksGrounds, Alive
    <3>3. ASSUME NEW c \in posted', c[1] = m, pc'[c] # "done"
          PROVE  Alive(m)
      BY <3>3 DEF StaffSteps, Alive, Called
    <3> QED BY <2>1, <3>1, <3>2, <3>3 DEF Alive, Called
  <2> QED BY <2>1 DEF OneAlive
<1>3. ASSUME \/ \E l \in Link : CancelLink(p, l) \/ CancelActive(p, l)
             \/ Insert(p) \/ InsertFails(p) \/ CancelAsk(p) \/ CancelWrite(p) \/ Unwritten(p)
      PROVE  \A l \in Link : gokwik[l] = "none" => gokwik'[l] = "none"
  BY <1>3 DEF LinksGrounds, CancelLink, CancelActive, Insert, InsertFails, CancelAsk,
              CancelWrite, Unwritten, LinksTypeInv, LinksTypeOK
<1> QED BY <1>1, <1>2, <1>3

LEMMA CallbackAlive ==
  ASSUME LinksTypeInv, LinksGrounds, OneAlive, NEW c \in Callback, CallbackSteps(c)
  PROVE  OneAlive'
<1> c \in Proc /\ Callback \subseteq Proc /\ c[1] \in Link /\ posted \subseteq Callback
  BY DEF Proc, Callback, LinksTypeInv, LinksTypeOK
<1>1. ASSUME NEW m \in Link, Alive(m)'
      PROVE  Alive(m)
  <2>1. CASE gokwik'[m] \in {"made", "open"} \/ status'[m] = "created"
    BY <2>1 DEF CallbackSteps, Alive, Callback, Kind
  <2>2. ASSUME NEW d \in posted', d[1] = m, pc'[d] # "done"
        PROVE  Alive(m)
    <3> d \in Proc BY <2>2 DEF CallbackSteps
    <3>1. pc[d] # "done" BY <2>2 DEF CallbackSteps
    <3> QED BY <2>2, <3>1 DEF CallbackSteps, Alive, Called
  <2> QED BY <1>1, <2>1, <2>2 DEF Alive, Called
<1> QED BY <1>1 DEF OneAlive

\* A callback that comes again is of the only link there is, and comes when the
\* first was handled.
LEMMA RedeliverRight ==
  ASSUME LinksTypeInv, LinksGrounds, Right, OneCall, NEW l \in Link, NEW kind \in Kind,
         Redeliver(l, kind), apart', "unwritten" \notin failed', failed \subseteq failed',
         \A m, n \in Made : m = n
  PROVE  OneAlive' /\ Right' /\ OneCall'
<1>1. /\ <<l, kind, 1>> \in posted /\ <<l, kind, 2>> \in Callback
      /\ posted' = posted \cup {<<l, kind, 2>>}
      /\ pc[<<l, kind, 1>>] = "done"
      /\ UNCHANGED <<gokwik, status, recorded, pc, job>>
  BY RedeliverFacts
<1>2. posted \subseteq Callback BY DEF LinksTypeInv, LinksTypeOK
<1>3. gokwik[l] = Result(kind) BY <1>1 DEF LinksGrounds
<1>4. OneAlive'
  <2>1. ASSUME NEW m \in Link, Alive(m)'
        PROVE  m \in Made
    <3>1. \A c \in posted' : gokwik[c[1]] \notin {"none", "made"}
      BY <1>1, <1>2, <1>3 DEF LinksGrounds, Result, Callback, Kind
    <3> QED BY <1>1, <2>1, <3>1 DEF Alive, Called, Made, LinksGrounds
  <2> QED BY <2>1 DEF OneAlive
<1>5. Right' BY <1>1 DEF Right
<1>6. OneCall'
  <2>1. ASSUME NEW d \in posted, d[1] = l, pc[d] # "done"
        PROVE  d = <<l, kind, 2>>
    <3>1. d \in Link \X Kind \X {1, 2} BY <1>2 DEF Callback
    <3>2. gokwik[l] = Result(d[2]) BY <2>1 DEF LinksGrounds
    <3>3. d[2] = kind BY <1>3, <3>1, <3>2 DEF Result, Kind
    <3>4. d = <<l, kind, 1>> \/ d = <<l, kind, 2>> BY <2>1, <3>1, <3>3
    <3> QED BY <1>1, <2>1, <3>4
  <2> QED BY <1>1, <2>1 DEF OneCall
<1> QED BY <1>4, <1>5, <1>6

\* The invariant: as long as links do not overlap one link is alive, and the
\* rows and counts are right.
LinksIInv ==
    LinksTypeInv /\ LinksGrounds /\ (NoOverlap => OneAlive /\ Right /\ OneCall)

LEMMA LinksInitIInv == LinksInit => LinksIInv
<1> SUFFICES ASSUME LinksInit PROVE LinksIInv
  OBVIOUS
<1>1. LinksTypeInv /\ LinksGrounds BY LinksInitTypes, InitGrounds
<1>2. OneAlive /\ OneCall BY DEF LinksInit, OneAlive, OneCall, Alive, Called
<1>3. Right BY DEF LinksInit, Right, Proc
<1> QED BY <1>1, <1>2, <1>3 DEF LinksIInv

LEMMA LinksNextIInv == LinksIInv /\ [LinksNext]_linksVars => LinksIInv'
<1> SUFFICES ASSUME LinksIInv, [LinksNext]_linksVars
             PROVE  LinksIInv'
  OBVIOUS
<1>1. LinksTypeInv' /\ LinksGrounds' BY LinksNextTypes, NextGrounds DEF LinksIInv
<1> SUFFICES ASSUME NoOverlap'
             PROVE  OneAlive' /\ Right' /\ OneCall'
  BY <1>1 DEF LinksIInv
<1>2. /\ LinksTypeInv /\ LinksGrounds /\ OneAlive /\ Right
      /\ OneCall /\ failed \subseteq failed'
      /\ Made \subseteq Made' /\ IsFiniteSet(Made') /\ apart'
  BY OverlapStays DEF LinksIInv
<1>3. ASSUME NEW p \in Staff,
             \/ \E l \in Link : Generate(p, l) \/ CancelLink(p, l) \/ CancelActive(p, l)
             \/ Insert(p) \/ InsertFails(p) \/ CancelAsk(p) \/ CancelWrite(p) \/ Unwritten(p)
      PROVE  OneAlive' /\ Right' /\ OneCall'
  <2>1. StaffSteps(p) BY <1>2, <1>3, StaffFacts
  <2>2. \A l \in Link : Generate(p, l) => AllSettled BY <1>2 DEF Generate
  <2>3. OneAlive' BY <1>2, <1>3, <2>1, <2>2, StaffAlive
  <2>4. Right' /\ OneCall' BY <1>2, <2>1, StaffRight
  <2> QED BY <2>3, <2>4
<1>4. ASSUME NEW c \in Callback,
             Webhook(c) \/ MarkPaid(c) \/ Record(c) \/ Unwritten(c) \/ Unrecorded(c)
      PROVE  OneAlive' /\ Right' /\ OneCall'
  <2>1. CallbackSteps(c) BY <1>2, <1>4, CallbackFacts
  <2>2. OneAlive' BY <1>2, <2>1, CallbackAlive
  <2>3. Right' /\ OneCall' BY <1>2, <2>1, CallbackRight
  <2> QED BY <2>2, <2>3
<1>5. ASSUME NEW l \in Link, NEW kind \in Kind, Close(l, kind)
      PROVE  OneAlive' /\ Right' /\ OneCall'
  <2>1. /\ posted' = posted \cup {<<l, kind, 1>>} /\ gokwik[l] = "open"
        /\ \A m \in Link : m # l => gokwik'[m] = gokwik[m]
        /\ status' = status /\ recorded' = recorded /\ pc' = pc /\ job' = job
    BY <1>2, <1>5, CloseFacts
  <2>2. \A m \in Link : Alive(m)' => Alive(m) BY <2>1 DEF Alive, Called
  <2>3. OneAlive' BY <1>2, <2>2 DEF OneAlive
  <2>4. \A d \in posted : d[1] # l
    <3> SUFFICES ASSUME NEW d \in posted, d[1] = l PROVE FALSE
      OBVIOUS
    <3>1. d[2] \in Kind BY <1>2 DEF LinksTypeInv, LinksTypeOK, Callback
    <3>2. Result(d[2]) # "open" BY <3>1 DEF Result, Kind
    <3> QED BY <1>2, <2>1, <3>2 DEF LinksGrounds
  <2>5. \A m \in Link : gokwik[m] = "paid" => (Called(m)' <=> Called(m))
    BY <2>1 DEF Called
  <2>6. (\A m \in Link :
          /\ status[m] = "success" => gokwik[m] = "paid"
          /\ recorded[m] # 0 =>
                /\ recorded[m] = 1 /\ gokwik[m] = "paid"
                /\ status[m] = "success" \/ ("unwritten" \in failed /\ ~Called(m)))'
    <3> SUFFICES ASSUME NEW m \in Link
                 PROVE  (/\ status[m] = "success" => gokwik[m] = "paid"
                         /\ recorded[m] # 0 =>
                              /\ recorded[m] = 1 /\ gokwik[m] = "paid"
                              /\ \/ status[m] = "success"
                                 \/ "unwritten" \in failed /\ ~Called(m))'
      OBVIOUS
    <3> QED BY <1>2, <2>1, <2>5 DEF Right
  <2>7. Right' BY <1>2, <2>1, <2>6 DEF Right
  <2>8. OneCall' BY <1>2, <2>1, <2>4 DEF OneCall
  <2> QED BY <2>3, <2>7, <2>8
<1>9. ASSUME NEW l \in Link, NEW kind \in Kind, Redeliver(l, kind)
      PROVE  OneAlive' /\ Right' /\ OneCall'
  <2>1. "unwritten" \notin failed' /\ Cardinality(Made') <= 1
    BY <1>9, RedeliverFacts, <1>2 DEF NoOverlap
  <2>2. \A m, n \in Made : m = n
    BY <1>2, <2>1, AtMostOne
  <2> QED BY <1>2, <1>9, <2>1, <2>2, RedeliverRight
<1>6. CASE LinksRestart
  <2>1. \A p \in Proc : pc'[p] = IF pc[p] = "ready" THEN "ready" ELSE "done"
    BY <1>6 DEF LinksRestart
  <2>2. UNCHANGED <<gokwik, status, posted, recorded>> BY <1>6 DEF LinksRestart
  <2>3. posted \subseteq Proc /\ Callback \subseteq Proc
    BY <1>2 DEF LinksTypeInv, LinksTypeOK, Proc
  <2>4. \A m \in Link : Called(m)' => Called(m) BY <2>1, <2>2, <2>3 DEF Called
  <2>5. OneAlive' BY <1>2, <2>2, <2>4 DEF OneAlive, Alive
  <2>6. OneCall' BY <1>2, <2>1, <2>2, <2>3 DEF OneCall
  <2>7. Right' BY <1>2, <2>1, <2>2, <2>3, <2>4 DEF Right
  <2> QED BY <2>5, <2>6, <2>7
<1>7. CASE UNCHANGED linksVars
  BY <1>2, <1>7 DEF linksVars, OneAlive, OneCall, Alive, Called, Right
<1>8. CASE LinksNext
  BY <1>2, <1>3, <1>4, <1>5, <1>6, <1>8, <1>9, LinksSteps
<1> QED BY <1>7, <1>8

LEMMA IInvIsSound == LinksIInv => RecordsSound
  BY DEF LinksIInv, Right, LinksTypeInv, RecordsSound, RightAmountOnce, RightAmount, LinksTypeOK

\* The amount recorded is that of a link that was paid, once, as long as links
\* do not overlap; under failing writes, lost recordings, restarts and repeated
\* callbacks.
THEOREM RecordsSoundHolds == LinksSpec => []RecordsSound
<1> QED BY LinksInitIInv, LinksNextIInv, IInvIsSound, PTL DEF LinksSpec

\* A row marked paid stays paid, as long as links do not overlap.
LEMMA SuccessStep ==
  ASSUME LinksIInv, [LinksNext]_linksVars, NoOverlap'
  PROVE  \A l \in Link : status[l] = "success" => status'[l] = "success"
<1>1. LinksTypeInv /\ LinksGrounds /\ Right BY OverlapStays DEF LinksIInv
<1>2. \A l \in Link : status[l] = "success" => gokwik[l] = "paid" BY <1>1 DEF Right
<1>3. ASSUME NEW p \in Staff, StaffSteps(p), NEW l \in Link, status[l] = "success"
      PROVE  status'[l] = "success"
  BY <1>1, <1>2, <1>3 DEF StaffSteps, LinksGrounds
<1>4. ASSUME NEW c \in Callback, CallbackSteps(c), NEW l \in Link, status[l] = "success"
      PROVE  status'[l] = "success"
  BY <1>4 DEF CallbackSteps
<1>5. CASE LinksNext
  <2>1. \/ \E p \in Staff : StaffSteps(p)
        \/ \E c \in Callback : CallbackSteps(c)
        \/ status' = status
    BY <1>1, <1>5, LinksSteps, StaffFacts, CallbackFacts DEF Close, Redeliver, LinksRestart
  <2> QED BY <1>3, <1>4, <2>1
<1> QED BY <1>5 DEF linksVars

THEOREM SuccessStaysHolds == LinksSpec => SuccessStays
<1>1. LinksIInv /\ [LinksNext]_linksVars =>
        [NoOverlap' =>
           \A l \in Link : status[l] = "success" => status'[l] = "success"]_linksVars
  BY SuccessStep
<1> QED BY <1>1, LinksInitIInv, LinksNextIInv, PTL DEF LinksSpec, SuccessStays
=============================================================================
