--------------------------- MODULE BenefitProofs ---------------------------
(***************************************************************************)
(* The loyalty benefit (LoyaltyBenefit), for any number of codes, drafts,  *)
(* carts and events: a used code stays used, the records agree, and the    *)
(* bonus of the month is good for one purchase.                            *)
(*                                                                         *)
(* What a row, a draft and a request may look like holds whatever happens, *)
(* overlapping and failing requests included (TypeInv).  The rest is built *)
(* on it, one assumption on the troubles after another: requests run one   *)
(* at a time and no call fails (Calm), updates of a draft come in order    *)
(* (Steady), staff wait for them (Prompt), and nothing but repeated        *)
(* presses and deliveries happens (Narrow).                                *)
(***************************************************************************)
EXTENDS LoyaltyBenefit, TLAPS, FiniteSetTheorems

--------------------
(* What everything looks like *)

Tag == {"apply", "remove", "on", "code", "reprice"}
Tier == {"full", "tier", "bonus", "code", "left"}

RowRec == [status : {"none", "pending", "used", "expired"}, cart : Cart \cup {None},
           price : 0..1, bonus : BOOLEAN, promo : BOOLEAN, late : BOOLEAN]
LoyaltyRec == [lines : (Pieces \ Plain) \cup {None}, bonus : BOOLEAN]
DocRec == [state : {"open", "converted"}, lines : Pieces, tags : SUBSET Tag,
           loyalty : LoyaltyRec, code : BOOLEAN, mirror : BOOLEAN, price : Tier,
           changed : BOOLEAN, sent : SUBSET [tags : SUBSET Tag, lines : Pieces]]

ShopRun == [pc : {"live", "benefit", "mint", "insert", "retire", "retired", "answer"},
            cart : Cart, promo : BOOLEAN, via : BOOLEAN, old : Code \cup {None},
            same : SUBSET Code, price : 0..1, bonus : BOOLEAN, code : Code \cup {None}]
HookRun == [pc : {"look", "record", "code", "use", "tidy"}, sale : Code \cup Draft]
SweepRun == [pc : {"expire", "expired", "recheck"}, rows : SUBSET Code, code : Code \cup {None}]
ChainRun == [pc : {"price", "code", "loyalty", "judge", "write", "forget", "forgetOnly",
                   "unmirror", "tags"},
             tags : SUBSET Tag, lines : Pieces, had : BOOLEAN, next : SUBSET Tag,
             bonus : BOOLEAN, code : BOOLEAN]
RunOf(s) == IF s = Shop THEN ShopRun
            ELSE IF s = Hook THEN HookRun
            ELSE IF s = Sweep THEN SweepRun ELSE ChainRun

Tables ==
    /\ row \in [Code -> RowRec]
    /\ node \in [Code -> {"none", "live", "gone"}]
    /\ store \in [Draft -> Seq(BOOLEAN)]
    /\ doc \in [Draft -> DocRec]
    /\ cart \in [Cart -> 0..1]
    /\ member \in BOOLEAN
    /\ case \in Case
    /\ hooks \subseteq Code \cup Draft
    /\ handed \subseteq Code

Requests ==
    /\ run = [s \in Slot |-> run[s]]
    /\ \A s \in Slot : Busy(s) => run[s] \in RunOf(s)
    /\ \A d \in Draft : run[d].pc = "write" => run[d].lines \notin Plain

\* A code that has a row; it never loses it.
Kept(c) == c \in Code /\ row[c].status # "none"

\* Only a code that was minted has a row, is handed out or is used.
RowsKnown ==
    /\ \A c \in Code : row[c].status # "none" => node[c] # "none" /\ row[c].cart \in Cart
    /\ \A c \in Code : row[c].status = "used" => c \in ordered
    /\ ordered \subseteq handed
    /\ \A c \in handed : Kept(c)
    /\ \A c \in hooks : c \in Code => c \in ordered

\* What the requests of the shop, of a sale and of the sweep hold in memory.
ShopKnown ==
    /\ run[Shop].pc = "insert" =>
          /\ run[Shop].code \in Code
          /\ row[run[Shop].code].status = "none" /\ node[run[Shop].code] # "none"
    /\ run[Shop].pc \in {"retire", "retired", "answer"} => Kept(run[Shop].code)
    /\ run[Shop].pc \in {"benefit", "mint", "insert", "retire", "retired", "answer"} =>
          \A c \in run[Shop].same : Kept(c)
    /\ run[Shop].pc = "retired" => Kept(run[Shop].old)

HookKnown ==
    /\ run[Hook].pc \in {"code", "use", "tidy"} => run[Hook].sale \in ordered
    /\ run[Hook].pc \in {"look", "record"} => run[Hook].sale \in Draft

SweepKnown ==
    /\ run[Sweep].pc \in {"expire", "expired"} => \A c \in run[Sweep].rows : Kept(c)
    /\ run[Sweep].pc = "expired" => Kept(run[Sweep].code)

TypeInv == Tables /\ Requests /\ RowsKnown /\ ShopKnown /\ HookKnown /\ SweepKnown

LEMMA SlotsApart ==
    /\ Shop \in Slot /\ Hook \in Slot /\ Sweep \in Slot
    /\ Shop # Hook /\ Shop # Sweep /\ Hook # Sweep
    /\ Shop \notin Draft /\ Hook \notin Draft /\ Sweep \notin Draft
    /\ Draft \subseteq Slot
  BY LoyaltyBenefitAssumption DEF Slot, Shop, Hook, Sweep

LEMMA RunsOf ==
    /\ RunOf(Shop) = ShopRun /\ RunOf(Hook) = HookRun /\ RunOf(Sweep) = SweepRun
    /\ \A d \in Draft : RunOf(d) = ChainRun
  BY SlotsApart DEF RunOf

LEMMA TypeInvTypes == TypeInv => TypeOK
<1> SUFFICES ASSUME TypeInv PROVE TypeOK OBVIOUS
<1>1. Tables /\ RowsKnown BY DEF TypeInv
<1>2. \A d \in Draft : \A i \in DOMAIN store[d] : store[d][i] \in BOOLEAN
  BY <1>1 DEF Tables
<1>3. \A d \in Draft :
          /\ doc[d].state \in {"open", "converted"} /\ doc[d].lines \in Pieces
          /\ doc[d].tags \subseteq {"apply", "remove", "on", "code", "reprice"}
          /\ doc[d].price \in {"full", "tier", "bonus", "code", "left"}
          /\ doc[d].loyalty.lines \in (Pieces \ Plain) \cup {None}
  BY <1>1 DEF Tables, DocRec, LoyaltyRec, Tag, Tier
<1>4. row \in [Code -> [status : {"none", "pending", "used", "expired"}, cart : Cart \cup {None},
                         price : 0..1, bonus : BOOLEAN, promo : BOOLEAN, late : BOOLEAN]]
  BY <1>1 DEF Tables, RowRec
<1>5. /\ \A c \in Code : row[c].status # "none" => node[c] # "none" /\ row[c].cart \in Cart
      /\ ordered \subseteq handed /\ \A c \in handed : row[c].status # "none"
  BY <1>1 DEF RowsKnown, Kept
<1> QED BY <1>1, <1>2, <1>3, <1>4, <1>5 DEF TypeOK, Tables

LEMMA InitTypes == Init => TypeInv
<1> SUFFICES ASSUME Init PROVE TypeInv OBVIOUS
<1>1. /\ run = [s \in Slot |-> [pc |-> "idle"]] /\ row = [c \in Code |-> NoRow]
      /\ node = [c \in Code |-> "none"] /\ cart = [k \in Cart |-> 0] /\ case \in Case
      /\ store = [d \in Draft |-> <<>>] /\ member = TRUE
      /\ hooks = {} /\ handed = {} /\ ordered = {}
  BY DEF Init, Idle
<1>2. \A s \in Slot : run[s].pc = "idle" BY <1>1
<1>3. NoRow \in RowRec BY DEF NoRow, RowRec
<1>4. doc \in [Draft -> DocRec]
  <2>1. NoLoyalty \in LoyaltyRec BY DEF NoLoyalty, LoyaltyRec
  <2>2. \A p \in Pieces \ Plain :
          [state |-> "open", lines |-> p, tags |-> {}, loyalty |-> NoLoyalty,
           code |-> FALSE, mirror |-> FALSE, price |-> "full", changed |-> FALSE,
           sent |-> {}] \in DocRec
    BY <2>1 DEF DocRec, Tag, Tier
  <2> QED BY <2>2 DEF Init
<1>5. Tables BY <1>1, <1>3, <1>4 DEF Tables
<1>6. Requests BY <1>1, <1>2, SlotsApart DEF Requests, Busy
<1>7. RowsKnown BY <1>1 DEF RowsKnown, NoRow
<1>8. ShopKnown /\ HookKnown /\ SweepKnown
  BY <1>2, SlotsApart DEF ShopKnown, HookKnown, SweepKnown
<1> QED BY <1>5, <1>6, <1>7, <1>8 DEF TypeInv

--------------------
(* What a step leaves alone *)

\* Only the request in slot s changes.
OnlySlot(s) ==
    /\ run' = [t \in Slot |-> run'[t]]
    /\ \A t \in Slot \ {s} : run'[t] = run[t]

\* Only draft d changes.
OnlyDoc(d) ==
    /\ doc' \in [Draft -> DocRec]
    /\ \A e \in Draft \ {d} : doc'[e] = doc[e]

\* A step of the chain of a draft, or of staff at it, touches that draft alone.
OnlyDraft(d) ==
    /\ UNCHANGED <<case, row, node, store, cart, member, handed, ordered>>
    /\ OnlySlot(d) /\ OnlyDoc(d)

\* No code gets, or loses, its row or its discount.
SameKept ==
    /\ \A c \in Code : row[c].status = "none" <=> row'[c].status = "none"
    /\ \A c \in Code : node[c] # "none" => node'[c] # "none"
    /\ ordered \subseteq ordered'

LEMMA RequestsMove ==
  ASSUME Requests, NEW s \in Slot, OnlySlot(s),
         run'[s].pc = "idle" \/ run'[s] \in RunOf(s),
         s \in Draft /\ run'[s].pc = "write" => run'[s].lines \notin Plain
  PROVE  Requests'
<1>1. \A t \in Slot : Busy(t)' => run'[t] \in RunOf(t)
  BY DEF Requests, OnlySlot, Busy
<1>2. \A d \in Draft : run'[d].pc = "write" => run'[d].lines \notin Plain
  BY SlotsApart DEF Requests, OnlySlot
<1>3. \A t : RunOf(t)' = RunOf(t)
  BY DEF RunOf, ShopRun, HookRun, SweepRun, ChainRun
<1> QED BY <1>1, <1>2, <1>3 DEF Requests, OnlySlot

LEMMA ShopWaits ==
  ASSUME ShopKnown, SameKept, run'[Shop] = run[Shop]
  PROVE  ShopKnown'
  BY DEF ShopKnown, SameKept, Kept

LEMMA HookWaits ==
  ASSUME HookKnown, ordered \subseteq ordered', run'[Hook] = run[Hook]
  PROVE  HookKnown'
  BY DEF HookKnown

LEMMA SweepWaits ==
  ASSUME SweepKnown, run'[Sweep] = run[Sweep],
         \A c \in Code : row[c].status # "none" => row'[c].status # "none"
  PROVE  SweepKnown'
  BY DEF SweepKnown, Kept

\* A step that touches a draft alone: the rest is as it was.
LEMMA DraftTypes ==
  ASSUME TypeInv, NEW d \in Draft, OnlyDraft(d), hooks' \subseteq hooks \cup Draft,
         run'[d].pc = "idle" \/ run'[d] \in ChainRun,
         run'[d].pc = "write" => run'[d].lines \notin Plain
  PROVE  TypeInv'
<1>1. /\ UNCHANGED <<case, row, node, store, cart, member, handed, ordered>>
      /\ OnlySlot(d) /\ OnlyDoc(d)
  BY DEF OnlyDraft
<1>2. run'[Shop] = run[Shop] /\ run'[Hook] = run[Hook] /\ run'[Sweep] = run[Sweep]
  BY <1>1, SlotsApart DEF OnlySlot
<1>3. Tables' BY <1>1 DEF TypeInv, Tables, OnlyDoc
<1>4. Requests' BY <1>1, RequestsMove, RunsOf, SlotsApart DEF TypeInv
<1>5. RowsKnown' BY <1>1, LoyaltyBenefitAssumption DEF TypeInv, RowsKnown, Kept
<1>6. SameKept BY <1>1 DEF SameKept
<1>7. ShopKnown' /\ HookKnown' /\ SweepKnown'
  BY <1>1, <1>2, <1>6, ShopWaits, HookWaits, SweepWaits DEF TypeInv
<1> QED BY <1>3, <1>4, <1>5, <1>7 DEF TypeInv

--------------------
(* What a step of the chain does *)

\* Its own request and its own draft, field by field.
Moves(d, from, to) ==
    /\ run[d].pc = from /\ run[d] \in ChainRun
    /\ run'[d] = [run[d] EXCEPT !.pc = to]

LEMMA ChainTyped ==
  ASSUME TypeInv, NEW d \in Draft
  PROVE  /\ d \in Slot /\ run = [s \in Slot |-> run[s]] /\ doc \in [Draft -> DocRec]
         /\ doc[d] \in DocRec /\ (run[d].pc # "idle" => run[d] \in ChainRun)
         /\ (run[d].pc = "write" => run[d].lines \notin Plain)
<1>1. d \in Slot BY SlotsApart
<1>2. run = [s \in Slot |-> run[s]] BY DEF TypeInv, Requests
<1>3. run[d].pc # "idle" => run[d] \in ChainRun BY <1>1, RunsOf DEF TypeInv, Requests, Busy
<1>4. run[d].pc = "write" => run[d].lines \notin Plain BY DEF TypeInv, Requests
<1>5. doc \in [Draft -> DocRec] /\ doc[d] \in DocRec BY DEF TypeInv, Tables
<1> QED BY <1>1, <1>2, <1>3, <1>4, <1>5

LEMMA PriceDoes ==
  ASSUME TypeInv, NEW d \in Draft, Price(d)
  PROVE  /\ OnlyDraft(d) /\ hooks' = hooks /\ Moves(d, "price", "code")
         /\ doc'[d] = IF "reprice" \in run[d].tags
                      THEN [doc[d] EXCEPT !.lines = run[d].lines, !.price = PriceOf(d),
                                          !.mirror = MirrorOf(d), !.changed = TRUE,
                                          !.tags = run[d].tags \ {"reprice"}]
                      ELSE doc[d]
<1>0. /\ d \in Slot /\ run = [s \in Slot |-> run[s]] /\ doc \in [Draft -> DocRec]
      /\ doc[d] \in DocRec
  BY ChainTyped
<1>1. run[d].pc = "price" /\ run[d] \in ChainRun BY ChainTyped DEF Price
<1>2. OnlySlot(d) /\ run'[d] = [run[d] EXCEPT !.pc = "code"]
  BY <1>0 DEF Price, Goto, OnlySlot
<1>3. PriceOf(d) \in Tier /\ MirrorOf(d) \in BOOLEAN
  <2>1. doc[d].mirror \in BOOLEAN BY <1>0 DEF DocRec
  <2> QED BY <2>1 DEF PriceOf, MirrorOf, Tier
<1> DEFINE new == [doc[d] EXCEPT !.lines = run[d].lines, !.price = PriceOf(d), !.mirror = MirrorOf(d),
                                 !.tags = run[d].tags \ {"reprice"}, !.changed = TRUE]
<1>4. run[d].tags \ {"reprice"} \in SUBSET Tag /\ run[d].lines \in Pieces BY <1>1 DEF ChainRun
<1>5. new \in DocRec BY <1>0, <1>3, <1>4 DEF DocRec
<1>6. doc' = IF "reprice" \in run[d].tags THEN [doc EXCEPT ![d] = new] ELSE doc
  BY <1>0 DEF Price, DocRec
<1> HIDE DEF new
<1>7. OnlyDoc(d) /\ doc'[d] = IF "reprice" \in run[d].tags THEN new ELSE doc[d]
  BY <1>0, <1>5, <1>6 DEF OnlyDoc
<1>8. UNCHANGED <<case, row, node, store, cart, member, hooks, handed, ordered>> BY DEF Price
<1> QED BY <1>1, <1>2, <1>7, <1>8 DEF OnlyDraft, Moves, new

LEMMA ApplyCodeDoes ==
  ASSUME TypeInv, NEW d \in Draft, ApplyCode(d)
  PROVE  /\ OnlyDraft(d) /\ hooks' = hooks /\ Moves(d, "code", "loyalty")
         /\ \/ "code" \notin run[d].tags /\ doc'[d] = doc[d]
            \/ /\ {"code", "on"} \subseteq run[d].tags
               /\ doc'[d] = [doc[d] EXCEPT !.tags = run[d].tags \ {"code"}, !.changed = TRUE]
            \/ /\ "code" \in run[d].tags /\ "on" \notin run[d].tags
               /\ doc'[d] = [doc[d] EXCEPT !.tags = (run[d].tags \ {"code"}) \cup {"reprice"},
                                           !.code = TRUE, !.changed = TRUE]
<1>0. /\ d \in Slot /\ run = [s \in Slot |-> run[s]] /\ doc \in [Draft -> DocRec]
      /\ doc[d] \in DocRec
  BY ChainTyped
<1>1. run[d].pc = "code" /\ run[d] \in ChainRun BY ChainTyped DEF ApplyCode
<1>2. OnlySlot(d) /\ run'[d] = [run[d] EXCEPT !.pc = "loyalty"]
  BY <1>0 DEF ApplyCode, Goto, OnlySlot
<1>3. UNCHANGED <<case, row, node, store, cart, member, hooks, handed, ordered>> BY DEF ApplyCode
<1> DEFINE refused == [doc[d] EXCEPT !.tags = run[d].tags \ {"code"}, !.changed = TRUE]
           given == [doc[d] EXCEPT !.tags = (run[d].tags \ {"code"}) \cup {"reprice"},
                                   !.code = TRUE, !.changed = TRUE]
<1>4. run[d].tags \ {"code"} \in SUBSET Tag /\ (run[d].tags \ {"code"}) \cup {"reprice"} \in SUBSET Tag
  BY <1>1 DEF ChainRun, Tag
<1>5. refused \in DocRec /\ given \in DocRec BY <1>0, <1>4 DEF DocRec
<1>6. \/ "code" \notin run[d].tags /\ doc' = doc
      \/ {"code", "on"} \subseteq run[d].tags /\ doc' = [doc EXCEPT ![d] = refused]
      \/ /\ "code" \in run[d].tags /\ "on" \notin run[d].tags
         /\ doc' = [doc EXCEPT ![d] = given]
  BY <1>0 DEF ApplyCode, DocRec
<1> HIDE DEF refused, given
<1>7. /\ OnlyDoc(d)
      /\ \/ "code" \notin run[d].tags /\ doc'[d] = doc[d]
         \/ {"code", "on"} \subseteq run[d].tags /\ doc'[d] = refused
         \/ "code" \in run[d].tags /\ "on" \notin run[d].tags /\ doc'[d] = given
  BY <1>0, <1>5, <1>6 DEF OnlyDoc
<1> QED BY <1>1, <1>2, <1>3, <1>7 DEF OnlyDraft, Moves, refused, given

LEMMA ReadDraftDoes ==
  ASSUME TypeInv, NEW d \in Draft, ReadDraft(d)
  PROVE  LET r == run[d]  kept == r.tags \ Ours IN
         /\ OnlyDraft(d) /\ hooks' = hooks /\ doc'[d] = doc[d]
         /\ r.pc = "loyalty" /\ r \in ChainRun
         /\ \/ r.tags \cap Ours = {} /\ run'[d] = Idle
            \/ /\ "on" \in r.tags /\ r.tags \cap {"apply", "remove"} = {} /\ run'[d] = Idle
               /\ ~doc[d].code /\ doc[d].loyalty.lines = r.lines
            \/ /\ r.tags \cap Ours # {}
               /\ run'[d] = [r EXCEPT !.pc = "forget", !.next = kept \cup {"reprice"}]
            \/ /\ "apply" \in r.tags
               /\ run'[d] = [r EXCEPT !.pc = "forgetOnly",
                                      !.next = kept \cup (IF Has(d) THEN {"reprice"} ELSE {})]
            \/ /\ "apply" \in r.tags \/ "on" \in r.tags
               /\ "remove" \notin r.tags
               /\ run'[d] = [r EXCEPT !.pc = "judge", !.had = Has(d)]
            \/ /\ "on" \in r.tags /\ r.tags \cap {"apply", "remove"} = {} /\ ~Has(d)
               /\ run'[d] = [r EXCEPT !.pc = "tags", !.next = r.tags \ {"on"}]
<1>0. /\ d \in Slot /\ run = [s \in Slot |-> run[s]] /\ doc \in [Draft -> DocRec]
      /\ doc[d] \in DocRec
  BY ChainTyped
<1>1. run[d].pc = "loyalty" /\ run[d] \in ChainRun BY ChainTyped DEF ReadDraft
<1>2. UNCHANGED <<case, row, node, store, doc, cart, member, hooks, handed, ordered>> BY DEF ReadDraft
<1>3. OnlyDoc(d) /\ doc'[d] = doc[d] BY <1>0, <1>2 DEF OnlyDoc
<1>4. CASE run[d].tags \cap Ours = {}
  <2>1. run' = [run EXCEPT ![d] = Idle] BY <1>4 DEF ReadDraft, Done, Ours
  <2> QED BY <1>0, <1>1, <1>2, <1>3, <1>4, <2>1 DEF OnlyDraft, OnlySlot
<1>5. CASE "remove" \in run[d].tags
  <2>1. run' = [run EXCEPT ![d].pc = "forget", ![d].next = (run[d].tags \ Ours) \cup {"reprice"}]
    BY <1>5 DEF ReadDraft, TakeOff, Ours
  <2> QED BY <1>0, <1>1, <1>2, <1>3, <1>5, <2>1 DEF OnlyDraft, OnlySlot, Ours, ChainRun
<1>6. CASE "apply" \in run[d].tags /\ "remove" \notin run[d].tags /\ OtherDiscount(d)
  <2>1. run' = [run EXCEPT ![d].pc = "forgetOnly",
                   ![d].next = (run[d].tags \ Ours) \cup (IF Has(d) THEN {"reprice"} ELSE {})]
    BY <1>6 DEF ReadDraft, Refuse, Ours
  <2> QED BY <1>0, <1>1, <1>2, <1>3, <1>6, <2>1 DEF OnlyDraft, OnlySlot, ChainRun
<1>7. CASE "apply" \in run[d].tags /\ "remove" \notin run[d].tags /\ ~OtherDiscount(d)
  <2>1. run' = [run EXCEPT ![d].pc = "judge", ![d].had = Has(d)]
    BY <1>7 DEF ReadDraft, Ours
  <2> QED BY <1>0, <1>1, <1>2, <1>3, <1>7, <2>1 DEF OnlyDraft, OnlySlot, ChainRun
<1>8. CASE "on" \in run[d].tags /\ run[d].tags \cap {"apply", "remove"} = {}
  <2>1. CASE ~Has(d)
    <3>1. run' = [run EXCEPT ![d].pc = "tags", ![d].next = run[d].tags \ {"on"}]
      BY <1>8, <2>1 DEF ReadDraft, Ours
    <3> QED BY <1>0, <1>1, <1>2, <1>3, <1>8, <2>1, <3>1 DEF OnlyDraft, OnlySlot, ChainRun
  <2>2. CASE Has(d) /\ doc[d].code
    <3>1. run' = [run EXCEPT ![d].pc = "forget", ![d].next = (run[d].tags \ Ours) \cup {"reprice"}]
      BY <1>8, <2>2 DEF ReadDraft, TakeOff, Ours
    <3> QED BY <1>0, <1>1, <1>2, <1>3, <1>8, <3>1 DEF OnlyDraft, OnlySlot, Ours, ChainRun
  <2>3. CASE Has(d) /\ ~doc[d].code /\ doc[d].loyalty.lines = run[d].lines
    <3>1. run' = [run EXCEPT ![d] = Idle] BY <1>8, <2>3 DEF ReadDraft, Done, Ours
    <3> QED BY <1>0, <1>1, <1>2, <1>3, <1>8, <2>3, <3>1 DEF OnlyDraft, OnlySlot
  <2>4. CASE Has(d) /\ ~doc[d].code /\ doc[d].loyalty.lines # run[d].lines
    <3>1. run' = [run EXCEPT ![d].pc = "judge", ![d].had = TRUE]
      BY <1>8, <2>4 DEF ReadDraft, Ours
    <3>2. Has(d) = TRUE BY <2>4 DEF Has
    <3> QED BY <1>0, <1>1, <1>2, <1>3, <1>8, <3>1, <3>2 DEF OnlyDraft, OnlySlot, ChainRun
  <2> QED BY <2>1, <2>2, <2>3, <2>4
<1> QED BY <1>4, <1>5, <1>6, <1>7, <1>8 DEF Ours

LEMMA JudgeDoes ==
  ASSUME TypeInv, NEW d \in Draft, Judge(d)
  PROVE  LET r == run[d]  kept == r.tags \ Ours IN
         /\ OnlyDraft(d) /\ hooks' = hooks /\ doc'[d] = doc[d]
         /\ r.pc = "judge" /\ r \in ChainRun
         /\ \/ /\ r.lines \notin Plain
               /\ \E b \in BonusRead(d, {}) : run'[d] = [r EXCEPT !.pc = "write", !.bonus = b]
            \/ /\ "apply" \in r.tags
               /\ run'[d] = [r EXCEPT !.pc = "forgetOnly",
                                      !.next = kept \cup (IF r.had THEN {"reprice"} ELSE {})]
            \/ run'[d] = [r EXCEPT !.pc = "forget", !.next = kept \cup {"reprice"}]
<1>0. /\ d \in Slot /\ run = [s \in Slot |-> run[s]] /\ doc \in [Draft -> DocRec]
      /\ doc[d] \in DocRec
  BY ChainTyped
<1>1. run[d].pc = "judge" /\ run[d] \in ChainRun BY ChainTyped DEF Judge
<1>2. UNCHANGED <<case, row, node, store, doc, cart, member, hooks, handed, ordered>> BY DEF Judge
<1>3. OnlyDoc(d) /\ doc'[d] = doc[d] BY <1>0, <1>2 DEF OnlyDoc
<1>4. CASE member /\ run[d].lines \notin Plain
  <2>1. PICK b \in BonusRead(d, {}) : run' = [run EXCEPT ![d].pc = "write", ![d].bonus = b]
    BY <1>4 DEF Judge
  <2>2. OnlySlot(d) /\ run'[d] = [run[d] EXCEPT !.pc = "write", !.bonus = b]
    BY <1>0, <1>1, <2>1 DEF OnlySlot, ChainRun
  <2> QED BY <1>1, <1>2, <1>3, <1>4, <2>1, <2>2 DEF OnlyDraft
<1>5. CASE ~(member /\ run[d].lines \notin Plain) /\ "apply" \in run[d].tags
  <2>1. run' = [run EXCEPT ![d].pc = "forgetOnly",
                   ![d].next = (run[d].tags \ Ours) \cup (IF run[d].had THEN {"reprice"} ELSE {})]
    BY <1>5 DEF Judge, Refuse
  <2>2. OnlySlot(d) BY <1>0, <2>1 DEF OnlySlot
  <2>3. run'[d] = [run[d] EXCEPT !.pc = "forgetOnly",
                     !.next = (run[d].tags \ Ours) \cup (IF run[d].had THEN {"reprice"} ELSE {})]
    BY <1>0, <1>1, <2>1 DEF ChainRun
  <2> QED BY <1>1, <1>2, <1>3, <1>5, <2>2, <2>3 DEF OnlyDraft
<1>6. CASE ~(member /\ run[d].lines \notin Plain) /\ "apply" \notin run[d].tags
  <2>1. run' = [run EXCEPT ![d].pc = "forget", ![d].next = (run[d].tags \ Ours) \cup {"reprice"}]
    BY <1>6 DEF Judge, TakeOff
  <2>2. OnlySlot(d) BY <1>0, <2>1 DEF OnlySlot
  <2>3. run'[d] = [run[d] EXCEPT !.pc = "forget", !.next = (run[d].tags \ Ours) \cup {"reprice"}]
    BY <1>0, <1>1, <2>1 DEF ChainRun
  <2> QED BY <1>1, <1>2, <1>3, <2>2, <2>3 DEF OnlyDraft
<1> QED BY <1>4, <1>5, <1>6

LEMMA WriteRecordDoes ==
  ASSUME TypeInv, NEW d \in Draft, WriteRecord(d)
  PROVE  LET r == run[d] IN
         /\ OnlyDraft(d) /\ hooks' = hooks
         /\ r.pc = "write" /\ r \in ChainRun /\ r.lines \notin Plain
         /\ doc'[d] = [doc[d] EXCEPT !.loyalty = [lines |-> r.lines, bonus |-> r.bonus]]
         /\ run'[d] = [r EXCEPT !.pc = "tags", !.next = (r.tags \ {"apply"}) \cup {"on", "reprice"}]
<1>0. /\ d \in Slot /\ run = [s \in Slot |-> run[s]] /\ doc \in [Draft -> DocRec]
      /\ doc[d] \in DocRec
  BY ChainTyped
<1>1. run[d].pc = "write" /\ run[d] \in ChainRun /\ run[d].lines \notin Plain
  BY ChainTyped DEF WriteRecord
<1>2. UNCHANGED <<case, row, node, store, cart, member, hooks, handed, ordered>> BY DEF WriteRecord
<1> DEFINE rec == [lines |-> run[d].lines, bonus |-> run[d].bonus]
           new == [doc[d] EXCEPT !.loyalty = rec]
<1>3. rec \in LoyaltyRec BY <1>1 DEF LoyaltyRec, ChainRun
<1> HIDE DEF rec
<1>4. new \in DocRec BY <1>0, <1>3 DEF DocRec
<1>5. doc' = [doc EXCEPT ![d] = new] BY <1>0 DEF WriteRecord, rec
<1> HIDE DEF new
<1>6. OnlyDoc(d) /\ doc'[d] = new BY <1>0, <1>4, <1>5 DEF OnlyDoc
<1>7. run' = [run EXCEPT ![d].pc = "tags", ![d].next = (run[d].tags \ {"apply"}) \cup {"on", "reprice"}]
  BY DEF WriteRecord
<1>8. /\ OnlySlot(d)
      /\ run'[d] = [run[d] EXCEPT !.pc = "tags", !.next = (run[d].tags \ {"apply"}) \cup {"on", "reprice"}]
  BY <1>0, <1>1, <1>7 DEF OnlySlot, ChainRun
<1> QED BY <1>1, <1>2, <1>6, <1>8 DEF OnlyDraft, new, rec

\* The failure of a delete, which leaves the field, is a fault.
LEMMA ForgetDoes ==
  ASSUME TypeInv, NEW d \in Draft, Forget(d)
  PROVE  LET r == run[d] IN
         /\ OnlyDraft(d) /\ hooks' = hooks
         /\ r.pc \in {"forget", "forgetOnly"} /\ r \in ChainRun
         /\ \/ doc'[d] = [doc[d] EXCEPT !.loyalty = NoLoyalty]
            \/ Allowed("fault") /\ doc'[d] = doc[d]
         /\ run'[d] = [r EXCEPT !.pc = IF r.pc = "forget" THEN "unmirror" ELSE "tags"]
<1>0. /\ d \in Slot /\ run = [s \in Slot |-> run[s]] /\ doc \in [Draft -> DocRec]
      /\ doc[d] \in DocRec
  BY ChainTyped
<1>1. run[d].pc \in {"forget", "forgetOnly"} /\ run[d] \in ChainRun
  BY ChainTyped DEF Forget
<1>2. UNCHANGED <<case, row, node, store, cart, member, hooks, handed, ordered>> BY DEF Forget
<1> DEFINE new == [doc[d] EXCEPT !.loyalty = NoLoyalty]
<1>3. new \in DocRec
  <2>1. NoLoyalty \in LoyaltyRec BY DEF NoLoyalty, LoyaltyRec
  <2> QED BY <1>0, <2>1 DEF DocRec
<1>4. \/ doc' = [doc EXCEPT ![d] = new]
      \/ Allowed("fault") /\ doc' = doc
  BY <1>0 DEF Forget
<1> HIDE DEF new
<1>5. OnlyDoc(d) /\ (doc'[d] = new \/ (Allowed("fault") /\ doc'[d] = doc[d]))
  <2>1. CASE doc' = [doc EXCEPT ![d] = new] BY <1>0, <1>3, <2>1 DEF OnlyDoc
  <2>2. CASE Allowed("fault") /\ doc' = doc BY <1>0, <2>2 DEF OnlyDoc
  <2> QED BY <1>4, <2>1, <2>2
<1>6. OnlySlot(d) /\ run'[d] = [run[d] EXCEPT !.pc = IF run[d].pc = "forget" THEN "unmirror" ELSE "tags"]
  BY <1>0 DEF OnlySlot, Forget, Goto
<1> QED BY <1>1, <1>2, <1>5, <1>6 DEF OnlyDraft, new

LEMMA UnmirrorDoes ==
  ASSUME TypeInv, NEW d \in Draft, Unmirror(d)
  PROVE  /\ OnlyDraft(d) /\ hooks' = hooks /\ Moves(d, "unmirror", "tags")
         /\ \/ doc'[d] = [doc[d] EXCEPT !.mirror = FALSE]
            \/ Allowed("fault") /\ doc'[d] = doc[d]
<1>0. /\ d \in Slot /\ run = [s \in Slot |-> run[s]] /\ doc \in [Draft -> DocRec]
      /\ doc[d] \in DocRec
  BY ChainTyped
<1>1. run[d].pc = "unmirror" /\ run[d] \in ChainRun BY ChainTyped DEF Unmirror
<1>2. UNCHANGED <<case, row, node, store, cart, member, hooks, handed, ordered>> BY DEF Unmirror
<1> DEFINE new == [doc[d] EXCEPT !.mirror = FALSE]
<1>3. new \in DocRec BY <1>0 DEF DocRec
<1>4. \/ doc' = [doc EXCEPT ![d] = new]
      \/ Allowed("fault") /\ doc' = doc
  BY <1>0 DEF Unmirror
<1> HIDE DEF new
<1>5. OnlyDoc(d) /\ (doc'[d] = new \/ (Allowed("fault") /\ doc'[d] = doc[d]))
  <2>1. CASE doc' = [doc EXCEPT ![d] = new] BY <1>0, <1>3, <2>1 DEF OnlyDoc
  <2>2. CASE Allowed("fault") /\ doc' = doc BY <1>0, <2>2 DEF OnlyDoc
  <2> QED BY <1>4, <2>1, <2>2
<1>6. OnlySlot(d) /\ run'[d] = [run[d] EXCEPT !.pc = "tags"]
  BY <1>0 DEF OnlySlot, Unmirror, Goto
<1> QED BY <1>1, <1>2, <1>5, <1>6 DEF OnlyDraft, Moves, new

LEMMA WriteTagsDoes ==
  ASSUME TypeInv, NEW d \in Draft, WriteTags(d)
  PROVE  /\ OnlyDraft(d) /\ hooks' = hooks
         /\ run[d].pc = "tags" /\ run[d] \in ChainRun /\ run'[d] = Idle
         /\ doc'[d] = [doc[d] EXCEPT !.tags = run[d].next, !.changed = TRUE]
<1>0. /\ d \in Slot /\ run = [s \in Slot |-> run[s]] /\ doc \in [Draft -> DocRec]
      /\ doc[d] \in DocRec
  BY ChainTyped
<1>1. run[d].pc = "tags" /\ run[d] \in ChainRun BY ChainTyped DEF WriteTags
<1>2. UNCHANGED <<case, row, node, store, cart, member, hooks, handed, ordered>> BY DEF WriteTags
<1> DEFINE new == [doc[d] EXCEPT !.tags = run[d].next, !.changed = TRUE]
<1>3. new \in DocRec BY <1>0, <1>1 DEF DocRec, ChainRun
<1>4. doc' = [doc EXCEPT ![d] = new] BY <1>0 DEF WriteTags, DocRec
<1> HIDE DEF new
<1>5. OnlyDoc(d) /\ doc'[d] = new BY <1>0, <1>3, <1>4 DEF OnlyDoc
<1>6. OnlySlot(d) /\ run'[d] = Idle BY <1>0 DEF OnlySlot, WriteTags, Done
<1> QED BY <1>1, <1>2, <1>5, <1>6 DEF OnlyDraft, new

LEMMA SentTyped ==
  ASSUME NEW o \in DocRec
  PROVE  Sent(o) \in SUBSET [tags : SUBSET Tag, lines : Pieces]
  BY DEF Sent, DocRec

LEMMA ChainStartDoes ==
  ASSUME TypeInv, NEW d \in Draft, ChainStart(d)
  PROVE  /\ OnlyDraft(d) /\ hooks' = hooks /\ CanStart(d)
         /\ doc[d].state = "open" /\ doc[d].changed
         /\ doc'[d] = [doc[d] EXCEPT !.changed = FALSE, !.sent = doc'[d].sent]
         /\ run'[d] = Pass(doc[d])
<1>0. /\ d \in Slot /\ run = [s \in Slot |-> run[s]] /\ doc \in [Draft -> DocRec]
      /\ doc[d] \in DocRec
  BY ChainTyped
<1>2. UNCHANGED <<case, row, node, store, cart, member, hooks, handed, ordered>> BY DEF ChainStart
<1> DEFINE sent == Sent(doc[d])
           new == [doc[d] EXCEPT !.changed = FALSE, !.sent = sent]
<1>3. sent \in SUBSET [tags : SUBSET Tag, lines : Pieces] BY <1>0, SentTyped
<1>4. doc' = [doc EXCEPT ![d] = new] BY <1>0 DEF ChainStart, DocRec
<1> HIDE DEF sent
<1>5. new \in DocRec /\ new.sent = sent BY <1>0, <1>3 DEF DocRec
<1> HIDE DEF new
<1>6. OnlyDoc(d) /\ doc'[d] = new BY <1>0, <1>4, <1>5 DEF OnlyDoc
<1>7. doc'[d] = [doc[d] EXCEPT !.changed = FALSE, !.sent = doc'[d].sent] BY <1>5, <1>6 DEF new
<1>8. OnlySlot(d) /\ run'[d] = Pass(doc[d]) BY <1>0 DEF OnlySlot, ChainStart
<1> QED BY <1>2, <1>6, <1>7, <1>8 DEF OnlyDraft, ChainStart

\* An old update: the pass runs on what the draft once was.
LEMMA ChainAgainDoes ==
  ASSUME TypeInv, NEW d \in Draft, ChainAgain(d)
  PROVE  /\ OnlyDraft(d) /\ hooks' = hooks /\ CanStart(d)
         /\ run'[d].pc = "price" /\ run'[d] \in ChainRun
<1>0. /\ d \in Slot /\ run = [s \in Slot |-> run[s]] /\ doc \in [Draft -> DocRec]
      /\ doc[d] \in DocRec
  BY ChainTyped
<1>1. /\ UNCHANGED <<case, row, node, store, doc, cart, member, hooks, handed, ordered>>
      /\ CanStart(d)
  BY DEF ChainAgain
<1>2. PICK p \in doc[d].sent : run' = [run EXCEPT ![d] = Pass(p)] BY DEF ChainAgain
<1>3. p.tags \in SUBSET Tag /\ p.lines \in Pieces BY <1>0, <1>2 DEF DocRec
<1>4. OnlySlot(d) /\ run'[d] = Pass(p) BY <1>0, <1>2 DEF OnlySlot
<1>5. Pass(p).pc = "price" /\ Pass(p) \in ChainRun BY <1>3 DEF Pass, ChainRun
<1> QED BY <1>0, <1>1, <1>4, <1>5 DEF OnlyDraft, OnlyDoc

--------------------
(* What staff do *)

LEMMA TouchDoes ==
  ASSUME TypeInv, NEW d \in Draft, Touch(d), NEW new \in DocRec, doc' = [doc EXCEPT ![d] = new]
  PROVE  /\ OnlyDraft(d) /\ run' = run /\ doc'[d] = new /\ run[d].pc = "idle"
         /\ doc[d].state = "open" /\ (doc[d].changed => Allowed("early"))
<1>1. d \in Slot /\ run = [s \in Slot |-> run[s]] /\ doc \in [Draft -> DocRec] BY ChainTyped
<1>2. UNCHANGED <<case, row, node, store, cart, member, run, handed, ordered>> /\ run[d].pc = "idle"
  BY DEF Touch, Busy
<1>3. OnlyDoc(d) /\ doc'[d] = new BY <1>1 DEF OnlyDoc
<1>4. OnlySlot(d) BY <1>1, <1>2 DEF OnlySlot
<1> QED BY <1>2, <1>3, <1>4 DEF OnlyDraft, Touch

LEMMA EditDoes ==
  ASSUME TypeInv, NEW d \in Draft, NEW new \in DocRec, Edit(d, new), Touch(d)
  PROVE  /\ OnlyDraft(d) /\ run' = run /\ hooks' = hooks /\ run[d].pc = "idle"
         /\ doc[d].state = "open" /\ (doc[d].changed => Allowed("early"))
         /\ doc'[d] = [new EXCEPT !.sent = doc'[d].sent]
<1> DEFINE sent == Sent(new)
           kept == [new EXCEPT !.sent = sent]
<1>1. sent \in SUBSET [tags : SUBSET Tag, lines : Pieces] BY SentTyped
<1>2. doc' = [doc EXCEPT ![d] = kept] /\ hooks' = hooks BY DEF Edit
<1> HIDE DEF sent
<1>3. kept \in DocRec /\ kept.sent = sent BY <1>1 DEF DocRec
<1> HIDE DEF kept
<1>4. doc'[d] = kept BY <1>2, <1>3, TouchDoes
<1>5. doc'[d] = [new EXCEPT !.sent = doc'[d].sent] BY <1>3, <1>4 DEF kept
<1> QED BY <1>2, <1>3, <1>5, TouchDoes

LEMMA TagDoes ==
  ASSUME TypeInv, NEW d \in Draft, NEW t \in Tag, Touch(d), Edit(d, Tagged(d, t))
  PROVE  /\ OnlyDraft(d) /\ run' = run /\ hooks' = hooks /\ run[d].pc = "idle"
         /\ doc[d].state = "open" /\ (doc[d].changed => Allowed("early"))
         /\ doc'[d] = [doc[d] EXCEPT !.tags = doc[d].tags \cup {t}, !.changed = TRUE,
                               !.sent = doc'[d].sent]
<1>1. doc[d] \in DocRec BY ChainTyped
<1>2. doc[d].tags \cup {t} \in SUBSET Tag BY <1>1 DEF DocRec
<1>3. Tagged(d, t) = [doc[d] EXCEPT !.tags = doc[d].tags \cup {t}, !.changed = TRUE]
  BY <1>1 DEF Tagged, DocRec
<1>4. Tagged(d, t) \in DocRec BY <1>1, <1>2, <1>3 DEF DocRec
<1>5. doc'[d] = [Tagged(d, t) EXCEPT !.sent = doc'[d].sent] BY <1>4, EditDoes
<1>6. doc'[d] = [doc[d] EXCEPT !.tags = doc[d].tags \cup {t}, !.changed = TRUE, !.sent = doc'[d].sent]
  BY <1>1, <1>3, <1>5 DEF DocRec
<1> QED BY <1>4, <1>6, EditDoes

LEMMA TypeCodeDoes ==
  ASSUME TypeInv, NEW d \in Draft, TypeCode(d)
  PROVE  /\ OnlyDraft(d) /\ run' = run /\ hooks' = hooks /\ run[d].pc = "idle"
         /\ doc[d].state = "open" /\ (doc[d].changed => Allowed("early"))
         /\ doc'[d] = [doc[d] EXCEPT !.tags = doc[d].tags \cup {"reprice"}, !.code = TRUE,
                                     !.changed = TRUE, !.sent = doc'[d].sent]
<1>1. doc[d] \in DocRec BY ChainTyped
<1>2. doc[d].tags \cup {"reprice"} \in SUBSET Tag BY <1>1 DEF DocRec, Tag
<1> DEFINE new == [Tagged(d, "reprice") EXCEPT !.code = TRUE]
<1>3. new = [doc[d] EXCEPT !.tags = doc[d].tags \cup {"reprice"}, !.code = TRUE, !.changed = TRUE]
  BY <1>1 DEF Tagged, DocRec
<1>4. new \in DocRec BY <1>1, <1>2, <1>3 DEF DocRec
<1>5. Edit(d, new) /\ Touch(d) BY DEF TypeCode
<1> HIDE DEF new
<1>6. doc'[d] = [new EXCEPT !.sent = doc'[d].sent] BY <1>4, <1>5, EditDoes
<1>7. doc'[d] = [doc[d] EXCEPT !.tags = doc[d].tags \cup {"reprice"}, !.code = TRUE,
                               !.changed = TRUE, !.sent = doc'[d].sent]
  BY <1>1, <1>3, <1>6 DEF DocRec
<1> QED BY <1>4, <1>5, <1>7, EditDoes

LEMMA ChangeLinesDoes ==
  ASSUME TypeInv, NEW d \in Draft, NEW p \in Pieces, ChangeLines(d, p)
  PROVE  /\ OnlyDraft(d) /\ run' = run /\ hooks' = hooks /\ run[d].pc = "idle"
         /\ doc[d].state = "open" /\ (doc[d].changed => Allowed("early"))
         /\ p # doc[d].lines
         /\ doc'[d] = [doc[d] EXCEPT !.lines = p, !.price = "full", !.changed = TRUE,
                               !.sent = doc'[d].sent]
<1>1. doc[d] \in DocRec BY ChainTyped
<1> DEFINE new == [doc[d] EXCEPT !.lines = p, !.price = "full", !.changed = TRUE]
<1>2. new \in DocRec BY <1>1 DEF DocRec, Tier
<1>3. Edit(d, new) /\ Touch(d) /\ p # doc[d].lines BY DEF ChangeLines
<1> HIDE DEF new
<1>4. doc'[d] = [new EXCEPT !.sent = doc'[d].sent] BY <1>2, <1>3, EditDoes
<1>5. doc'[d] = [doc[d] EXCEPT !.lines = p, !.price = "full", !.changed = TRUE, !.sent = doc'[d].sent]
  BY <1>1, <1>4 DEF DocRec, new
<1> QED BY <1>2, <1>3, <1>5, EditDoes

LEMMA ConvertDoes ==
  ASSUME TypeInv, NEW d \in Draft, Convert(d)
  PROVE  /\ OnlyDraft(d) /\ run' = run /\ hooks' = hooks \cup {d} /\ run[d].pc = "idle"
         /\ doc[d].state = "open" /\ (doc[d].changed => Allowed("early"))
         /\ doc'[d] = [doc[d] EXCEPT !.state = "converted"]
<1>1. doc[d] \in DocRec /\ doc \in [Draft -> DocRec] BY ChainTyped
<1> DEFINE new == [doc[d] EXCEPT !.state = "converted"]
<1>2. new \in DocRec BY <1>1 DEF DocRec
<1>3. doc' = [doc EXCEPT ![d] = new] /\ hooks' = hooks \cup {d} /\ Touch(d)
  BY <1>1 DEF Convert
<1> HIDE DEF new
<1>4. OnlyDraft(d) /\ run' = run /\ doc'[d] = new /\ run[d].pc = "idle"
      /\ doc[d].state = "open" /\ (doc[d].changed => Allowed("early"))
  BY <1>2, <1>3, TouchDoes
<1> QED BY <1>3, <1>4 DEF new

Staff(d) == \/ PressApply(d) \/ PressRemove(d) \/ AskCode(d) \/ TypeCode(d) \/ Convert(d)
            \/ \E p \in Pieces : ChangeLines(d, p)

\* What staff do changes the draft, and only a sale is heard of.
LEMMA StaffDoes ==
  ASSUME TypeInv, NEW d \in Draft, Staff(d)
  PROVE  /\ OnlyDraft(d) /\ run' = run /\ run[d].pc = "idle"
         /\ hooks' = hooks \/ (Convert(d) /\ hooks' = hooks \cup {d})
<1>1. {"apply", "remove", "code"} \subseteq Tag BY DEF Tag
<1>2. CASE PressApply(d) BY <1>1, <1>2, TagDoes DEF PressApply
<1>3. CASE PressRemove(d) BY <1>1, <1>3, TagDoes DEF PressRemove
<1>4. CASE AskCode(d) BY <1>1, <1>4, TagDoes DEF AskCode
<1>5. CASE TypeCode(d) BY <1>5, TypeCodeDoes
<1>6. CASE Convert(d) BY <1>6, ConvertDoes
<1>7. CASE \E p \in Pieces : ChangeLines(d, p) BY <1>7, ChangeLinesDoes
<1> QED BY <1>2, <1>3, <1>4, <1>5, <1>6, <1>7 DEF Staff

--------------------
(* Types of the drafts' steps *)

LEMMA StaffTypes ==
  ASSUME TypeInv, NEW d \in Draft, Staff(d)
  PROVE  TypeInv'
  BY StaffDoes, DraftTypes

LEMMA ChainTypes ==
  ASSUME TypeInv, NEW d \in Draft, ChainStart(d) \/ ChainAgain(d) \/ ChainStep(d)
  PROVE  TypeInv' /\ OnlyDraft(d) /\ hooks' = hooks
<1>0. SUFFICES /\ OnlyDraft(d) /\ hooks' = hooks
               /\ run'[d].pc = "idle" \/ run'[d] \in ChainRun
               /\ run'[d].pc = "write" => run'[d].lines \notin Plain
  BY DraftTypes
<1>1. CASE Price(d)
  <2>1. OnlyDraft(d) /\ hooks' = hooks /\ Moves(d, "price", "code") BY <1>1, PriceDoes
  <2> QED BY <2>1 DEF Moves, ChainRun
<1>2. CASE ApplyCode(d)
  <2>1. OnlyDraft(d) /\ hooks' = hooks /\ Moves(d, "code", "loyalty") BY <1>2, ApplyCodeDoes
  <2> QED BY <2>1 DEF Moves, ChainRun
<1>3. CASE ReadDraft(d)
  <2>1. Has(d) \in BOOLEAN BY DEF Has
  <2>2. run[d] \in ChainRun /\ OnlyDraft(d) /\ hooks' = hooks BY <1>3, ReadDraftDoes
  <2>3. /\ (run[d].tags \ Ours) \cup {"reprice"} \in SUBSET Tag
        /\ (run[d].tags \ Ours) \cup (IF Has(d) THEN {"reprice"} ELSE {}) \in SUBSET Tag
        /\ run[d].tags \ {"on"} \in SUBSET Tag
    BY <2>2 DEF ChainRun, Tag
  <2> DEFINE taken == (run[d].tags \ Ours) \cup {"reprice"}
             refused == (run[d].tags \ Ours) \cup (IF Has(d) THEN {"reprice"} ELSE {})
             untagged == run[d].tags \ {"on"}
  <2>4. \/ run'[d] = Idle
        \/ run'[d] = [run[d] EXCEPT !.pc = "forget", !.next = taken]
        \/ run'[d] = [run[d] EXCEPT !.pc = "forgetOnly", !.next = refused]
        \/ run'[d] = [run[d] EXCEPT !.pc = "judge", !.had = Has(d)]
        \/ run'[d] = [run[d] EXCEPT !.pc = "tags", !.next = untagged]
    BY <1>3, ReadDraftDoes
  <2> HIDE DEF taken, refused, untagged
  <2>5. taken \in SUBSET Tag /\ refused \in SUBSET Tag /\ untagged \in SUBSET Tag
    BY <2>3 DEF taken, refused, untagged
  <2>6. run'[d].pc = "idle" \/ (run'[d] \in ChainRun /\ run'[d].pc # "write")
    <3>1. CASE run'[d] = Idle BY <3>1 DEF Idle
    <3>2. CASE run'[d] = [run[d] EXCEPT !.pc = "judge", !.had = Has(d)]
      <4> DEFINE had == Has(d)
      <4> HIDE DEF had
      <4>1. had \in BOOLEAN /\ run'[d] = [run[d] EXCEPT !.pc = "judge", !.had = had]
        BY <2>1, <3>2 DEF had
      <4> QED BY <2>2, <4>1 DEF ChainRun
    <3>3. CASE \/ run'[d] = [run[d] EXCEPT !.pc = "forget", !.next = taken]
               \/ run'[d] = [run[d] EXCEPT !.pc = "forgetOnly", !.next = refused]
               \/ run'[d] = [run[d] EXCEPT !.pc = "tags", !.next = untagged]
      BY <2>2, <2>5, <3>3 DEF ChainRun
    <3> QED BY <2>4, <3>1, <3>2, <3>3
  <2> QED BY <2>2, <2>6
<1>4. CASE Judge(d)
  <2>1. run[d] \in ChainRun /\ OnlyDraft(d) /\ hooks' = hooks BY <1>4, JudgeDoes
  <2>2. BonusRead(d, {}) \subseteq BOOLEAN BY DEF BonusRead, BonusFree
  <2>3. /\ (run[d].tags \ Ours) \cup {"reprice"} \in SUBSET Tag
        /\ (run[d].tags \ Ours) \cup (IF run[d].had THEN {"reprice"} ELSE {}) \in SUBSET Tag
    BY <2>1 DEF ChainRun, Tag
  <2>4. CASE /\ run[d].lines \notin Plain
             /\ \E b \in BonusRead(d, {}) : run'[d] = [run[d] EXCEPT !.pc = "write", !.bonus = b]
    <3>1. PICK b \in BOOLEAN : run'[d] = [run[d] EXCEPT !.pc = "write", !.bonus = b]
      BY <2>2, <2>4
    <3>2. run'[d] \in ChainRun BY <2>1, <3>1 DEF ChainRun
    <3>3. run'[d].lines = run[d].lines BY <2>1, <3>1 DEF ChainRun
    <3> QED BY <2>1, <2>4, <3>2, <3>3
  <2>5. CASE run'[d] = [run[d] EXCEPT !.pc = "forgetOnly",
                          !.next = (run[d].tags \ Ours) \cup (IF run[d].had THEN {"reprice"} ELSE {})]
    BY <2>1, <2>3, <2>5 DEF ChainRun
  <2>6. CASE run'[d] = [run[d] EXCEPT !.pc = "forget", !.next = (run[d].tags \ Ours) \cup {"reprice"}]
    BY <2>1, <2>3, <2>6 DEF ChainRun
  <2> QED BY <1>4, <2>4, <2>5, <2>6, JudgeDoes
<1>5. CASE WriteRecord(d)
  <2>1. (run[d].tags \ {"apply"}) \cup {"on", "reprice"} \in SUBSET Tag
    BY <1>5, WriteRecordDoes DEF ChainRun, Tag
  <2> DEFINE kept == (run[d].tags \ {"apply"}) \cup {"on", "reprice"}
  <2>2. /\ OnlyDraft(d) /\ hooks' = hooks /\ run[d] \in ChainRun
        /\ run'[d] = [run[d] EXCEPT !.pc = "tags", !.next = kept]
    BY <1>5, WriteRecordDoes
  <2>3. kept \in SUBSET Tag BY <2>1
  <2> HIDE DEF kept
  <2>4. run'[d] \in ChainRun /\ run'[d].pc = "tags" BY <2>2, <2>3 DEF ChainRun
  <2> QED BY <2>2, <2>4
<1>6. CASE Forget(d) BY <1>6, ForgetDoes DEF ChainRun
<1>7. CASE Unmirror(d)
  <2>1. OnlyDraft(d) /\ hooks' = hooks /\ Moves(d, "unmirror", "tags") BY <1>7, UnmirrorDoes
  <2> QED BY <2>1 DEF Moves, ChainRun
<1>8. CASE WriteTags(d)
  <2>1. OnlyDraft(d) /\ hooks' = hooks /\ run'[d] = Idle BY <1>8, WriteTagsDoes
  <2> QED BY <2>1 DEF Idle
<1>9. CASE ChainStart(d)
  <2>1. doc[d].tags \in SUBSET Tag /\ doc[d].lines \in Pieces BY ChainTyped DEF DocRec
  <2>2. /\ OnlyDraft(d) /\ hooks' = hooks
        /\ run'[d] = Pass(doc[d])
    BY <1>9, ChainStartDoes
  <2> QED BY <2>1, <2>2 DEF Pass, ChainRun
<1>10. CASE ChainAgain(d) BY <1>10, ChainAgainDoes
<1> QED BY <1>1, <1>2, <1>3, <1>4, <1>5, <1>6, <1>7, <1>8, <1>9, <1>10 DEF ChainStep

--------------------
(* What a request of the shop, a sale and the sweep do *)

OnlyRow(c) ==
    /\ row' \in [Code -> RowRec]
    /\ \A x \in Code \ {c} : row'[x] = row[x]

OnlyNode(c) ==
    /\ node' \in [Code -> {"none", "live", "gone"}]
    /\ \A x \in Code \ {c} : node'[x] = node[x]

\* The row of a code is written, but for its status.
SameTerms(c) ==
    /\ row'[c].cart = row[c].cart /\ row'[c].price = row[c].price
    /\ row'[c].bonus = row[c].bonus /\ row'[c].promo = row[c].promo

LEMMA StatusSet ==
  ASSUME row \in [Code -> RowRec], NEW c \in Code,
         NEW status \in {"none", "pending", "used", "expired"},
         row' = [row EXCEPT ![c].status = status]
  PROVE  /\ OnlyRow(c) /\ SameTerms(c)
         /\ row'[c].status = status /\ row'[c].late = row[c].late
<1> DEFINE new == [row[c] EXCEPT !.status = status]
<1>1. row[c] \in RowRec OBVIOUS
<1>2. /\ new \in RowRec /\ new.status = status /\ new.late = row[c].late
      /\ new.cart = row[c].cart /\ new.price = row[c].price
      /\ new.bonus = row[c].bonus /\ new.promo = row[c].promo
  BY <1>1 DEF RowRec
<1>3. row' = [row EXCEPT ![c] = new] OBVIOUS
<1> HIDE DEF new
<1>4. row' \in [Code -> RowRec] /\ row'[c] = new /\ \A x \in Code \ {c} : row'[x] = row[x]
  BY <1>2, <1>3
<1> QED BY <1>2, <1>4 DEF OnlyRow, SameTerms

LEMMA NodeSet ==
  ASSUME node \in [Code -> {"none", "live", "gone"}], NEW c \in Code,
         NEW v \in {"live", "gone"}, node' = [node EXCEPT ![c] = v]
  PROVE  OnlyNode(c) /\ node'[c] = v
  BY DEF OnlyNode

OnlyShop == UNCHANGED <<case, store, doc, cart, member, hooks, ordered>> /\ OnlySlot(Shop)
OnlyHook == UNCHANGED <<case, doc, cart, member, handed, ordered>> /\ OnlySlot(Hook)
OnlySweep == UNCHANGED <<case, store, doc, cart, member, hooks, handed, ordered>> /\ OnlySlot(Sweep)

LEMMA OthersTyped ==
  ASSUME TypeInv
  PROVE  /\ Shop \in Slot /\ Hook \in Slot /\ Sweep \in Slot
         /\ run = [s \in Slot |-> run[s]]
         /\ row \in [Code -> RowRec] /\ node \in [Code -> {"none", "live", "gone"}]
         /\ run[Shop].pc # "idle" => run[Shop] \in ShopRun
         /\ run[Hook].pc # "idle" => run[Hook] \in HookRun
         /\ run[Sweep].pc # "idle" => run[Sweep] \in SweepRun
<1>1. Shop \in Slot /\ Hook \in Slot /\ Sweep \in Slot BY SlotsApart
<1>2. run = [s \in Slot |-> run[s]] BY DEF TypeInv, Requests
<1>3. row \in [Code -> RowRec] /\ node \in [Code -> {"none", "live", "gone"}]
  BY DEF TypeInv, Tables
<1>4. \A s \in Slot : run[s].pc # "idle" => run[s] \in RunOf(s) BY DEF TypeInv, Requests, Busy
<1> QED BY <1>1, <1>2, <1>3, <1>4, RunsOf

LEMMA AskDoes ==
  ASSUME TypeInv, NEW k \in Cart, NEW promo \in BOOLEAN, Ask(k, promo)
  PROVE  /\ OnlyShop /\ UNCHANGED <<row, node, handed>> /\ CanStart(Shop)
         /\ Allowed("counter") \/ \A d \in Draft : doc[d].state = "open" => ~Has(d) /\ ~Asked(d)
         /\ run'[Shop] \in ShopRun /\ run'[Shop].pc = "live" /\ run'[Shop].price = cart[k]
<1>1. cart[k] \in 0..1 BY DEF TypeInv, Tables
<1>2. run'[Shop] = [pc |-> "live", cart |-> k, promo |-> promo, via |-> FALSE, old |-> None,
                    same |-> {}, price |-> cart[k], bonus |-> FALSE, code |-> None]
  BY OthersTyped DEF Ask
<1>3. run'[Shop] \in ShopRun /\ run'[Shop].pc = "live" /\ run'[Shop].price = cart[k]
  BY <1>1, <1>2 DEF ShopRun
<1>4. OnlyShop /\ UNCHANGED <<row, node, handed>> BY OthersTyped DEF Ask, OnlyShop, OnlySlot
<1> QED BY <1>3, <1>4 DEF Ask

LEMMA ReadLiveDoes ==
  ASSUME TypeInv, ReadLive
  PROVE  /\ OnlyShop /\ UNCHANGED <<row, node, handed>>
         /\ run[Shop].pc = "live" /\ run[Shop] \in ShopRun
         /\ \E live \in SUBSET Code :
               /\ \A c \in live : Pending(c)
               /\ run'[Shop] = [run[Shop] EXCEPT !.same = live, !.pc = "benefit"]
<1> DEFINE live == {c \in Code : Pending(c) /\ row[c].cart = run[Shop].cart}
<1>1. run[Shop].pc = "live" /\ run[Shop] \in ShopRun BY OthersTyped DEF ReadLive
<1>2. live \in SUBSET Code /\ \A c \in live : Pending(c) OBVIOUS
<1>3. run' = [run EXCEPT ![Shop].same = live, ![Shop].pc = "benefit"] BY DEF ReadLive
<1> HIDE DEF live
<1>4. OnlySlot(Shop) /\ run'[Shop] = [run[Shop] EXCEPT !.same = live, !.pc = "benefit"]
  BY <1>1, <1>3, OthersTyped DEF OnlySlot, ShopRun
<1> QED BY <1>1, <1>2, <1>4 DEF OnlyShop, ReadLive

LEMMA ReadBenefitDoes ==
  ASSUME TypeInv, ReadBenefit
  PROVE  /\ OnlyShop /\ UNCHANGED <<row, node, handed>>
         /\ run[Shop].pc = "benefit" /\ run[Shop] \in ShopRun
         /\ \/ run'[Shop] = Idle
            \/ run'[Shop] = [run[Shop] EXCEPT !.pc = "live", !.promo = TRUE, !.via = TRUE]
            \/ /\ run[Shop].promo \/ \A c \in run[Shop].same : ~row[c].promo
               /\ \E b \in BonusRead(None, run[Shop].same) :
                     run'[Shop] = [run[Shop] EXCEPT !.pc = "mint", !.bonus = b]
<1>1. run[Shop].pc = "benefit" /\ run[Shop] \in ShopRun BY OthersTyped DEF ReadBenefit
<1>2. OnlyShop /\ UNCHANGED <<row, node, handed>>
  BY OthersTyped DEF ReadBenefit, OnlyShop, OnlySlot, Done
<1>3. CASE ~member BY <1>1, <1>2, <1>3, OthersTyped DEF ReadBenefit, Done
<1>4. CASE member /\ ~run[Shop].promo /\ \E c \in run[Shop].same : row[c].promo
  <2>1. run' = [run EXCEPT ![Shop].pc = "live", ![Shop].promo = TRUE, ![Shop].via = TRUE]
    BY <1>4 DEF ReadBenefit
  <2> QED BY <1>1, <1>2, <2>1, OthersTyped DEF ShopRun
<1>5. CASE member /\ ~(~run[Shop].promo /\ \E c \in run[Shop].same : row[c].promo)
  <2>1. PICK b \in BonusRead(None, run[Shop].same) :
           run' = [run EXCEPT ![Shop].pc = "mint", ![Shop].bonus = b]
    BY <1>5 DEF ReadBenefit
  <2>2. run'[Shop] = [run[Shop] EXCEPT !.pc = "mint", !.bonus = b]
    BY <1>1, <2>1, OthersTyped DEF ShopRun
  <2> QED BY <1>1, <1>2, <1>5, <2>2
<1> QED BY <1>3, <1>4, <1>5

LEMMA MintDoes ==
  ASSUME TypeInv, Mint
  PROVE  /\ OnlyShop /\ row' = row
         /\ run[Shop].pc = "mint" /\ run[Shop] \in ShopRun
         /\ \/ /\ node' = node /\ run'[Shop] = Idle
               /\ \E c \in run[Shop].same : handed' = handed \cup {c}
            \/ /\ handed' = handed /\ \A c \in Code : ~Reusable(c)
               /\ \E c \in Code : /\ node[c] = "none" /\ node'[c] = "live" /\ OnlyNode(c)
                                  /\ run'[Shop] = [run[Shop] EXCEPT !.pc = "insert", !.code = c]
<1>1. run[Shop].pc = "mint" /\ run[Shop] \in ShopRun BY OthersTyped DEF Mint
<1>2. CASE \E c \in Code : Reusable(c)
  <2>1. /\ \E c \in Code : Reusable(c) /\ handed' = handed \cup {c}
        /\ run' = [run EXCEPT ![Shop] = Idle] /\ node' = node
    BY <1>2 DEF Mint, Done
  <2>2. \E c \in run[Shop].same : handed' = handed \cup {c} BY <2>1 DEF Reusable
  <2>3. OnlySlot(Shop) /\ run'[Shop] = Idle BY <2>1, OthersTyped DEF OnlySlot
  <2> QED BY <1>1, <2>1, <2>2, <2>3 DEF OnlyShop, Mint
<1>3. CASE ~\E c \in Code : Reusable(c)
  <2> DEFINE c == CHOOSE x \in Code : node[x] = "none"
  <2>1. c \in Code /\ node[c] = "none" BY <1>3 DEF Mint
  <2>2. /\ node' = [node EXCEPT ![c] = "live"] /\ handed' = handed
        /\ run' = [run EXCEPT ![Shop].pc = "insert", ![Shop].code = c]
    BY <1>3 DEF Mint
  <2> HIDE DEF c
  <2>3. OnlyNode(c) /\ node'[c] = "live" BY <2>1, <2>2, NodeSet, OthersTyped
  <2>4. OnlySlot(Shop) /\ run'[Shop] = [run[Shop] EXCEPT !.pc = "insert", !.code = c]
    BY <1>1, <2>2, OthersTyped DEF OnlySlot, ShopRun
  <2> QED BY <1>1, <1>3, <2>1, <2>2, <2>3, <2>4 DEF OnlyShop, Mint
<1> QED BY <1>2, <1>3

LEMMA InsertDoes ==
  ASSUME TypeInv, Insert
  PROVE  LET r == run[Shop] IN
         /\ OnlyShop /\ UNCHANGED <<node, handed>>
         /\ r.pc = "insert" /\ r \in ShopRun /\ r.code \in Code
         /\ OnlyRow(r.code)
         /\ row'[r.code] = [status |-> "pending", cart |-> r.cart, price |-> r.price,
                            bonus |-> r.bonus, promo |-> r.promo, late |-> FALSE]
         /\ run'[Shop] = [r EXCEPT !.pc = IF r.promo THEN "retire" ELSE "answer"]
<1>1. run[Shop].pc = "insert" /\ run[Shop] \in ShopRun /\ run[Shop].code \in Code
  BY OthersTyped DEF Insert, TypeInv, ShopKnown
<1> DEFINE new == [status |-> "pending", cart |-> run[Shop].cart, price |-> run[Shop].price,
                   bonus |-> run[Shop].bonus, promo |-> run[Shop].promo, late |-> FALSE]
<1>2. new \in RowRec BY <1>1 DEF ShopRun, RowRec
<1>3. row' = [row EXCEPT ![run[Shop].code] = new] BY DEF Insert
<1> HIDE DEF new
<1>4. OnlyRow(run[Shop].code) /\ row'[run[Shop].code] = new
  BY <1>1, <1>2, <1>3, OthersTyped DEF OnlyRow
<1>5. OnlySlot(Shop) /\ run'[Shop] = [run[Shop] EXCEPT !.pc = IF run[Shop].promo THEN "retire" ELSE "answer"]
  BY OthersTyped DEF OnlySlot, Insert, Goto
<1>6. UNCHANGED <<node, handed>> /\ UNCHANGED <<case, store, doc, cart, member, hooks, ordered>>
  BY DEF Insert
<1> QED BY <1>1, <1>4, <1>5, <1>6 DEF OnlyShop, new

LEMMA RetireDoes ==
  ASSUME TypeInv, Retire
  PROVE  LET r == run[Shop] IN
         /\ OnlyShop /\ UNCHANGED <<row, handed>>
         /\ r.pc = "retire" /\ r \in ShopRun
         /\ \/ r.same = {} /\ node' = node /\ run'[Shop] = [r EXCEPT !.pc = "answer"]
            \/ \E c \in r.same :
                  /\ run'[Shop] = [r EXCEPT !.pc = "retired", !.same = r.same \ {c}, !.old = c]
                  /\ OnlyNode(c)
                  /\ node'[c] = "gone" \/ (Allowed("fault") /\ node' = node)
<1>1. run[Shop].pc = "retire" /\ run[Shop] \in ShopRun BY OthersTyped DEF Retire
<1>2. UNCHANGED <<case, row, store, doc, cart, member, hooks, handed, ordered>> BY DEF Retire
<1>3. CASE run[Shop].same = {}
  <2>1. OnlySlot(Shop) /\ node' = node /\ run'[Shop] = [run[Shop] EXCEPT !.pc = "answer"]
    BY <1>3, OthersTyped DEF Retire, Goto, OnlySlot
  <2> QED BY <1>1, <1>2, <1>3, <2>1 DEF OnlyShop
<1>4. CASE run[Shop].same # {}
  <2>1. PICK c \in run[Shop].same :
           /\ run' = [run EXCEPT ![Shop].pc = "retired", ![Shop].same = @ \ {c}, ![Shop].old = c]
           /\ \/ node' = [node EXCEPT ![c] = "gone"]
              \/ Allowed("fault") /\ node' = node
    BY <1>4 DEF Retire
  <2>2. c \in Code BY <1>1 DEF ShopRun
  <2>3. OnlyNode(c) /\ (node'[c] = "gone" \/ (Allowed("fault") /\ node' = node))
    <3>1. CASE node' = [node EXCEPT ![c] = "gone"] BY <2>2, <3>1, NodeSet, OthersTyped
    <3>2. CASE Allowed("fault") /\ node' = node BY <2>2, <3>2, OthersTyped DEF OnlyNode
    <3> QED BY <2>1, <3>1, <3>2
  <2>4. OnlySlot(Shop) BY <2>1, OthersTyped DEF OnlySlot
  <2>5. run'[Shop] = [run[Shop] EXCEPT !.pc = "retired", !.same = run[Shop].same \ {c}, !.old = c]
    BY <1>1, <2>1, OthersTyped DEF ShopRun
  <2> QED BY <1>1, <1>2, <2>3, <2>4, <2>5 DEF OnlyShop
<1> QED BY <1>3, <1>4

LEMMA RetiredDoes ==
  ASSUME TypeInv, Retired
  PROVE  LET r == run[Shop] IN
         /\ OnlyShop /\ UNCHANGED <<node, handed>>
         /\ r.pc = "retired" /\ r \in ShopRun /\ r.old \in Code
         /\ OnlyRow(r.old) /\ SameTerms(r.old)
         /\ row'[r.old].status = "expired" /\ row'[r.old].late = row[r.old].late
         /\ run'[Shop] = [r EXCEPT !.pc = "retire"]
<1>1. run[Shop].pc = "retired" /\ run[Shop] \in ShopRun /\ run[Shop].old \in Code
  BY OthersTyped DEF Retired, TypeInv, ShopKnown, Kept
<1>2. row' = [row EXCEPT ![run[Shop].old].status = "expired"] BY DEF Retired
<1>3. OnlySlot(Shop) /\ run'[Shop] = [run[Shop] EXCEPT !.pc = "retire"]
  BY OthersTyped DEF OnlySlot, Retired, Goto
<1>4. UNCHANGED <<node, handed>> /\ UNCHANGED <<case, store, doc, cart, member, hooks, ordered>>
  BY DEF Retired
<1> QED BY <1>1, <1>2, <1>3, <1>4, StatusSet, OthersTyped DEF OnlyShop

LEMMA AnswerDoes ==
  ASSUME TypeInv, Answer
  PROVE  /\ OnlyShop /\ UNCHANGED <<row, node>>
         /\ run[Shop].pc = "answer" /\ run[Shop] \in ShopRun
         /\ handed' = handed \cup {run[Shop].code} /\ run'[Shop] = Idle
<1>1. OnlySlot(Shop) /\ run'[Shop] = Idle BY OthersTyped DEF OnlySlot, Answer, Done
<1> QED BY <1>1, OthersTyped DEF Answer, OnlyShop

LEMMA HookStartDoes ==
  ASSUME TypeInv, NEW h \in hooks, HookStart(h)
  PROVE  /\ OnlyHook /\ UNCHANGED <<row, node, store>> /\ CanStart(Hook)
         /\ hooks' = hooks \ {h} \/ (Allowed("again") /\ hooks' = hooks)
         /\ run'[Hook] = [pc |-> IF h \in Draft THEN "look" ELSE "code", sale |-> h]
<1>1. /\ OnlySlot(Hook)
      /\ run'[Hook] = [pc |-> IF h \in Draft THEN "look" ELSE "code", sale |-> h]
  BY OthersTyped DEF OnlySlot, HookStart
<1>2. hooks' = hooks \ {h} \/ (Allowed("again") /\ hooks' = hooks) BY DEF HookStart
<1> QED BY <1>1, <1>2 DEF HookStart, OnlyHook

LEMMA LookStoreDoes ==
  ASSUME TypeInv, LookStore
  PROVE  LET d == run[Hook].sale IN
         /\ OnlyHook /\ UNCHANGED <<row, node, store, hooks>>
         /\ run[Hook].pc = "look" /\ run[Hook] \in HookRun /\ d \in Draft
         /\ \/ /\ "on" \in doc[d].tags /\ store[d] = <<>>
               /\ run'[Hook] = [run[Hook] EXCEPT !.pc = "record"]
            \/ ~("on" \in doc[d].tags /\ store[d] = <<>>) /\ run'[Hook] = Idle
<1>1. run[Hook].pc = "look" /\ run[Hook] \in HookRun /\ run[Hook].sale \in Draft
  BY OthersTyped DEF LookStore, TypeInv, HookKnown
<1>2. UNCHANGED <<case, row, node, store, doc, cart, member, hooks, handed, ordered>>
  BY DEF LookStore
<1>3. CASE "on" \in doc[run[Hook].sale].tags /\ store[run[Hook].sale] = <<>>
  <2>1. OnlySlot(Hook) /\ run'[Hook] = [run[Hook] EXCEPT !.pc = "record"]
    BY <1>3, OthersTyped DEF LookStore, Goto, OnlySlot
  <2> QED BY <1>1, <1>2, <1>3, <2>1 DEF OnlyHook
<1>4. CASE ~("on" \in doc[run[Hook].sale].tags /\ store[run[Hook].sale] = <<>>)
  <2>1. OnlySlot(Hook) /\ run'[Hook] = Idle
    BY <1>4, OthersTyped DEF LookStore, Done, OnlySlot
  <2> QED BY <1>1, <1>2, <1>4, <2>1 DEF OnlyHook
<1> QED BY <1>3, <1>4

LEMMA RecordStoreDoes ==
  ASSUME TypeInv, RecordStore
  PROVE  LET d == run[Hook].sale IN
         /\ OnlyHook /\ UNCHANGED <<row, node, hooks>>
         /\ run[Hook].pc = "record" /\ run[Hook] \in HookRun /\ d \in Draft
         /\ run'[Hook] = Idle
         /\ store' \in [Draft -> Seq(BOOLEAN)] /\ \A e \in Draft \ {d} : store'[e] = store[e]
         /\ store'[d] = IF Has(d) THEN Append(store[d], doc[d].loyalty.bonus) ELSE store[d]
<1> DEFINE d == run[Hook].sale
           new == Append(store[d], doc[d].loyalty.bonus)
<1>1. run[Hook].pc = "record" /\ run[Hook] \in HookRun /\ d \in Draft
  BY OthersTyped DEF RecordStore, TypeInv, HookKnown
<1>2. store \in [Draft -> Seq(BOOLEAN)] /\ doc[d].loyalty.bonus \in BOOLEAN
  BY <1>1 DEF TypeInv, Tables, DocRec, LoyaltyRec
<1>3. new \in Seq(BOOLEAN) BY <1>1, <1>2
<1>4. store' = IF Has(d) THEN [store EXCEPT ![d] = new] ELSE store BY DEF RecordStore
<1>5. OnlySlot(Hook) /\ run'[Hook] = Idle BY OthersTyped DEF OnlySlot, RecordStore, Done
<1>6. UNCHANGED <<case, row, node, doc, cart, member, hooks, handed, ordered>> BY DEF RecordStore
<1> HIDE DEF new
<1>7. /\ store' \in [Draft -> Seq(BOOLEAN)] /\ \A e \in Draft \ {d} : store'[e] = store[e]
      /\ store'[d] = IF Has(d) THEN new ELSE store[d]
  BY <1>1, <1>2, <1>3, <1>4
<1> QED BY <1>1, <1>5, <1>6, <1>7 DEF OnlyHook, new

LEMMA ReadCodeDoes ==
  ASSUME TypeInv, ReadCode
  PROVE  LET c == run[Hook].sale IN
         /\ OnlyHook /\ UNCHANGED <<row, node, store, hooks>>
         /\ run[Hook].pc = "code" /\ run[Hook] \in HookRun /\ c \in ordered
         /\ \/ row[c].status = "used" /\ run'[Hook] = Idle
            \/ run'[Hook] = [run[Hook] EXCEPT !.pc = "use"]
<1>1. run[Hook].pc = "code" /\ run[Hook] \in HookRun /\ run[Hook].sale \in ordered
  BY OthersTyped DEF ReadCode, TypeInv, HookKnown
<1>2. UNCHANGED <<case, row, node, store, doc, cart, member, hooks, handed, ordered>> BY DEF ReadCode
<1>3. CASE row[run[Hook].sale].status = "used"
  <2>1. OnlySlot(Hook) /\ run'[Hook] = Idle BY <1>3, OthersTyped DEF ReadCode, Done, OnlySlot
  <2> QED BY <1>1, <1>2, <1>3, <2>1 DEF OnlyHook
<1>4. CASE row[run[Hook].sale].status # "used"
  <2>1. OnlySlot(Hook) /\ run'[Hook] = [run[Hook] EXCEPT !.pc = "use"]
    BY <1>4, OthersTyped DEF ReadCode, Goto, OnlySlot
  <2> QED BY <1>1, <1>2, <2>1 DEF OnlyHook
<1> QED BY <1>3, <1>4

LEMMA OrderedKept ==
  ASSUME TypeInv
  PROVE  \A c \in ordered : Kept(c) /\ node[c] # "none"
  BY DEF TypeInv, RowsKnown, Kept

LEMMA UseCodeDoes ==
  ASSUME TypeInv, UseCode
  PROVE  LET c == run[Hook].sale IN
         /\ OnlyHook /\ UNCHANGED <<node, store, hooks>>
         /\ run[Hook].pc = "use" /\ run[Hook] \in HookRun /\ c \in ordered
         /\ run'[Hook] = [run[Hook] EXCEPT !.pc = "tidy"]
         /\ OnlyRow(c) /\ SameTerms(c)
         /\ row'[c].status = "used" /\ row'[c].late = row[c].late
<1>1. run[Hook].pc = "use" /\ run[Hook] \in HookRun /\ run[Hook].sale \in ordered
  BY OthersTyped DEF UseCode, TypeInv, HookKnown
<1>2. run[Hook].sale \in Code BY <1>1, OrderedKept DEF Kept
<1>3. row' = [row EXCEPT ![run[Hook].sale].status = "used"] BY DEF UseCode
<1>4. OnlySlot(Hook) /\ run'[Hook] = [run[Hook] EXCEPT !.pc = "tidy"]
  BY OthersTyped DEF OnlySlot, UseCode, Goto
<1>5. UNCHANGED <<case, node, store, doc, cart, member, hooks, handed, ordered>> BY DEF UseCode
<1> QED BY <1>1, <1>2, <1>3, <1>4, <1>5, StatusSet, OthersTyped DEF OnlyHook

LEMMA TidyDoes ==
  ASSUME TypeInv, Tidy
  PROVE  LET c == run[Hook].sale IN
         /\ OnlyHook /\ UNCHANGED <<row, store, hooks>>
         /\ run[Hook].pc = "tidy" /\ run[Hook] \in HookRun /\ c \in ordered
         /\ run'[Hook] = Idle /\ OnlyNode(c) /\ node'[c] = "gone"
<1>1. run[Hook].pc = "tidy" /\ run[Hook] \in HookRun /\ run[Hook].sale \in ordered
  BY OthersTyped DEF Tidy, TypeInv, HookKnown
<1>2. run[Hook].sale \in Code BY <1>1, OrderedKept DEF Kept
<1>3. node' = [node EXCEPT ![run[Hook].sale] = "gone"] BY DEF Tidy
<1>4. OnlySlot(Hook) /\ run'[Hook] = Idle BY OthersTyped DEF OnlySlot, Tidy, Done
<1>5. UNCHANGED <<case, row, store, doc, cart, member, hooks, handed, ordered>> BY DEF Tidy
<1> QED BY <1>1, <1>2, <1>3, <1>4, <1>5, NodeSet, OthersTyped DEF OnlyHook

LEMMA SweepStartDoes ==
  ASSUME TypeInv, SweepStart
  PROVE  /\ OnlySweep /\ UNCHANGED <<row, node>> /\ CanStart(Sweep)
         /\ Lapsed \subseteq Code
         /\ run'[Sweep] = [pc |-> "expire", rows |-> Lapsed, code |-> None]
         /\ run'[Sweep] \in SweepRun
<1>1. OnlySlot(Sweep) /\ run'[Sweep] = [pc |-> "expire", rows |-> Lapsed, code |-> None]
  BY OthersTyped DEF OnlySlot, SweepStart
<1>2. Lapsed \subseteq Code BY DEF Lapsed
<1>3. run'[Sweep] \in SweepRun BY <1>1, <1>2 DEF SweepRun
<1> QED BY <1>1, <1>2, <1>3 DEF SweepStart, OnlySweep

LEMMA ExpireNodeDoes ==
  ASSUME TypeInv, ExpireNode
  PROVE  LET r == run[Sweep] IN
         /\ OnlySweep /\ row' = row
         /\ r.pc = "expire" /\ r \in SweepRun
         /\ \/ node' = node /\ run'[Sweep] = [r EXCEPT !.pc = "recheck"]
            \/ \E c \in r.rows :
                  /\ run'[Sweep] = [r EXCEPT !.pc = "expired", !.code = c, !.rows = r.rows \ {c}]
                  /\ OnlyNode(c) /\ node'[c] = "gone"
<1>1. run[Sweep].pc = "expire" /\ run[Sweep] \in SweepRun BY OthersTyped DEF ExpireNode
<1>2. UNCHANGED <<case, row, store, doc, cart, member, hooks, handed, ordered>> BY DEF ExpireNode
<1>3. CASE run[Sweep].rows = {}
  <2>1. OnlySlot(Sweep) /\ node' = node /\ run'[Sweep] = [run[Sweep] EXCEPT !.pc = "recheck"]
    BY <1>3, OthersTyped DEF ExpireNode, Goto, OnlySlot
  <2> QED BY <1>1, <1>2, <2>1 DEF OnlySweep
<1>4. CASE run[Sweep].rows # {}
  <2>1. PICK c \in run[Sweep].rows :
           /\ node' = [node EXCEPT ![c] = "gone"]
           /\ run' = [run EXCEPT ![Sweep].pc = "expired", ![Sweep].code = c,
                                 ![Sweep].rows = @ \ {c}]
    BY <1>4 DEF ExpireNode
  <2>2. c \in Code BY <1>1 DEF SweepRun
  <2>3. OnlyNode(c) /\ node'[c] = "gone" BY <2>1, <2>2, NodeSet, OthersTyped
  <2>4. OnlySlot(Sweep) BY <2>1, OthersTyped DEF OnlySlot
  <2>5. run'[Sweep] = [run[Sweep] EXCEPT !.pc = "expired", !.code = c, !.rows = run[Sweep].rows \ {c}]
    BY <1>1, <2>1, OthersTyped DEF SweepRun
  <2> QED BY <1>1, <1>2, <2>3, <2>4, <2>5 DEF OnlySweep
<1> QED BY <1>3, <1>4

LEMMA ExpireRowDoes ==
  ASSUME TypeInv, ExpireRow
  PROVE  LET r == run[Sweep] IN
         /\ OnlySweep /\ node' = node
         /\ r.pc = "expired" /\ r \in SweepRun /\ r.code \in Code
         /\ OnlyRow(r.code) /\ SameTerms(r.code)
         /\ row'[r.code].status = "expired" /\ row'[r.code].late = row[r.code].late
         /\ run'[Sweep] = [r EXCEPT !.pc = "expire"]
<1>1. run[Sweep].pc = "expired" /\ run[Sweep] \in SweepRun /\ run[Sweep].code \in Code
  BY OthersTyped DEF ExpireRow, TypeInv, SweepKnown, Kept
<1>2. row' = [row EXCEPT ![run[Sweep].code].status = "expired"] BY DEF ExpireRow
<1>3. OnlySlot(Sweep) /\ run'[Sweep] = [run[Sweep] EXCEPT !.pc = "expire"]
  BY OthersTyped DEF OnlySlot, ExpireRow, Goto
<1>4. UNCHANGED <<case, node, store, doc, cart, member, hooks, handed, ordered>> BY DEF ExpireRow
<1> QED BY <1>1, <1>2, <1>3, <1>4, StatusSet, OthersTyped DEF OnlySweep

LEMMA RecheckDoes ==
  ASSUME TypeInv, Recheck
  PROVE  /\ OnlySweep /\ node' = node
         /\ run[Sweep].pc = "recheck" /\ run[Sweep] \in SweepRun
         /\ \/ row' = row /\ run'[Sweep] = Idle
            \/ /\ run'[Sweep] = run[Sweep]
               /\ \E c \in ordered : /\ c \in Code /\ OnlyRow(c) /\ SameTerms(c)
                                     /\ row'[c].status = "used" /\ row'[c].late = row[c].late
<1>1. run[Sweep].pc = "recheck" /\ run[Sweep] \in SweepRun BY OthersTyped DEF Recheck
<1>2. UNCHANGED <<case, node, store, doc, cart, member, hooks, handed, ordered>> BY DEF Recheck
<1>3. CASE Unsettled = {}
  <2>1. OnlySlot(Sweep) /\ row' = row /\ run'[Sweep] = Idle
    BY <1>3, OthersTyped DEF Recheck, Done, OnlySlot
  <2> QED BY <1>1, <1>2, <2>1 DEF OnlySweep
<1>4. CASE Unsettled # {}
  <2>1. PICK c \in Unsettled : row' = [row EXCEPT ![c].status = "used"] BY <1>4 DEF Recheck
  <2>2. c \in ordered /\ c \in Code BY <2>1, OrderedKept DEF Unsettled, Kept
  <2>3. OnlyRow(c) /\ SameTerms(c) /\ row'[c].status = "used" /\ row'[c].late = row[c].late
    BY <2>1, <2>2, StatusSet, OthersTyped
  <2>4. OnlySlot(Sweep) /\ run'[Sweep] = run[Sweep] BY <1>4, OthersTyped DEF Recheck, OnlySlot
  <2> QED BY <1>1, <1>2, <2>2, <2>3, <2>4 DEF OnlySweep
<1> QED BY <1>3, <1>4

LEMMA LapseDoes ==
  ASSUME TypeInv, NEW c \in Code, Lapse(c)
  PROVE  /\ UNCHANGED <<case, node, store, doc, cart, member, run, hooks, handed, ordered>>
         /\ OnlyRow(c) /\ SameTerms(c) /\ Pending(c) /\ c \notin ordered
         /\ row'[c].status = row[c].status /\ row'[c].late = TRUE
<1> DEFINE new == [row[c] EXCEPT !.late = TRUE]
<1>1. row \in [Code -> RowRec] /\ row[c] \in RowRec BY OthersTyped
<1>2. /\ new \in RowRec /\ new.status = row[c].status /\ new.late = TRUE
      /\ new.cart = row[c].cart /\ new.price = row[c].price
      /\ new.bonus = row[c].bonus /\ new.promo = row[c].promo
  BY <1>1 DEF RowRec
<1>3. row' = [row EXCEPT ![c] = new] BY DEF Lapse
<1> HIDE DEF new
<1>4. row' \in [Code -> RowRec] /\ row'[c] = new /\ \A x \in Code \ {c} : row'[x] = row[x]
  BY <1>1, <1>2, <1>3
<1> QED BY <1>2, <1>4 DEF OnlyRow, SameTerms, Lapse

LEMMA BuyDoes ==
  ASSUME TypeInv, NEW c \in Code, Buy(c)
  PROVE  /\ UNCHANGED <<case, row, node, store, doc, cart, member, run, handed>>
         /\ c \in handed \ ordered /\ node[c] = "live" /\ ~row[c].late
         /\ ordered' = ordered \cup {c} /\ hooks' = hooks \cup {c}
         /\ Allowed("overlap") \/ Quiet
  BY DEF Buy

--------------------
(* Types of the other steps *)

\* What a step does to the rows and the discounts is enough for the rest.
LEMMA RowStays ==
  ASSUME TypeInv, NEW c \in Code, Kept(c), OnlyRow(c), SameTerms(c), UNCHANGED <<node, ordered>>,
         row'[c].status # "none", row'[c].status = "used" => c \in ordered
  PROVE  SameKept /\ (handed' = handed /\ hooks' \subseteq hooks => RowsKnown')
<1>1. \A x \in Code : row'[x].status = "none" <=> row[x].status = "none"
  BY DEF OnlyRow, Kept
<1>2. \A x \in Code : row'[x].cart = row[x].cart BY DEF OnlyRow, SameTerms
<1>3. \A x \in Code : row'[x].status = "used" => x \in ordered
  BY DEF OnlyRow, TypeInv, RowsKnown
<1>4. SameKept BY <1>1 DEF SameKept
<1>5. ASSUME handed' = handed, hooks' \subseteq hooks PROVE RowsKnown'
  <2>1. \A x \in Code : row'[x].status # "none" => node'[x] # "none" /\ row'[x].cart \in Cart
    BY <1>1, <1>2 DEF TypeInv, RowsKnown
  <2>2. \A x \in handed' : Kept(x)'
    BY <1>1, <1>5 DEF TypeInv, RowsKnown, Kept
  <2> QED BY <1>3, <1>5, <2>1, <2>2 DEF TypeInv, RowsKnown
<1> QED BY <1>4, <1>5

LEMMA NodeStays ==
  ASSUME TypeInv, NEW c \in Code, OnlyNode(c), node'[c] # "none", UNCHANGED <<row, ordered>>
  PROVE  SameKept /\ (handed' = handed /\ hooks' \subseteq hooks => RowsKnown')
<1>1. \A x \in Code : node[x] # "none" => node'[x] # "none" BY DEF OnlyNode
<1>2. SameKept BY <1>1 DEF SameKept
<1>3. ASSUME handed' = handed, hooks' \subseteq hooks PROVE RowsKnown'
  BY <1>1, <1>3 DEF TypeInv, RowsKnown, Kept
<1> QED BY <1>2, <1>3

LEMMA ShopTypes ==
  ASSUME TypeInv, ShopStep \/ \E k \in Cart, promo \in BOOLEAN : Ask(k, promo)
  PROVE  TypeInv' /\ OnlyShop
<1> DEFINE r == run[Shop]
<1>0. Tables /\ Requests /\ RowsKnown /\ ShopKnown /\ HookKnown /\ SweepKnown BY DEF TypeInv
<1>1. ASSUME OnlyShop, run'[Shop].pc = "idle" \/ run'[Shop] \in ShopRun,
             row' \in [Code -> RowRec], node' \in [Code -> {"none", "live", "gone"}],
             handed' \subseteq Code,
             \A c \in Code : row[c].status # "none" => row'[c].status # "none"
      PROVE  Tables' /\ Requests' /\ HookKnown' /\ SweepKnown'
  <2>1. run'[Hook] = run[Hook] /\ run'[Sweep] = run[Sweep] BY <1>1, SlotsApart DEF OnlyShop, OnlySlot
  <2>2. UNCHANGED <<case, store, doc, cart, member, hooks, ordered>> /\ OnlySlot(Shop)
    BY <1>1 DEF OnlyShop
  <2>3. Tables' BY <1>0, <1>1, <2>2 DEF Tables
  <2>4. Requests' BY <1>0, <1>1, <2>2, RequestsMove, RunsOf, SlotsApart
  <2>5. HookKnown' BY <1>0, <2>1, <2>2, HookWaits
  <2>6. SweepKnown' BY <1>0, <1>1, <2>1, SweepWaits
  <2> QED BY <2>3, <2>4, <2>5, <2>6
<1>2. row \in [Code -> RowRec] /\ node \in [Code -> {"none", "live", "gone"}] /\ handed \subseteq Code
  BY <1>0 DEF Tables
<1>3. CASE \E k \in Cart, promo \in BOOLEAN : Ask(k, promo)
  <2>1. /\ OnlyShop /\ UNCHANGED <<row, node, handed>>
        /\ run'[Shop] \in ShopRun /\ run'[Shop].pc = "live"
    BY <1>3, AskDoes
  <2>2. RowsKnown' BY <1>0, <2>1 DEF RowsKnown, OnlyShop, Kept
  <2>3. ShopKnown' BY <2>1 DEF ShopKnown
  <2> QED BY <1>1, <1>2, <2>1, <2>2, <2>3 DEF TypeInv
<1>4. CASE ReadLive
  <2>1. /\ OnlyShop /\ UNCHANGED <<row, node, handed>> /\ r \in ShopRun
    BY <1>4, ReadLiveDoes
  <2>2. PICK live \in SUBSET Code : /\ \A c \in live : Pending(c)
                                    /\ run'[Shop] = [r EXCEPT !.same = live, !.pc = "benefit"]
    BY <1>4, ReadLiveDoes
  <2>3. run'[Shop] \in ShopRun /\ run'[Shop].pc = "benefit" /\ run'[Shop].same = live
    BY <2>1, <2>2 DEF ShopRun
  <2>4. RowsKnown' BY <1>0, <2>1 DEF RowsKnown, OnlyShop, Kept
  <2>5. \A c \in live : Kept(c)' BY <2>1, <2>2 DEF Kept, Pending
  <2>6. ShopKnown' BY <2>3, <2>5 DEF ShopKnown
  <2> QED BY <1>1, <1>2, <2>1, <2>3, <2>4, <2>6 DEF TypeInv
<1>5. CASE ReadBenefit
  <2>1. OnlyShop /\ UNCHANGED <<row, node, handed>> /\ r \in ShopRun /\ r.pc = "benefit"
    BY <1>5, ReadBenefitDoes
  <2>2. \/ run'[Shop] = Idle
        \/ run'[Shop] = [r EXCEPT !.pc = "live", !.promo = TRUE, !.via = TRUE]
        \/ \E b \in BOOLEAN : run'[Shop] = [r EXCEPT !.pc = "mint", !.bonus = b]
    <3>1. BonusRead(None, r.same) \subseteq BOOLEAN BY DEF BonusRead, BonusFree
    <3> QED BY <1>5, <3>1, ReadBenefitDoes
  <2>3. \/ run'[Shop].pc = "idle"
        \/ run'[Shop] \in ShopRun /\ run'[Shop].pc \in {"live", "mint"} /\ run'[Shop].same = r.same
    <3>1. CASE run'[Shop] = Idle BY <3>1 DEF Idle
    <3>2. CASE run'[Shop] = [r EXCEPT !.pc = "live", !.promo = TRUE, !.via = TRUE]
      BY <2>1, <3>2 DEF ShopRun
    <3>3. CASE \E b \in BOOLEAN : run'[Shop] = [r EXCEPT !.pc = "mint", !.bonus = b]
      BY <2>1, <3>3 DEF ShopRun
    <3> QED BY <2>2, <3>1, <3>2, <3>3
  <2>4. RowsKnown' BY <1>0, <2>1 DEF RowsKnown, OnlyShop, Kept
  <2>5. ShopKnown' BY <1>0, <2>1, <2>3 DEF ShopKnown, Kept
  <2> QED BY <1>1, <1>2, <2>1, <2>3, <2>4, <2>5 DEF TypeInv
<1>6. CASE Mint
  <2>1. OnlyShop /\ row' = row /\ r \in ShopRun /\ r.pc = "mint" BY <1>6, MintDoes
  <2>2. CASE /\ node' = node /\ run'[Shop] = Idle
             /\ \E c \in r.same : handed' = handed \cup {c}
    <3>1. PICK c \in r.same : handed' = handed \cup {c} BY <2>2
    <3>2. Kept(c) BY <1>0, <2>1, <3>1 DEF ShopKnown
    <3>3. RowsKnown' BY <1>0, <2>1, <2>2, <3>1, <3>2 DEF RowsKnown, OnlyShop, Kept
    <3>4. ShopKnown' BY <2>2 DEF ShopKnown, Idle
    <3> QED BY <1>1, <1>2, <2>1, <2>2, <3>1, <3>2, <3>3, <3>4 DEF TypeInv, Kept, Idle
  <2>3. CASE /\ handed' = handed
             /\ \E c \in Code : /\ node[c] = "none" /\ node'[c] = "live" /\ OnlyNode(c)
                                /\ run'[Shop] = [r EXCEPT !.pc = "insert", !.code = c]
    <3>1. PICK c \in Code : /\ node[c] = "none" /\ node'[c] = "live" /\ OnlyNode(c)
                            /\ run'[Shop] = [r EXCEPT !.pc = "insert", !.code = c]
      BY <2>3
    <3>2. /\ run'[Shop] \in ShopRun /\ run'[Shop].pc = "insert" /\ run'[Shop].code = c
          /\ run'[Shop].same = r.same
      BY <2>1, <3>1 DEF ShopRun
    <3>3. row[c].status = "none" BY <1>0, <3>1 DEF RowsKnown
    <3>4. RowsKnown' BY <2>1, <2>3, <3>1, NodeStays DEF OnlyShop
    <3>5. ShopKnown' BY <1>0, <2>1, <3>1, <3>2, <3>3 DEF ShopKnown, Kept
    <3> QED BY <1>1, <1>2, <2>1, <2>3, <3>1, <3>2, <3>4, <3>5 DEF TypeInv, OnlyNode
  <2> QED BY <1>6, <2>2, <2>3, MintDoes
<1>7. CASE Insert
  <2> DEFINE c == r.code
  <2>1. OnlyShop /\ UNCHANGED <<node, handed>> /\ r \in ShopRun /\ r.pc = "insert" /\ c \in Code
    BY <1>7, InsertDoes
  <2>2. /\ OnlyRow(c)
        /\ row'[c] = [status |-> "pending", cart |-> r.cart, price |-> r.price,
                      bonus |-> r.bonus, promo |-> r.promo, late |-> FALSE]
        /\ run'[Shop] = [r EXCEPT !.pc = IF r.promo THEN "retire" ELSE "answer"]
    BY <1>7, InsertDoes
  <2>3. /\ run'[Shop] \in ShopRun /\ run'[Shop].pc \in {"retire", "answer"}
        /\ run'[Shop].code = c /\ run'[Shop].same = r.same
    BY <2>1, <2>2 DEF ShopRun
  <2>4. row'[c].status = "pending" /\ row'[c].cart \in Cart BY <2>1, <2>2 DEF ShopRun
  <2>5. node[c] # "none" BY <1>0, <2>1 DEF ShopKnown
  <2>6. \A x \in Code : Kept(x) => Kept(x)' BY <2>2, <2>4 DEF OnlyRow, Kept
  <2>7. RowsKnown'
    <3>1. \A x \in Code : row'[x].status # "none" => node'[x] # "none" /\ row'[x].cart \in Cart
      BY <1>0, <2>1, <2>2, <2>4, <2>5 DEF RowsKnown, OnlyRow
    <3>2. \A x \in Code : row'[x].status = "used" => x \in ordered'
      BY <1>0, <2>1, <2>2, <2>4 DEF RowsKnown, OnlyRow, OnlyShop
    <3>3. ordered' = ordered /\ hooks' = hooks BY <2>1 DEF OnlyShop
    <3>4. \A x \in handed' : Kept(x)' BY <1>0, <1>2, <2>1, <2>6 DEF RowsKnown
    <3> QED BY <1>0, <2>1, <3>1, <3>2, <3>3, <3>4 DEF RowsKnown
  <2>8. ShopKnown' BY <1>0, <2>1, <2>3, <2>4, <2>6 DEF ShopKnown, Kept
  <2>9. \A x \in Code : row[x].status # "none" => row'[x].status # "none" BY <2>6 DEF Kept
  <2> QED BY <1>1, <1>2, <2>1, <2>2, <2>3, <2>7, <2>8, <2>9 DEF TypeInv, OnlyRow
<1>8. CASE Retire
  <2>1. OnlyShop /\ UNCHANGED <<row, handed>> /\ r \in ShopRun /\ r.pc = "retire"
    BY <1>8, RetireDoes
  <2>2. CASE node' = node /\ run'[Shop] = [r EXCEPT !.pc = "answer"]
    <3>1. /\ run'[Shop] \in ShopRun /\ run'[Shop].pc = "answer"
          /\ run'[Shop].code = r.code /\ run'[Shop].same = r.same
      BY <2>1, <2>2 DEF ShopRun
    <3>2. RowsKnown' BY <1>0, <2>1, <2>2 DEF RowsKnown, OnlyShop, Kept
    <3>3. ShopKnown' BY <1>0, <2>1, <2>2, <3>1 DEF ShopKnown, Kept
    <3> QED BY <1>1, <1>2, <2>1, <2>2, <3>1, <3>2, <3>3 DEF TypeInv
  <2>3. CASE \E c \in r.same :
                /\ run'[Shop] = [r EXCEPT !.pc = "retired", !.same = r.same \ {c}, !.old = c]
                /\ OnlyNode(c)
                /\ node'[c] = "gone" \/ (Allowed("fault") /\ node' = node)
    <3>1. PICK c \in r.same :
                /\ run'[Shop] = [r EXCEPT !.pc = "retired", !.same = r.same \ {c}, !.old = c]
                /\ OnlyNode(c)
                /\ node'[c] = "gone" \/ (Allowed("fault") /\ node' = node)
      BY <2>3
    <3>2. Kept(c) BY <1>0, <2>1, <3>1 DEF ShopKnown
    <3>3. c \in Code /\ r.same \ {c} \in SUBSET Code BY <2>1, <3>2 DEF Kept, ShopRun
    <3>4. /\ run'[Shop] \in ShopRun /\ run'[Shop].pc = "retired" /\ run'[Shop].old = c
          /\ run'[Shop].code = r.code /\ run'[Shop].same = r.same \ {c}
      BY <2>1, <3>1, <3>3 DEF ShopRun
    <3>5. node'[c] # "none" BY <1>0, <3>1, <3>2 DEF RowsKnown, Kept
    <3>6. RowsKnown' BY <2>1, <3>1, <3>3, <3>5, NodeStays DEF OnlyShop
    <3>7. ShopKnown' BY <1>0, <2>1, <3>2, <3>4 DEF ShopKnown, Kept
    <3> QED BY <1>1, <1>2, <2>1, <3>1, <3>4, <3>6, <3>7 DEF TypeInv, OnlyNode
  <2> QED BY <1>8, <2>2, <2>3, RetireDoes
<1>9. CASE Retired
  <2> DEFINE c == r.old
  <2>1. /\ OnlyShop /\ UNCHANGED <<node, handed>> /\ r \in ShopRun /\ r.pc = "retired"
        /\ c \in Code /\ OnlyRow(c) /\ SameTerms(c) /\ row'[c].status = "expired"
        /\ run'[Shop] = [r EXCEPT !.pc = "retire"]
    BY <1>9, RetiredDoes
  <2>2. /\ run'[Shop] \in ShopRun /\ run'[Shop].pc = "retire"
        /\ run'[Shop].code = r.code /\ run'[Shop].same = r.same
    BY <2>1 DEF ShopRun
  <2>3. Kept(c) BY <1>0, <2>1 DEF ShopKnown
  <2>4. SameKept /\ RowsKnown' BY <2>1, <2>3, RowStays DEF OnlyShop
  <2>5. \A x \in Code : Kept(x) => Kept(x)' BY <2>4 DEF SameKept, Kept
  <2>6. ShopKnown' BY <1>0, <2>1, <2>2, <2>5 DEF ShopKnown, Kept
  <2> QED BY <1>1, <1>2, <2>1, <2>2, <2>4, <2>6 DEF TypeInv, OnlyRow, SameKept
<1>10. CASE Answer
  <2>1. /\ OnlyShop /\ UNCHANGED <<row, node>> /\ r.pc = "answer"
        /\ handed' = handed \cup {r.code} /\ run'[Shop].pc = "idle"
    BY <1>10, AnswerDoes DEF Idle
  <2>2. Kept(r.code) BY <1>0, <2>1 DEF ShopKnown
  <2>3. RowsKnown' BY <1>0, <2>1, <2>2 DEF RowsKnown, OnlyShop, Kept
  <2>4. ShopKnown' BY <2>1 DEF ShopKnown
  <2> QED BY <1>1, <1>2, <2>1, <2>2, <2>3, <2>4 DEF TypeInv, Kept
<1> QED BY <1>3, <1>4, <1>5, <1>6, <1>7, <1>8, <1>9, <1>10 DEF ShopStep

LEMMA HookTypes ==
  ASSUME TypeInv, HookStep \/ \E h \in hooks : HookStart(h)
  PROVE  TypeInv' /\ OnlyHook
<1> DEFINE r == run[Hook]
<1>0. Tables /\ Requests /\ RowsKnown /\ ShopKnown /\ HookKnown /\ SweepKnown BY DEF TypeInv
<1>1. ASSUME OnlyHook, run'[Hook].pc = "idle" \/ run'[Hook] \in HookRun,
             row' \in [Code -> RowRec], node' \in [Code -> {"none", "live", "gone"}],
             store' \in [Draft -> Seq(BOOLEAN)], hooks' \subseteq hooks, SameKept
      PROVE  Tables' /\ Requests' /\ ShopKnown' /\ SweepKnown'
  <2>1. run'[Shop] = run[Shop] /\ run'[Sweep] = run[Sweep] BY <1>1, SlotsApart DEF OnlyHook, OnlySlot
  <2>2. UNCHANGED <<case, doc, cart, member, handed, ordered>> /\ OnlySlot(Hook)
    BY <1>1 DEF OnlyHook
  <2>3. Tables' BY <1>0, <1>1, <2>2 DEF Tables
  <2>4. Requests' BY <1>0, <1>1, <2>2, RequestsMove, RunsOf, SlotsApart
  <2>5. ShopKnown' BY <1>0, <1>1, <2>1, ShopWaits
  <2>6. SweepKnown' BY <1>0, <1>1, <2>1, SweepWaits DEF SameKept
  <2> QED BY <2>3, <2>4, <2>5, <2>6
<1>2. /\ row \in [Code -> RowRec] /\ node \in [Code -> {"none", "live", "gone"}]
      /\ store \in [Draft -> Seq(BOOLEAN)] /\ hooks \subseteq Code \cup Draft
  BY <1>0 DEF Tables
<1>3. CASE \E h \in hooks : HookStart(h)
  <2>1. PICK h \in hooks : HookStart(h) BY <1>3
  <2>2. /\ OnlyHook /\ UNCHANGED <<row, node, store>> /\ hooks' \subseteq hooks
        /\ run'[Hook] = [pc |-> IF h \in Draft THEN "look" ELSE "code", sale |-> h]
    BY <2>1, HookStartDoes
  <2>3. run'[Hook] \in HookRun BY <1>2, <2>2 DEF HookRun
  <2>4. ordered' = ordered /\ handed' = handed BY <2>2 DEF OnlyHook
  <2>5. HookKnown' BY <1>0, <1>2, <2>1, <2>2, <2>4 DEF HookKnown, RowsKnown
  <2>6. RowsKnown' BY <1>0, <2>2, <2>4 DEF RowsKnown, Kept
  <2>7. SameKept BY <2>2, <2>4 DEF SameKept
  <2> QED BY <1>1, <1>2, <2>2, <2>3, <2>5, <2>6, <2>7 DEF TypeInv
<1>4. CASE LookStore
  <2>1. /\ OnlyHook /\ UNCHANGED <<row, node, store, hooks>> /\ r \in HookRun /\ r.pc = "look"
        /\ r.sale \in Draft
        /\ run'[Hook] = Idle \/ run'[Hook] = [r EXCEPT !.pc = "record"]
    BY <1>4, LookStoreDoes
  <2>2. \/ run'[Hook].pc = "idle"
        \/ run'[Hook] \in HookRun /\ run'[Hook].pc = "record" /\ run'[Hook].sale = r.sale
    BY <2>1 DEF HookRun, Idle
  <2>3. ordered' = ordered /\ handed' = handed BY <2>1 DEF OnlyHook
  <2>4. HookKnown' BY <2>1, <2>2 DEF HookKnown
  <2>5. RowsKnown' BY <1>0, <2>1, <2>3 DEF RowsKnown, Kept
  <2>6. SameKept BY <2>1, <2>3 DEF SameKept
  <2> QED BY <1>1, <1>2, <2>1, <2>2, <2>4, <2>5, <2>6 DEF TypeInv
<1>5. CASE RecordStore
  <2>1. /\ OnlyHook /\ UNCHANGED <<row, node, hooks>> /\ run'[Hook].pc = "idle"
        /\ store' \in [Draft -> Seq(BOOLEAN)]
    BY <1>5, RecordStoreDoes DEF Idle
  <2>2. ordered' = ordered /\ handed' = handed BY <2>1 DEF OnlyHook
  <2>3. HookKnown' BY <2>1 DEF HookKnown
  <2>4. RowsKnown' BY <1>0, <2>1, <2>2 DEF RowsKnown, Kept
  <2>5. SameKept BY <2>1, <2>2 DEF SameKept
  <2> QED BY <1>1, <1>2, <2>1, <2>3, <2>4, <2>5 DEF TypeInv
<1>6. CASE ReadCode
  <2>1. /\ OnlyHook /\ UNCHANGED <<row, node, store, hooks>> /\ r \in HookRun /\ r.sale \in ordered
        /\ run'[Hook] = Idle \/ run'[Hook] = [r EXCEPT !.pc = "use"]
    BY <1>6, ReadCodeDoes
  <2>2. \/ run'[Hook].pc = "idle"
        \/ run'[Hook] \in HookRun /\ run'[Hook].pc = "use" /\ run'[Hook].sale = r.sale
    BY <2>1 DEF HookRun, Idle
  <2>3. ordered' = ordered /\ handed' = handed BY <2>1 DEF OnlyHook
  <2>4. HookKnown' BY <2>1, <2>2, <2>3 DEF HookKnown
  <2>5. RowsKnown' BY <1>0, <2>1, <2>3 DEF RowsKnown, Kept
  <2>6. SameKept BY <2>1, <2>3 DEF SameKept
  <2> QED BY <1>1, <1>2, <2>1, <2>2, <2>4, <2>5, <2>6 DEF TypeInv
<1>7. CASE UseCode
  <2> DEFINE c == r.sale
  <2>1. /\ OnlyHook /\ UNCHANGED <<node, store, hooks>> /\ r \in HookRun /\ c \in ordered
        /\ run'[Hook] = [r EXCEPT !.pc = "tidy"]
        /\ OnlyRow(c) /\ SameTerms(c) /\ row'[c].status = "used"
    BY <1>7, UseCodeDoes
  <2>2. run'[Hook] \in HookRun /\ run'[Hook].pc = "tidy" /\ run'[Hook].sale = c
    BY <2>1 DEF HookRun
  <2>3. ordered' = ordered /\ handed' = handed BY <2>1 DEF OnlyHook
  <2>4. HookKnown' BY <2>1, <2>2, <2>3 DEF HookKnown
  <2>5. Kept(c) /\ c \in Code BY <2>1, OrderedKept DEF Kept
  <2>6. SameKept /\ RowsKnown' BY <2>1, <2>3, <2>5, RowStays
  <2> QED BY <1>1, <1>2, <2>1, <2>2, <2>4, <2>6 DEF TypeInv, OnlyRow
<1>8. CASE Tidy
  <2> DEFINE c == r.sale
  <2>1. /\ OnlyHook /\ UNCHANGED <<row, store, hooks>> /\ c \in ordered
        /\ run'[Hook].pc = "idle" /\ OnlyNode(c) /\ node'[c] = "gone"
    BY <1>8, TidyDoes DEF Idle
  <2>2. ordered' = ordered /\ handed' = handed BY <2>1 DEF OnlyHook
  <2>3. HookKnown' BY <2>1 DEF HookKnown
  <2>4. c \in Code BY <2>1, OrderedKept DEF Kept
  <2>5. SameKept /\ RowsKnown' BY <2>1, <2>2, <2>4, NodeStays
  <2> QED BY <1>1, <1>2, <2>1, <2>3, <2>5 DEF TypeInv, OnlyNode
<1> QED BY <1>3, <1>4, <1>5, <1>6, <1>7, <1>8 DEF HookStep

LEMMA SweepTypes ==
  ASSUME TypeInv, SweepStep \/ SweepStart
  PROVE  TypeInv' /\ OnlySweep
<1> DEFINE r == run[Sweep]
<1>0. Tables /\ Requests /\ RowsKnown /\ ShopKnown /\ HookKnown /\ SweepKnown BY DEF TypeInv
<1>1. ASSUME OnlySweep, run'[Sweep].pc = "idle" \/ run'[Sweep] \in SweepRun,
             row' \in [Code -> RowRec], node' \in [Code -> {"none", "live", "gone"}], SameKept
      PROVE  Tables' /\ Requests' /\ ShopKnown' /\ HookKnown'
  <2>1. run'[Shop] = run[Shop] /\ run'[Hook] = run[Hook] BY <1>1, SlotsApart DEF OnlySweep, OnlySlot
  <2>2. UNCHANGED <<case, store, doc, cart, member, hooks, handed, ordered>> /\ OnlySlot(Sweep)
    BY <1>1 DEF OnlySweep
  <2>3. Tables' BY <1>0, <1>1, <2>2 DEF Tables
  <2>4. Requests' BY <1>0, <1>1, <2>2, RequestsMove, RunsOf, SlotsApart
  <2>5. ShopKnown' BY <1>0, <1>1, <2>1, ShopWaits
  <2>6. HookKnown' BY <1>0, <2>1, <2>2, HookWaits
  <2> QED BY <2>3, <2>4, <2>5, <2>6
<1>2. row \in [Code -> RowRec] /\ node \in [Code -> {"none", "live", "gone"}] BY <1>0 DEF Tables
<1>3. OnlySweep => UNCHANGED <<handed, ordered, hooks>> BY DEF OnlySweep
<1>4. CASE SweepStart
  <2>1. /\ OnlySweep /\ UNCHANGED <<row, node>> /\ run'[Sweep] \in SweepRun
        /\ run'[Sweep] = [pc |-> "expire", rows |-> Lapsed, code |-> None]
    BY <1>4, SweepStartDoes
  <2>2. SameKept BY <1>3, <2>1 DEF SameKept
  <2>3. \A c \in Lapsed : Kept(c)' BY <2>1 DEF Lapsed, Kept
  <2>4. run'[Sweep].pc = "expire" /\ run'[Sweep].rows = Lapsed BY <2>1
  <2>5. SweepKnown' BY <2>3, <2>4 DEF SweepKnown
  <2>6. RowsKnown' BY <1>0, <1>3, <2>1 DEF RowsKnown, Kept
  <2> QED BY <1>1, <1>2, <2>1, <2>2, <2>5, <2>6 DEF TypeInv
<1>5. CASE ExpireNode
  <2>1. OnlySweep /\ row' = row /\ r.pc = "expire" /\ r \in SweepRun BY <1>5, ExpireNodeDoes
  <2>2. CASE node' = node /\ run'[Sweep] = [r EXCEPT !.pc = "recheck"]
    <3>1. run'[Sweep] \in SweepRun /\ run'[Sweep].pc = "recheck" BY <2>1, <2>2 DEF SweepRun
    <3>2. SameKept BY <1>3, <2>1, <2>2 DEF SameKept
    <3>3. SweepKnown' BY <3>1 DEF SweepKnown
    <3>4. RowsKnown' BY <1>0, <1>3, <2>1, <2>2 DEF RowsKnown, Kept
    <3> QED BY <1>1, <1>2, <2>1, <2>2, <3>1, <3>2, <3>3, <3>4 DEF TypeInv
  <2>3. CASE \E c \in r.rows :
                /\ run'[Sweep] = [r EXCEPT !.pc = "expired", !.code = c, !.rows = r.rows \ {c}]
                /\ OnlyNode(c) /\ node'[c] = "gone"
    <3>1. PICK c \in r.rows :
                /\ run'[Sweep] = [r EXCEPT !.pc = "expired", !.code = c, !.rows = r.rows \ {c}]
                /\ OnlyNode(c) /\ node'[c] = "gone"
      BY <2>3
    <3>2. Kept(c) /\ c \in Code BY <1>0, <2>1, <3>1 DEF SweepKnown, Kept
    <3>3. r.rows \ {c} \in SUBSET Code BY <2>1 DEF SweepRun
    <3>4. /\ run'[Sweep] \in SweepRun /\ run'[Sweep].pc = "expired" /\ run'[Sweep].code = c
          /\ run'[Sweep].rows = r.rows \ {c}
      BY <2>1, <3>1, <3>2, <3>3 DEF SweepRun
    <3>5. SameKept /\ RowsKnown' BY <1>3, <2>1, <3>1, <3>2, NodeStays
    <3>6. SweepKnown' BY <1>0, <2>1, <3>2, <3>4 DEF SweepKnown, Kept
    <3> QED BY <1>1, <1>2, <2>1, <3>1, <3>4, <3>5, <3>6 DEF TypeInv, OnlyNode
  <2> QED BY <1>5, <2>2, <2>3, ExpireNodeDoes
<1>6. CASE ExpireRow
  <2> DEFINE c == r.code
  <2>1. /\ OnlySweep /\ node' = node /\ r \in SweepRun /\ r.pc = "expired" /\ c \in Code
        /\ OnlyRow(c) /\ SameTerms(c) /\ row'[c].status = "expired"
        /\ run'[Sweep] = [r EXCEPT !.pc = "expire"]
    BY <1>6, ExpireRowDoes
  <2>2. run'[Sweep] \in SweepRun /\ run'[Sweep].pc = "expire" /\ run'[Sweep].rows = r.rows
    BY <2>1 DEF SweepRun
  <2>3. Kept(c) BY <1>0, <2>1 DEF SweepKnown
  <2>4. SameKept /\ RowsKnown' BY <1>3, <2>1, <2>3, RowStays
  <2>5. SweepKnown' BY <1>0, <2>1, <2>2, <2>4 DEF SweepKnown, SameKept, Kept
  <2> QED BY <1>1, <1>2, <2>1, <2>2, <2>4, <2>5 DEF TypeInv, OnlyRow
<1>7. CASE Recheck
  <2>1. OnlySweep /\ node' = node /\ r \in SweepRun /\ r.pc = "recheck" BY <1>7, RecheckDoes
  <2>2. CASE row' = row /\ run'[Sweep] = Idle
    <3>1. SameKept BY <1>3, <2>1, <2>2 DEF SameKept
    <3>2. SweepKnown' BY <2>2 DEF SweepKnown, Idle
    <3>3. RowsKnown' BY <1>0, <1>3, <2>1, <2>2 DEF RowsKnown, Kept
    <3>4. run'[Sweep].pc = "idle" BY <2>2 DEF Idle
    <3> QED BY <1>1, <1>2, <2>1, <2>2, <3>1, <3>2, <3>3, <3>4 DEF TypeInv
  <2>3. CASE /\ run'[Sweep] = r
             /\ \E c \in ordered : /\ c \in Code /\ OnlyRow(c) /\ SameTerms(c)
                                   /\ row'[c].status = "used" /\ row'[c].late = row[c].late
    <3>1. PICK c \in ordered : /\ c \in Code /\ OnlyRow(c) /\ SameTerms(c)
                               /\ row'[c].status = "used"
      BY <2>3
    <3>2. Kept(c) BY <3>1, OrderedKept
    <3>3. SameKept /\ RowsKnown' BY <1>3, <2>1, <3>1, <3>2, RowStays
    <3>4. SweepKnown' BY <2>1, <2>3 DEF SweepKnown
    <3> QED BY <1>1, <1>2, <2>1, <2>3, <3>1, <3>3, <3>4 DEF TypeInv, OnlyRow
  <2> QED BY <1>7, <2>2, <2>3, RecheckDoes
<1> QED BY <1>4, <1>5, <1>6, <1>7 DEF SweepStep

LEMMA EventTypes ==
  ASSUME TypeInv,
         \/ \E k \in Cart : ChangePrice(k)
         \/ \E c \in Code : Lapse(c) \/ Buy(c)
         \/ FallBelow
  PROVE  TypeInv'
<1>0. Tables /\ Requests /\ RowsKnown /\ ShopKnown /\ HookKnown /\ SweepKnown BY DEF TypeInv
<1>1. run' = run => Requests'
  BY <1>0 DEF Requests, Busy, RunOf, ShopRun, HookRun, SweepRun, ChainRun
<1>2. CASE (\E k \in Cart : ChangePrice(k)) \/ FallBelow
  <2>1. /\ UNCHANGED <<case, row, node, store, doc, run, hooks, handed, ordered>>
        /\ cart' \in [Cart -> 0..1] /\ member' \in BOOLEAN
    <3>1. CASE \E k \in Cart : ChangePrice(k) BY <1>0, <3>1 DEF ChangePrice, Tables
    <3>2. CASE FallBelow BY <1>0, <3>2 DEF FallBelow, Tables
    <3> QED BY <1>2, <3>1, <3>2
  <2>2. Tables' /\ RowsKnown' BY <1>0, <2>1 DEF Tables, RowsKnown, Kept
  <2>3. SameKept BY <2>1 DEF SameKept
  <2>4. ShopKnown' /\ HookKnown' /\ SweepKnown'
    BY <1>0, <2>1, <2>3, ShopWaits, HookWaits, SweepWaits
  <2> QED BY <1>1, <2>1, <2>2, <2>4 DEF TypeInv
<1>3. CASE \E c \in Code : Lapse(c)
  <2>1. PICK c \in Code : Lapse(c) BY <1>3
  <2>2. /\ UNCHANGED <<case, node, store, doc, cart, member, run, hooks, handed, ordered>>
        /\ OnlyRow(c) /\ SameTerms(c) /\ Pending(c) /\ row'[c].status = row[c].status
    BY <2>1, LapseDoes
  <2>3. Kept(c) BY <2>2 DEF Kept, Pending
  <2>4. SameKept /\ RowsKnown' BY <2>2, <2>3, RowStays DEF Kept, Pending
  <2>5. Tables' BY <1>0, <2>2 DEF Tables, OnlyRow
  <2>6. ShopKnown' /\ HookKnown' /\ SweepKnown'
    BY <1>0, <2>2, <2>4, ShopWaits, HookWaits, SweepWaits DEF SameKept
  <2> QED BY <1>1, <2>2, <2>4, <2>5, <2>6 DEF TypeInv
<1>4. CASE \E c \in Code : Buy(c)
  <2>1. PICK c \in Code : Buy(c) BY <1>4
  <2>2. /\ UNCHANGED <<case, row, node, store, doc, cart, member, run, handed>>
        /\ c \in handed /\ ordered' = ordered \cup {c} /\ hooks' = hooks \cup {c}
    BY <2>1, BuyDoes
  <2>3. Tables' BY <1>0, <2>2 DEF Tables
  <2>4. RowsKnown' BY <1>0, <2>2 DEF RowsKnown, Kept
  <2>5. SameKept BY <2>2 DEF SameKept
  <2>6. ShopKnown' /\ HookKnown' /\ SweepKnown'
    BY <1>0, <2>2, <2>5, ShopWaits, HookWaits, SweepWaits DEF SameKept
  <2> QED BY <1>1, <2>2, <2>3, <2>4, <2>6 DEF TypeInv
<1> QED BY <1>2, <1>3, <1>4

\* A call fails: whoever made it goes on, or gives up.
LEMMA FailTypes ==
  ASSUME TypeInv, NEW s \in Slot, Fails(s)
  PROVE  TypeInv'
<1>0. Tables /\ Requests /\ RowsKnown /\ ShopKnown /\ HookKnown /\ SweepKnown BY DEF TypeInv
<1>1. /\ UNCHANGED <<case, row, store, doc, cart, member, hooks, handed, ordered>>
      /\ run[s].pc # "idle" /\ run = [t \in Slot |-> run[t]] /\ run[s] \in RunOf(s)
      /\ node \in [Code -> {"none", "live", "gone"}]
  BY <1>0 DEF Fails, Busy, Requests, Tables
<1>2. s = Shop \/ s = Hook \/ s = Sweep \/ s \in Draft BY DEF Slot
<1>3. ASSUME node' \in [Code -> {"none", "live", "gone"}],
             \A c \in Code : node[c] # "none" => node'[c] # "none",
             OnlySlot(s),
             \/ run'[s].pc = "idle"
             \/ /\ s = Shop /\ run'[s] \in RunOf(s)
                /\ run'[s].same = run[s].same /\ run'[s].code = run[s].code
                /\ \/ run'[s].pc = "mint" /\ run[s].pc \in {"mint", "insert"}
                   \/ run'[s].pc = "retire" /\ run[s].pc = "retired"
             \/ s \in Draft /\ run'[s] \in RunOf(s) /\ run'[s].pc # "write"
      PROVE  TypeInv'
  <2>1. Tables' BY <1>0, <1>1, <1>3 DEF Tables
  <2>2. Requests' BY <1>0, <1>3, RequestsMove
  <2>3. SameKept BY <1>1, <1>3 DEF SameKept
  <2>4. RowsKnown' BY <1>0, <1>1, <1>3 DEF RowsKnown, Kept
  <2>5. ShopKnown'
    <3>1. CASE s # Shop
      <4>1. run'[Shop] = run[Shop] BY <1>3, <3>1, SlotsApart DEF OnlySlot
      <4> QED BY <1>0, <2>3, <4>1, ShopWaits
    <3>2. CASE s = Shop /\ run'[s].pc = "idle" BY <3>2 DEF ShopKnown
    <3>3. CASE s = Shop /\ run'[s].pc # "idle"
      BY <1>0, <1>1, <1>3, <3>3, SlotsApart DEF ShopKnown, Kept
    <3> QED BY <3>1, <3>2, <3>3
  <2>6. HookKnown'
    <3>1. CASE s # Hook
      <4>1. run'[Hook] = run[Hook] BY <1>3, <3>1, SlotsApart DEF OnlySlot
      <4> QED BY <1>0, <1>1, <4>1, HookWaits
    <3>2. CASE s = Hook
      <4>1. run'[Hook].pc = "idle" BY <1>3, <3>2, SlotsApart
      <4> QED BY <4>1 DEF HookKnown
    <3> QED BY <3>1, <3>2
  <2>7. SweepKnown'
    <3>1. CASE s # Sweep
      <4>1. run'[Sweep] = run[Sweep] BY <1>3, <3>1, SlotsApart DEF OnlySlot
      <4> QED BY <1>0, <1>1, <4>1, SweepWaits
    <3>2. CASE s = Sweep
      <4>1. run'[Sweep].pc = "idle" BY <1>3, <3>2, SlotsApart
      <4> QED BY <4>1 DEF SweepKnown
    <3> QED BY <3>1, <3>2
  <2> QED BY <2>1, <2>2, <2>4, <2>5, <2>6, <2>7 DEF TypeInv
<1>4. CASE node' = node /\ run' = [run EXCEPT ![s] = Idle]
  <2>1. OnlySlot(s) /\ run'[s].pc = "idle" BY <1>1, <1>4 DEF OnlySlot, Idle
  <2> QED BY <1>1, <1>3, <1>4, <2>1
<1>5. CASE node' = node /\ run' = [run EXCEPT ![s].pc = "code"] /\ run[s].pc = "price"
  <2>1. s \in Draft
    <3>1. \A r \in ShopRun \cup HookRun \cup SweepRun : r.pc # "price"
      BY DEF ShopRun, HookRun, SweepRun
    <3>2. s \notin Draft => RunOf(s) \in {ShopRun, HookRun, SweepRun} BY <1>2, RunsOf
    <3> QED BY <1>1, <1>5, <3>1, <3>2
  <2>2. OnlySlot(s) /\ run'[s] = [run[s] EXCEPT !.pc = "code"] BY <1>1, <1>5 DEF OnlySlot
  <2>3. run'[s] \in RunOf(s) /\ run'[s].pc # "write"
    <3>1. RunOf(s) = ChainRun BY <2>1, RunsOf
    <3> QED BY <1>1, <2>2, <3>1 DEF ChainRun
  <2> QED BY <1>1, <1>3, <1>5, <2>1, <2>2, <2>3
<1>6. CASE node' = node /\ run' = [run EXCEPT ![s].pc = "loyalty"] /\ s \in Draft
  <2>2. OnlySlot(s) /\ run'[s] = [run[s] EXCEPT !.pc = "loyalty"] BY <1>1, <1>6 DEF OnlySlot
  <2>3. run'[s] \in RunOf(s) /\ run'[s].pc # "write"
    <3>1. RunOf(s) = ChainRun BY <1>6, RunsOf
    <3> QED BY <1>1, <2>2, <3>1 DEF ChainRun
  <2> QED BY <1>1, <1>3, <1>6, <2>2, <2>3
<1>7. CASE node' = node /\ run' = [run EXCEPT ![s].pc = "retire"] /\ s = Shop /\ run[s].pc = "retired"
  <2>2. OnlySlot(s) /\ run'[s] = [run[s] EXCEPT !.pc = "retire"] BY <1>1, <1>7 DEF OnlySlot
  <2>3. /\ run'[s] \in RunOf(s) /\ run'[s].pc = "retire"
        /\ run'[s].same = run[s].same /\ run'[s].code = run[s].code
    BY <1>1, <1>7, <2>2, RunsOf DEF ShopRun
  <2> QED BY <1>1, <1>3, <1>7, <2>2, <2>3
<1>8. CASE /\ s = Shop /\ run[s].pc \in {"mint", "insert"}
           /\ node' = IF run[s].pc = "insert" THEN [node EXCEPT ![run[s].code] = "gone"] ELSE node
           /\ \/ run' = [run EXCEPT ![s].pc = "mint", ![s].promo = FALSE, ![s].via = FALSE]
              \/ run' = [run EXCEPT ![s] = Idle]
  <2>1. node' \in [Code -> {"none", "live", "gone"}] /\ \A c \in Code : node[c] # "none" => node'[c] # "none"
    BY <1>1, <1>8
  <2>2. CASE run' = [run EXCEPT ![s] = Idle]
    <3>1. OnlySlot(s) /\ run'[s].pc = "idle" BY <1>1, <2>2 DEF OnlySlot, Idle
    <3> QED BY <1>3, <2>1, <3>1
  <2>3. CASE run' = [run EXCEPT ![s].pc = "mint", ![s].promo = FALSE, ![s].via = FALSE]
    <3>1. run[s] \in ShopRun BY <1>1, <1>8, RunsOf
    <3>2. OnlySlot(s) /\ run'[s] = [run[s] EXCEPT !.pc = "mint", !.promo = FALSE, !.via = FALSE]
      BY <1>1, <2>3, <3>1 DEF OnlySlot, ShopRun
    <3>3. /\ run'[s] \in ShopRun /\ run'[s].pc = "mint"
          /\ run'[s].same = run[s].same /\ run'[s].code = run[s].code
      BY <3>1, <3>2 DEF ShopRun
    <3> QED BY <1>3, <1>8, <2>1, <3>2, <3>3, RunsOf
  <2> QED BY <1>8, <2>2, <2>3
<1>9. \/ node' = node /\ run' = [run EXCEPT ![s] = Idle]
      \/ node' = node /\ run' = [run EXCEPT ![s].pc = "code"] /\ run[s].pc = "price"
      \/ node' = node /\ run' = [run EXCEPT ![s].pc = "loyalty"] /\ s \in Draft
      \/ node' = node /\ run' = [run EXCEPT ![s].pc = "retire"] /\ s = Shop /\ run[s].pc = "retired"
      \/ /\ s = Shop /\ run[s].pc \in {"mint", "insert"}
         /\ node' = IF run[s].pc = "insert" THEN [node EXCEPT ![run[s].code] = "gone"] ELSE node
         /\ \/ run' = [run EXCEPT ![s].pc = "mint", ![s].promo = FALSE, ![s].via = FALSE]
            \/ run' = [run EXCEPT ![s] = Idle]
  BY SlotsApart DEF Fails, Goto, Done
<1> QED BY <1>4, <1>5, <1>6, <1>7, <1>8, <1>9

LEMMA RestartTypes ==
  ASSUME TypeInv, Restart
  PROVE  TypeInv'
<1>0. Tables /\ RowsKnown BY DEF TypeInv
<1>1. /\ UNCHANGED <<case, row, node, store, doc, cart, member, handed, ordered>>
      /\ hooks' \subseteq hooks /\ run' = [s \in Slot |-> Idle]
  BY DEF Restart
<1>2. \A s \in Slot : run'[s].pc = "idle" BY <1>1 DEF Idle
<1>3. Tables' /\ RowsKnown' BY <1>0, <1>1 DEF Tables, RowsKnown, Kept
<1>4. Requests' BY <1>1, <1>2, SlotsApart DEF Requests, Busy
<1>5. ShopKnown' /\ HookKnown' /\ SweepKnown'
  BY <1>2, SlotsApart DEF ShopKnown, HookKnown, SweepKnown
<1> QED BY <1>3, <1>4, <1>5 DEF TypeInv

LEMMA NextTypes == TypeInv /\ [Next]_vars => TypeInv'
<1> SUFFICES ASSUME TypeInv, [Next]_vars PROVE TypeInv' OBVIOUS
<1>1. CASE UNCHANGED vars
  BY <1>1 DEF vars, TypeInv, Tables, Requests, RowsKnown, ShopKnown, HookKnown, SweepKnown, Kept,
              Busy, RunOf, ShopRun, HookRun, SweepRun, ChainRun
<1>2. CASE \E d \in Draft : Staff(d) BY <1>2, StaffTypes
<1>3. CASE \E d \in Draft : ChainStart(d) \/ ChainAgain(d) \/ ChainStep(d) BY <1>3, ChainTypes
<1>4. CASE ShopStep \/ \E k \in Cart, promo \in BOOLEAN : Ask(k, promo) BY <1>4, ShopTypes
<1>5. CASE HookStep \/ \E h \in hooks : HookStart(h) BY <1>5, HookTypes
<1>6. CASE SweepStep \/ SweepStart BY <1>6, SweepTypes
<1>7. CASE (\E k \in Cart : ChangePrice(k)) \/ (\E c \in Code : Lapse(c) \/ Buy(c)) \/ FallBelow
  BY <1>7, EventTypes
<1>8. CASE \E s \in Slot : Fails(s) BY <1>8, FailTypes
<1>9. CASE Restart BY <1>9, RestartTypes
<1> QED BY <1>1, <1>2, <1>3, <1>4, <1>5, <1>6, <1>7, <1>8, <1>9 DEF Next, Staff

\* Rows, discounts, drafts and requests are what the code reads and writes,
\* and only a code that was minted has a row, is handed out or is used.
THEOREM BenefitTypes == Spec => []TypeOK
<1>1. TypeInv => TypeOK BY TypeInvTypes
<1> QED BY <1>1, InitTypes, NextTypes, PTL DEF Spec

--------------------
(* One request at a time, and what it is about to rewrite *)

\* Requests run one at a time and no call fails.
Calm == Only(Trouble \ {"fault", "overlap"})

OneBusy == \A s, t \in Slot : Busy(s) /\ Busy(t) => s = t

Unused(c) == c \in Code /\ row[c].status # "used"

\* supersedeCodes and expireCodes write 'expired' by id, whatever the row says
\* by now: what is about to be inserted, replaced or expired has not been used.
ShopUnused ==
    /\ run[Shop].pc \in {"benefit", "mint", "insert", "retire", "retired", "answer"} =>
          \A c \in run[Shop].same : Unused(c)
    /\ run[Shop].pc = "retired" => Unused(run[Shop].old)

SweepUnused ==
    /\ run[Sweep].pc \in {"expire", "expired"} => \A c \in run[Sweep].rows : Unused(c)
    /\ run[Sweep].pc = "expired" => Unused(run[Sweep].code)

ListsUnused == ShopUnused /\ SweepUnused

UsedKept == \A c \in Code : row[c].status = "used" => row'[c].status = "used"
UnusedKept == \A c \in Code : Unused(c) => Unused(c)'

LEMMA CaseStays == [Next]_vars => case' = case
  BY DEF Next, vars, PressApply, PressRemove, AskCode, TypeCode, Touch, Convert, ChainStart, ChainAgain,
     ChainStep, Price, ApplyCode, ReadDraft, Judge, WriteRecord, Forget, Unmirror, WriteTags,
     ChangeLines, ChangePrice, Ask, Lapse, Buy, FallBelow, ShopStep, ReadLive, ReadBenefit,
     Mint, Insert, Retire, Retired, Answer, HookStep, LookStore, RecordStore, ReadCode,
     UseCode, Tidy, SweepStart, SweepStep, ExpireNode, ExpireRow, Recheck, HookStart, Fails,
     Restart

LEMMA CalmForbids == Calm => ~Allowed("overlap") /\ ~Allowed("fault")
  BY DEF Calm, Only, Allowed

\* A step is one of these.
Event == \/ \E k \in Cart : ChangePrice(k)
         \/ \E c \in Code : Lapse(c) \/ Buy(c)
         \/ FallBelow

LEMMA CalmNext ==
  ASSUME Calm, [Next]_vars
  PROVE  \/ UNCHANGED vars
         \/ \E d \in Draft : Staff(d)
         \/ \E d \in Draft : ChainStart(d) \/ ChainAgain(d) \/ ChainStep(d)
         \/ ShopStep \/ \E k \in Cart, promo \in BOOLEAN : Ask(k, promo)
         \/ HookStep \/ \E h \in hooks : HookStart(h)
         \/ SweepStep \/ SweepStart
         \/ Event
<1>1. ~\E s \in Slot : Fails(s) BY CalmForbids DEF Fails
<1>2. ~Restart BY CalmForbids DEF Restart
<1> QED BY <1>1, <1>2 DEF Next, Staff, Event

\* A request that takes a step is under way, and one that starts waits for the
\* others to end.
LEMMA StepsBusy ==
  /\ \A d \in Draft : ChainStep(d) => Busy(d)
  /\ ShopStep => Busy(Shop)
  /\ HookStep => Busy(Hook)
  /\ SweepStep => Busy(Sweep)
<1>1. \A d \in Draft : ChainStep(d) => Busy(d)
  BY DEF ChainStep, Price, ApplyCode, ReadDraft, Judge, WriteRecord, Forget, Unmirror, WriteTags, Busy
<1>2. ShopStep => Busy(Shop)
  BY DEF ShopStep, ReadLive, ReadBenefit, Mint, Insert, Retire, Retired, Answer, Busy
<1>3. HookStep => Busy(Hook)
  BY DEF HookStep, LookStore, RecordStore, ReadCode, UseCode, Tidy, Busy
<1>4. SweepStep => Busy(Sweep) BY DEF SweepStep, ExpireNode, ExpireRow, Recheck, Busy
<1> QED BY <1>1, <1>2, <1>3, <1>4

LEMMA StartsQuiet ==
  ASSUME Calm
  PROVE  /\ \A d \in Draft : ChainStart(d) \/ ChainAgain(d) => Quiet
         /\ \A k \in Cart, promo \in BOOLEAN : Ask(k, promo) => Quiet
         /\ \A h \in hooks : HookStart(h) => Quiet
         /\ SweepStart => Quiet
  BY CalmForbids DEF ChainStart, ChainAgain, Ask, HookStart, SweepStart, CanStart

LEMMA StillOne ==
  ASSUME OneBusy, NEW s \in Slot, OnlySlot(s), Busy(s) \/ Quiet
  PROVE  OneBusy'
  BY DEF OneBusy, OnlySlot, Busy, Quiet

\* The others are idle while one request takes a step.
LEMMA OthersIdle ==
  ASSUME OneBusy, NEW s \in Slot, Busy(s) \/ Quiet
  PROVE  \A t \in Slot \ {s} : run[t].pc = "idle"
  BY DEF OneBusy, Busy, Quiet

LEMMA EventDoes ==
  ASSUME TypeInv, Event
  PROVE  /\ UNCHANGED <<case, node, store, doc, run, handed>>
         /\ \A c \in Code : row'[c].status = row[c].status
<1>1. CASE (\E k \in Cart : ChangePrice(k)) \/ FallBelow BY <1>1 DEF ChangePrice, FallBelow
<1>2. CASE \E c \in Code : Lapse(c)
  <2>1. PICK c \in Code : Lapse(c) BY <1>2
  <2>2. /\ UNCHANGED <<case, node, store, doc, cart, member, run, hooks, handed, ordered>>
        /\ OnlyRow(c) /\ row'[c].status = row[c].status
    BY <2>1, LapseDoes
  <2> QED BY <2>2 DEF OnlyRow
<1>3. CASE \E c \in Code : Buy(c) BY <1>3, BuyDoes
<1> QED BY <1>1, <1>2, <1>3 DEF Event

LEMMA OneBusyStep ==
  ASSUME TypeInv, Calm, OneBusy, [Next]_vars
  PROVE  OneBusy'
<1>0. run' = run => OneBusy' BY DEF OneBusy, Busy
<1>1. CASE UNCHANGED vars BY <1>0, <1>1 DEF vars
<1>2. CASE \E d \in Draft : Staff(d) BY <1>0, <1>2, StaffDoes
<1>3. CASE \E d \in Draft : ChainStart(d) \/ ChainAgain(d) \/ ChainStep(d)
  <2>1. PICK d \in Draft : ChainStart(d) \/ ChainAgain(d) \/ ChainStep(d) BY <1>3
  <2>2. d \in Slot /\ OnlySlot(d) /\ (Busy(d) \/ Quiet)
    BY <2>1, ChainTypes, StepsBusy, StartsQuiet, SlotsApart DEF OnlyDraft
  <2> QED BY <2>2, StillOne
<1>4. CASE ShopStep \/ \E k \in Cart, promo \in BOOLEAN : Ask(k, promo)
  <2>1. Shop \in Slot /\ OnlySlot(Shop) /\ (Busy(Shop) \/ Quiet)
    BY <1>4, ShopTypes, StepsBusy, StartsQuiet, SlotsApart DEF OnlyShop
  <2> QED BY <2>1, StillOne
<1>5. CASE HookStep \/ \E h \in hooks : HookStart(h)
  <2>1. Hook \in Slot /\ OnlySlot(Hook) /\ (Busy(Hook) \/ Quiet)
    BY <1>5, HookTypes, StepsBusy, StartsQuiet, SlotsApart DEF OnlyHook
  <2> QED BY <2>1, StillOne
<1>6. CASE SweepStep \/ SweepStart
  <2>1. Sweep \in Slot /\ OnlySlot(Sweep) /\ (Busy(Sweep) \/ Quiet)
    BY <1>6, SweepTypes, StepsBusy, StartsQuiet, SlotsApart DEF OnlySweep
  <2> QED BY <2>1, StillOne
<1>7. CASE Event BY <1>0, <1>7, EventDoes
<1> QED BY <1>1, <1>2, <1>3, <1>4, <1>5, <1>6, <1>7, CalmNext

\* The other lists stay as they are while no row gets used.
LEMMA ListsWait ==
  ASSUME UnusedKept
  PROVE  /\ ShopUnused /\ run'[Shop] = run[Shop] => ShopUnused'
         /\ SweepUnused /\ run'[Sweep] = run[Sweep] => SweepUnused'
  BY DEF UnusedKept, ShopUnused, SweepUnused, Unused

LEMMA ShopLists ==
  ASSUME TypeInv, ShopUnused, ShopStep \/ \E k \in Cart, promo \in BOOLEAN : Ask(k, promo)
  PROVE  ShopUnused' /\ UsedKept /\ UnusedKept
<1> DEFINE r == run[Shop]
<1>1. row' = row => UsedKept /\ UnusedKept BY DEF UsedKept, UnusedKept, Unused
<1>2. CASE \E k \in Cart, promo \in BOOLEAN : Ask(k, promo)
  <2>1. row' = row /\ run'[Shop].pc = "live" BY <1>2, AskDoes
  <2> QED BY <1>1, <2>1 DEF ShopUnused
<1>3. CASE ReadLive
  <2>1. row' = row /\ r \in ShopRun BY <1>3, ReadLiveDoes
  <2>2. PICK live \in SUBSET Code : /\ \A c \in live : Pending(c)
                                    /\ run'[Shop] = [r EXCEPT !.same = live, !.pc = "benefit"]
    BY <1>3, ReadLiveDoes
  <2>3. run'[Shop].pc = "benefit" /\ run'[Shop].same = live BY <2>1, <2>2 DEF ShopRun
  <2>4. \A c \in live : Unused(c)' BY <2>1, <2>2 DEF Unused, Pending
  <2> QED BY <1>1, <2>1, <2>3, <2>4 DEF ShopUnused
<1>4. CASE ReadBenefit
  <2>1. row' = row /\ r \in ShopRun /\ r.pc = "benefit" BY <1>4, ReadBenefitDoes
  <2>2. \/ run'[Shop].pc = "idle"
        \/ run'[Shop].pc \in {"live", "mint"} /\ run'[Shop].same = r.same
    <3>1. CASE run'[Shop] = Idle BY <3>1 DEF Idle
    <3>2. CASE run'[Shop] = [r EXCEPT !.pc = "live", !.promo = TRUE, !.via = TRUE]
      BY <2>1, <3>2 DEF ShopRun
    <3>3. CASE \E b \in BonusRead(None, r.same) : run'[Shop] = [r EXCEPT !.pc = "mint", !.bonus = b]
      BY <2>1, <3>3 DEF ShopRun
    <3> QED BY <1>4, <3>1, <3>2, <3>3, ReadBenefitDoes
  <2> QED BY <1>1, <2>1, <2>2 DEF ShopUnused, Unused
<1>5. CASE Mint
  <2>1. row' = row /\ r \in ShopRun /\ r.pc = "mint" BY <1>5, MintDoes
  <2>2. \/ run'[Shop].pc = "idle"
        \/ run'[Shop].pc = "insert" /\ run'[Shop].same = r.same
    <3>1. CASE run'[Shop] = Idle BY <3>1 DEF Idle
    <3>2. CASE \E c \in Code : run'[Shop] = [r EXCEPT !.pc = "insert", !.code = c]
      BY <2>1, <3>2 DEF ShopRun
    <3> QED BY <1>5, <3>1, <3>2, MintDoes
  <2> QED BY <1>1, <2>1, <2>2 DEF ShopUnused, Unused
<1>6. CASE Insert
  <2>1. /\ r \in ShopRun /\ r.pc = "insert" /\ r.code \in Code /\ OnlyRow(r.code)
        /\ row'[r.code] = [status |-> "pending", cart |-> r.cart, price |-> r.price,
                           bonus |-> r.bonus, promo |-> r.promo, late |-> FALSE]
        /\ run'[Shop] = [r EXCEPT !.pc = IF r.promo THEN "retire" ELSE "answer"]
    BY <1>6, InsertDoes
  <2>2. row'[r.code].status = "pending" BY <2>1
  <2>3. row[r.code].status = "none" BY <2>1 DEF TypeInv, ShopKnown
  <2>4. UsedKept /\ UnusedKept BY <2>1, <2>2, <2>3 DEF UsedKept, UnusedKept, Unused, OnlyRow
  <2>5. run'[Shop].pc \in {"retire", "answer"} /\ run'[Shop].same = r.same BY <2>1 DEF ShopRun
  <2> QED BY <2>1, <2>4, <2>5 DEF ShopUnused, UnusedKept, Unused
<1>7. CASE Retire
  <2>1. row' = row /\ r \in ShopRun /\ r.pc = "retire" BY <1>7, RetireDoes
  <2>2. \/ run'[Shop].pc = "answer" /\ run'[Shop].same = r.same
        \/ /\ run'[Shop].pc = "retired" /\ run'[Shop].old \in r.same
           /\ run'[Shop].same \subseteq r.same
    <3>1. CASE run'[Shop] = [r EXCEPT !.pc = "answer"] BY <2>1, <3>1 DEF ShopRun
    <3>2. CASE \E c \in r.same :
                  run'[Shop] = [r EXCEPT !.pc = "retired", !.same = r.same \ {c}, !.old = c]
      BY <2>1, <3>2 DEF ShopRun
    <3> QED BY <1>7, <3>1, <3>2, RetireDoes
  <2> QED BY <1>1, <2>1, <2>2 DEF ShopUnused, Unused
<1>8. CASE Retired
  <2>1. /\ r \in ShopRun /\ r.pc = "retired" /\ r.old \in Code /\ OnlyRow(r.old)
        /\ row'[r.old].status = "expired" /\ run'[Shop] = [r EXCEPT !.pc = "retire"]
    BY <1>8, RetiredDoes
  <2>2. Unused(r.old) BY <2>1 DEF ShopUnused
  <2>3. UsedKept /\ UnusedKept BY <2>1, <2>2 DEF UsedKept, UnusedKept, Unused, OnlyRow
  <2>4. run'[Shop].pc = "retire" /\ run'[Shop].same = r.same BY <2>1 DEF ShopRun
  <2> QED BY <2>1, <2>3, <2>4 DEF ShopUnused, UnusedKept, Unused
<1>9. CASE Answer
  <2>1. row' = row /\ run'[Shop].pc = "idle" BY <1>9, AnswerDoes DEF Idle
  <2> QED BY <1>1, <2>1 DEF ShopUnused
<1> QED BY <1>2, <1>3, <1>4, <1>5, <1>6, <1>7, <1>8, <1>9 DEF ShopStep

LEMMA HookLists ==
  ASSUME TypeInv, HookStep \/ \E h \in hooks : HookStart(h)
  PROVE  UsedKept
<1>1. row' = row => UsedKept BY DEF UsedKept
<1>2. CASE UseCode
  <2>1. OnlyRow(run[Hook].sale) /\ row'[run[Hook].sale].status = "used" BY <1>2, UseCodeDoes
  <2> QED BY <2>1 DEF OnlyRow, UsedKept
<1>3. CASE LookStore BY <1>1, <1>3, LookStoreDoes
<1>4. CASE RecordStore BY <1>1, <1>4, RecordStoreDoes
<1>5. CASE ReadCode BY <1>1, <1>5, ReadCodeDoes
<1>6. CASE Tidy BY <1>1, <1>6, TidyDoes
<1>7. CASE \E h \in hooks : HookStart(h) BY <1>1, <1>7, HookStartDoes
<1> QED BY <1>2, <1>3, <1>4, <1>5, <1>6, <1>7 DEF HookStep

LEMMA SweepLists ==
  ASSUME TypeInv, SweepUnused, SweepStep \/ SweepStart
  PROVE  SweepUnused' /\ UsedKept
<1> DEFINE r == run[Sweep]
<1>1. row' = row => UsedKept BY DEF UsedKept
<1>2. CASE SweepStart
  <2>1. row' = row /\ run'[Sweep] = [pc |-> "expire", rows |-> Lapsed, code |-> None]
    BY <1>2, SweepStartDoes
  <2>2. \A c \in Lapsed : Unused(c)' BY <2>1 DEF Lapsed, Unused
  <2>3. run'[Sweep].pc = "expire" /\ run'[Sweep].rows = Lapsed BY <2>1
  <2> QED BY <1>1, <2>1, <2>2, <2>3 DEF SweepUnused
<1>3. CASE ExpireNode
  <2>1. row' = row /\ r.pc = "expire" /\ r \in SweepRun BY <1>3, ExpireNodeDoes
  <2>2. \/ run'[Sweep].pc = "recheck"
        \/ /\ run'[Sweep].pc = "expired" /\ run'[Sweep].code \in r.rows
           /\ run'[Sweep].rows \subseteq r.rows
    BY <1>3, <2>1, ExpireNodeDoes DEF SweepRun
  <2> QED BY <1>1, <2>1, <2>2 DEF SweepUnused, Unused
<1>4. CASE ExpireRow
  <2>1. /\ r \in SweepRun /\ r.pc = "expired" /\ r.code \in Code /\ OnlyRow(r.code)
        /\ row'[r.code].status = "expired" /\ run'[Sweep] = [r EXCEPT !.pc = "expire"]
    BY <1>4, ExpireRowDoes
  <2>2. Unused(r.code) BY <2>1 DEF SweepUnused
  <2>3. UsedKept /\ UnusedKept BY <2>1, <2>2 DEF UsedKept, UnusedKept, Unused, OnlyRow
  <2>4. run'[Sweep].pc = "expire" /\ run'[Sweep].rows = r.rows BY <2>1 DEF SweepRun
  <2> QED BY <2>1, <2>3, <2>4 DEF SweepUnused, UnusedKept, Unused
<1>5. CASE Recheck
  <2>1. \/ row' = row /\ run'[Sweep].pc = "idle"
        \/ /\ run'[Sweep].pc = "recheck"
           /\ \E c \in ordered : OnlyRow(c) /\ row'[c].status = "used"
    BY <1>5, RecheckDoes DEF Idle
  <2>2. SweepUnused' BY <2>1 DEF SweepUnused
  <2>3. UsedKept BY <1>1, <2>1 DEF UsedKept, OnlyRow
  <2> QED BY <2>2, <2>3
<1> QED BY <1>2, <1>3, <1>4, <1>5 DEF SweepStep

LEMMA ListsStep ==
  ASSUME TypeInv, Calm, OneBusy, ListsUnused, [Next]_vars
  PROVE  ListsUnused' /\ UsedKept
<1>1. ASSUME \A c \in Code : row'[c].status = row[c].status,
             run'[Shop] = run[Shop], run'[Sweep] = run[Sweep]
      PROVE  ListsUnused' /\ UsedKept
  <2>1. UnusedKept /\ UsedKept BY <1>1 DEF UnusedKept, UsedKept, Unused
  <2> QED BY <1>1, <2>1, ListsWait DEF ListsUnused
<1>2. CASE UNCHANGED vars BY <1>1, <1>2 DEF vars
<1>3. CASE \E d \in Draft : Staff(d) BY <1>1, <1>3, StaffDoes DEF OnlyDraft
<1>4. CASE \E d \in Draft : ChainStart(d) \/ ChainAgain(d) \/ ChainStep(d)
  <2>1. PICK d \in Draft : ChainStart(d) \/ ChainAgain(d) \/ ChainStep(d) BY <1>4
  <2>2. row' = row /\ run'[Shop] = run[Shop] /\ run'[Sweep] = run[Sweep]
    BY <2>1, ChainTypes, SlotsApart DEF OnlyDraft, OnlySlot
  <2> QED BY <1>1, <2>2
<1>5. CASE ShopStep \/ \E k \in Cart, promo \in BOOLEAN : Ask(k, promo)
  <2>1. OnlySlot(Shop) BY <1>5, ShopTypes DEF OnlyShop
  <2>2. run'[Sweep] = run[Sweep] BY <2>1, SlotsApart DEF OnlySlot
  <2> QED BY <1>5, <2>2, ShopLists, ListsWait DEF ListsUnused
<1>6. CASE HookStep \/ \E h \in hooks : HookStart(h)
  <2>1. OnlySlot(Hook) /\ (Busy(Hook) \/ Quiet)
    BY <1>6, HookTypes, StepsBusy, StartsQuiet DEF OnlyHook
  <2>2. /\ run'[Shop] = run[Shop] /\ run'[Sweep] = run[Sweep]
        /\ run[Shop].pc = "idle" /\ run[Sweep].pc = "idle"
    BY <2>1, OthersIdle, SlotsApart DEF OnlySlot
  <2>3. ListsUnused' BY <2>2 DEF ListsUnused, ShopUnused, SweepUnused
  <2> QED BY <1>6, <2>3, HookLists
<1>7. CASE SweepStep \/ SweepStart
  <2>1. OnlySlot(Sweep) /\ (Busy(Sweep) \/ Quiet)
    BY <1>7, SweepTypes, StepsBusy, StartsQuiet DEF OnlySweep
  <2>2. run'[Shop] = run[Shop] /\ run[Shop].pc = "idle"
    BY <2>1, OthersIdle, SlotsApart DEF OnlySlot
  <2>3. ShopUnused' BY <2>2 DEF ShopUnused
  <2> QED BY <1>7, <2>3, SweepLists DEF ListsUnused
<1>8. CASE Event BY <1>1, <1>8, EventDoes
<1> QED BY <1>2, <1>3, <1>4, <1>5, <1>6, <1>7, <1>8, CalmNext

--------------------
(* Tag and record *)

\* ... and a draft's updates come in order, none twice.
Steady == Only(Trouble \ {"stale", "fault", "overlap"})

LEMMA SteadyNext ==
  ASSUME Steady
  PROVE  Calm /\ \A d \in Draft : ~ChainAgain(d)
  BY DEF Steady, Calm, Only, Allowed, ChainAgain

\* Between its updates a draft has the tag if and only if it has the record.
\* During one, the request knows what the draft says.
TagsFit(d) ==
    LET o == doc[d]  r == run[d] IN
    /\ ~Busy(d) => /\ "on" \in o.tags <=> Has(d)
                   /\ o.changed \/ (~(Has(d) /\ o.code) /\ o.tags \subseteq {"on"})
    /\ Busy(d) => /\ \A t \in Ours : t \in o.tags <=> t \in r.tags
                  /\ o.lines = r.lines /\ o.state = "open"
    /\ r.pc \in {"price", "code", "loyalty", "judge"} => ("on" \in r.tags <=> Has(d))
    /\ r.pc = "price" => o.tags = r.tags
    /\ r.pc = "code" => o.changed \/ (o.tags = r.tags /\ "reprice" \notin r.tags)
    /\ r.pc = "loyalty" => o.changed \/ (o.tags = r.tags /\ r.tags \cap {"reprice", "code"} = {})
    /\ r.pc = "judge" => (r.had <=> Has(d))
    /\ r.pc \in {"judge", "write"} => "remove" \notin r.tags /\ ("apply" \in r.tags \/ Has(d))
    /\ r.pc \in {"forget", "forgetOnly", "unmirror", "tags"} =>
          "apply" \notin r.next /\ "remove" \notin r.next
    /\ r.pc \in {"forget", "forgetOnly", "unmirror"} => "on" \notin r.next
    /\ r.pc = "unmirror" => ~Has(d)
    /\ r.pc = "tags" => ("on" \in r.next <=> Has(d))

LEMMA HasSame ==
  ASSUME NEW d, doc'[d].loyalty = doc[d].loyalty
  PROVE  Has(d)' <=> Has(d)
  BY DEF Has, NoLoyalty

LEMMA TagsWait ==
  ASSUME NEW d, TagsFit(d), doc'[d] = doc[d], run'[d] = run[d]
  PROVE  TagsFit(d)'
  BY DEF TagsFit, Has, NoLoyalty, Busy, Ours

LEMMA TagsInit == Init => \A d \in Draft : TagsFit(d)
<1> SUFFICES ASSUME Init, NEW d \in Draft PROVE TagsFit(d) OBVIOUS
<1>1. run[d].pc = "idle" BY SlotsApart DEF Init, Idle
<1>2. doc[d].tags = {} /\ doc[d].loyalty = NoLoyalty BY DEF Init
<1> QED BY <1>1, <1>2 DEF TagsFit, Has, Busy

LEMMA TagsStaff ==
  ASSUME TypeInv, NEW d \in Draft, Staff(d), TagsFit(d)
  PROVE  TagsFit(d)'
<1>1. run' = run /\ run[d].pc = "idle" BY StaffDoes
<1>2. doc[d] \in DocRec BY ChainTyped
<1>3. "on" \in doc[d].tags <=> Has(d) BY <1>1 DEF TagsFit, Busy
<1>4. ASSUME doc'[d].changed, doc'[d].loyalty = doc[d].loyalty,
             "on" \in doc'[d].tags <=> "on" \in doc[d].tags
      PROVE  TagsFit(d)'
  <2>1. "on" \in doc'[d].tags <=> Has(d)' BY <1>3, <1>4, HasSame
  <2> QED BY <1>1, <1>4, <2>1 DEF TagsFit, Busy
<1>5. ASSUME NEW t \in Tag, Touch(d), Edit(d, Tagged(d, t)), t # "on" PROVE TagsFit(d)'
  <2>1. doc'[d] = [doc[d] EXCEPT !.tags = doc[d].tags \cup {t}, !.changed = TRUE,
                           !.sent = doc'[d].sent] BY <1>5, TagDoes
  <2>2. doc'[d].changed /\ doc'[d].loyalty = doc[d].loyalty /\ doc'[d].tags = doc[d].tags \cup {t}
    BY <1>2, <2>1 DEF DocRec
  <2> QED BY <1>4, <1>5, <2>2
<1>6. CASE PressApply(d) \/ PressRemove(d) \/ AskCode(d)
  BY <1>5, <1>6 DEF PressApply, PressRemove, AskCode, Tag
<1>7. CASE TypeCode(d)
  <2>1. doc'[d] = [doc[d] EXCEPT !.tags = doc[d].tags \cup {"reprice"}, !.code = TRUE, !.changed = TRUE,
                                 !.sent = doc'[d].sent]
    BY <1>7, TypeCodeDoes
  <2>2. /\ doc'[d].changed /\ doc'[d].loyalty = doc[d].loyalty
        /\ doc'[d].tags = doc[d].tags \cup {"reprice"}
    BY <1>2, <2>1 DEF DocRec
  <2> QED BY <1>4, <2>2
<1>8. CASE \E p \in Pieces : ChangeLines(d, p)
  <2>1. PICK p \in Pieces : ChangeLines(d, p) BY <1>8
  <2>2. doc'[d] = [doc[d] EXCEPT !.lines = p, !.price = "full", !.changed = TRUE, !.sent = doc'[d].sent]
    BY <2>1, ChangeLinesDoes
  <2> QED BY <1>2, <1>4, <2>2 DEF DocRec
<1>9. CASE Convert(d)
  <2>1. doc'[d] = [doc[d] EXCEPT !.state = "converted"] BY <1>9, ConvertDoes
  <2>2. /\ doc'[d].tags = doc[d].tags /\ doc'[d].loyalty = doc[d].loyalty
        /\ doc'[d].code = doc[d].code /\ doc'[d].changed = doc[d].changed
    BY <1>2, <2>1 DEF DocRec
  <2>3. Has(d)' <=> Has(d) BY <2>2, HasSame
  <2> QED BY <1>1, <2>2, <2>3 DEF TagsFit, Busy
<1> QED BY <1>6, <1>7, <1>8, <1>9 DEF Staff

LEMMA TagsChain ==
  ASSUME TypeInv, ~Allowed("fault"), NEW d \in Draft, ChainStart(d) \/ ChainStep(d), TagsFit(d)
  PROVE  TagsFit(d)'
<1> DEFINE o == doc[d]
           r == run[d]
<1>0. o \in DocRec /\ (r.pc # "idle" => r \in ChainRun) BY ChainTyped
<1>1. CASE Price(d)
  <2>1. /\ r.pc = "price" /\ r \in ChainRun /\ run'[d] = [r EXCEPT !.pc = "code"]
        /\ doc'[d] = IF "reprice" \in r.tags
                     THEN [o EXCEPT !.lines = r.lines, !.price = PriceOf(d), !.mirror = MirrorOf(d),
                                    !.tags = r.tags \ {"reprice"}, !.changed = TRUE]
                     ELSE o
    BY <1>1, PriceDoes DEF Moves
  <2>2. run'[d].pc = "code" /\ run'[d].tags = r.tags /\ run'[d].lines = r.lines
        /\ o.lines = r.lines
    BY <2>1 DEF ChainRun, TagsFit, Busy
  <2>3. /\ doc'[d].lines = o.lines /\ doc'[d].state = o.state /\ doc'[d].loyalty = o.loyalty
        /\ \/ "reprice" \in r.tags /\ doc'[d].tags = r.tags \ {"reprice"} /\ doc'[d].changed
           \/ "reprice" \notin r.tags /\ doc'[d] = o
    BY <1>0, <2>1, <2>2 DEF DocRec
  <2>4. Has(d)' <=> Has(d) BY <2>3, HasSame
  <2> QED BY <2>1, <2>2, <2>3, <2>4 DEF TagsFit, Busy, Ours
<1>2. CASE ApplyCode(d)
  <2>1. /\ r.pc = "code" /\ r \in ChainRun /\ run'[d] = [r EXCEPT !.pc = "loyalty"]
        /\ \/ "code" \notin r.tags /\ doc'[d] = o
           \/ /\ {"code", "on"} \subseteq r.tags
              /\ doc'[d] = [o EXCEPT !.tags = r.tags \ {"code"}, !.changed = TRUE]
           \/ /\ "code" \in r.tags /\ "on" \notin r.tags
              /\ doc'[d] = [o EXCEPT !.tags = (r.tags \ {"code"}) \cup {"reprice"},
                                     !.code = TRUE, !.changed = TRUE]
    BY <1>2, ApplyCodeDoes DEF Moves
  <2>2. run'[d].pc = "loyalty" /\ run'[d].tags = r.tags /\ run'[d].lines = r.lines
    BY <2>1 DEF ChainRun
  <2>3. /\ doc'[d].lines = o.lines /\ doc'[d].state = o.state /\ doc'[d].loyalty = o.loyalty
        /\ \/ "code" \notin r.tags /\ doc'[d] = o
           \/ doc'[d].tags = r.tags \ {"code"} /\ doc'[d].changed
           \/ doc'[d].tags = (r.tags \ {"code"}) \cup {"reprice"} /\ doc'[d].changed
    BY <1>0, <2>1 DEF DocRec
  <2>4. Has(d)' <=> Has(d) BY <2>3, HasSame
  <2> QED BY <2>1, <2>2, <2>3, <2>4 DEF TagsFit, Busy, Ours
<1>3. CASE ReadDraft(d)
  <2> DEFINE kept == r.tags \ Ours
  <2>1. r.pc = "loyalty" /\ r \in ChainRun /\ doc'[d] = o BY <1>3, ReadDraftDoes
  <2>2. Has(d)' <=> Has(d) BY <2>1, HasSame
  <2>3. /\ "on" \in r.tags <=> Has(d)
        /\ \A t \in Ours : t \in o.tags <=> t \in r.tags
        /\ o.lines = r.lines /\ o.state = "open"
        /\ o.changed \/ (o.tags = r.tags /\ r.tags \cap {"reprice", "code"} = {})
    BY <2>1 DEF TagsFit, Busy
  <2>4. CASE r.tags \cap Ours = {} /\ run'[d] = Idle
    <3>1. ~Has(d) BY <2>3, <2>4 DEF Ours
    <3>2. o.changed \/ o.tags \subseteq {"on"}
      BY <2>1, <2>3, <2>4 DEF Ours, ChainRun, Tag
    <3>3. run'[d].pc = "idle" BY <2>4 DEF Idle
    <3>4. "on" \notin o.tags BY <2>3, <2>4 DEF Ours
    <3> QED BY <2>1, <2>2, <3>1, <3>2, <3>3, <3>4 DEF TagsFit, Busy
  <2>5. CASE /\ "on" \in r.tags /\ r.tags \cap {"apply", "remove"} = {} /\ run'[d] = Idle
             /\ ~doc[d].code
    <3>1. o.changed \/ o.tags \subseteq {"on"}
      BY <2>1, <2>3, <2>5 DEF ChainRun, Tag
    <3>2. "on" \in o.tags BY <2>3, <2>5 DEF Ours
    <3>3. run'[d].pc = "idle" BY <2>5 DEF Idle
    <3> QED BY <2>1, <2>2, <2>3, <2>5, <3>1, <3>2, <3>3 DEF TagsFit, Busy
  <2>6. CASE \/ run'[d] = [r EXCEPT !.pc = "forget", !.next = kept \cup {"reprice"}]
             \/ run'[d] = [r EXCEPT !.pc = "forgetOnly",
                                    !.next = kept \cup (IF Has(d) THEN {"reprice"} ELSE {})]
    <3> DEFINE rest == kept \cup (IF Has(d) THEN {"reprice"} ELSE {})
    <3>1. \A t \in Ours : t \notin kept \cup {"reprice"} /\ t \notin rest BY DEF Ours
    <3>2. CASE run'[d] = [r EXCEPT !.pc = "forget", !.next = kept \cup {"reprice"}]
      <4>1. /\ run'[d].pc = "forget" /\ run'[d].tags = r.tags
            /\ run'[d].lines = r.lines /\ run'[d].next = kept \cup {"reprice"}
        BY <2>1, <3>2 DEF ChainRun
      <4> HIDE DEF kept
      <4> QED BY <2>1, <2>2, <2>3, <3>1, <4>1 DEF TagsFit, Busy, Ours
    <3>3. CASE run'[d] = [r EXCEPT !.pc = "forgetOnly", !.next = rest]
      <4> HIDE DEF rest
      <4>1. /\ run'[d].pc = "forgetOnly" /\ run'[d].tags = r.tags
            /\ run'[d].lines = r.lines /\ run'[d].next = rest
        BY <2>1, <3>3 DEF ChainRun
      <4> QED BY <2>1, <2>2, <2>3, <3>1, <4>1 DEF TagsFit, Busy, Ours
    <3> QED BY <2>6, <3>2, <3>3
  <2>7. CASE /\ "apply" \in r.tags \/ "on" \in r.tags
             /\ "remove" \notin r.tags
             /\ run'[d] = [r EXCEPT !.pc = "judge", !.had = Has(d)]
    <3> DEFINE had == Has(d)
    <3>1. run'[d] = [r EXCEPT !.pc = "judge", !.had = had] BY <2>7
    <3> HIDE DEF had
    <3>2. run'[d].pc = "judge" /\ run'[d].tags = r.tags /\ run'[d].lines = r.lines
          /\ run'[d].had = had
      BY <2>1, <3>1 DEF ChainRun
    <3>3. run'[d].had <=> Has(d)' BY <2>2, <3>2 DEF had
    <3> QED BY <2>1, <2>2, <2>3, <2>7, <3>2, <3>3 DEF TagsFit, Busy
  <2>8. CASE "on" \in r.tags /\ ~Has(d) BY <2>3, <2>8
  <2> QED BY <1>3, <2>4, <2>5, <2>6, <2>7, <2>8, ReadDraftDoes
<1>4. CASE Judge(d)
  <2> DEFINE kept == r.tags \ Ours
  <2>1. r.pc = "judge" /\ r \in ChainRun /\ doc'[d] = o BY <1>4, JudgeDoes
  <2>2. Has(d)' <=> Has(d) BY <2>1, HasSame
  <2>3. /\ \A t \in Ours : t \in o.tags <=> t \in r.tags
        /\ o.lines = r.lines /\ o.state = "open"
        /\ "remove" \notin r.tags /\ ("apply" \in r.tags \/ Has(d))
    BY <2>1 DEF TagsFit, Busy
  <2>4. CASE \E b \in BonusRead(d, {}) : run'[d] = [r EXCEPT !.pc = "write", !.bonus = b]
    <3>1. run'[d].pc = "write" /\ run'[d].tags = r.tags /\ run'[d].lines = r.lines
      BY <2>1, <2>4 DEF ChainRun
    <3> QED BY <2>1, <2>2, <2>3, <3>1 DEF TagsFit, Busy
  <2>5. CASE \/ run'[d] = [r EXCEPT !.pc = "forget", !.next = kept \cup {"reprice"}]
             \/ run'[d] = [r EXCEPT !.pc = "forgetOnly",
                                    !.next = kept \cup (IF r.had THEN {"reprice"} ELSE {})]
    <3> DEFINE rest == kept \cup (IF r.had THEN {"reprice"} ELSE {})
    <3>1. \A t \in Ours : t \notin kept \cup {"reprice"} /\ t \notin rest BY DEF Ours
    <3>2. CASE run'[d] = [r EXCEPT !.pc = "forget", !.next = kept \cup {"reprice"}]
      <4>1. /\ run'[d].pc = "forget" /\ run'[d].tags = r.tags
            /\ run'[d].lines = r.lines /\ run'[d].next = kept \cup {"reprice"}
        BY <2>1, <3>2 DEF ChainRun
      <4> HIDE DEF kept
      <4> QED BY <2>1, <2>2, <2>3, <3>1, <4>1 DEF TagsFit, Busy, Ours
    <3>3. CASE run'[d] = [r EXCEPT !.pc = "forgetOnly", !.next = rest]
      <4> HIDE DEF rest
      <4>1. /\ run'[d].pc = "forgetOnly" /\ run'[d].tags = r.tags
            /\ run'[d].lines = r.lines /\ run'[d].next = rest
        BY <2>1, <3>3 DEF ChainRun
      <4> QED BY <2>1, <2>2, <2>3, <3>1, <4>1 DEF TagsFit, Busy, Ours
    <3> QED BY <2>5, <3>2, <3>3
  <2> QED BY <1>4, <2>4, <2>5, JudgeDoes
<1>5. CASE WriteRecord(d)
  <2>1. /\ r.pc = "write" /\ r \in ChainRun
        /\ doc'[d] = [o EXCEPT !.loyalty = [lines |-> r.lines, bonus |-> r.bonus]]
        /\ run'[d] = [r EXCEPT !.pc = "tags", !.next = (r.tags \ {"apply"}) \cup {"on", "reprice"}]
    BY <1>5, WriteRecordDoes
  <2>2. /\ doc'[d].loyalty = [lines |-> r.lines, bonus |-> r.bonus]
        /\ doc'[d].tags = o.tags /\ doc'[d].lines = o.lines /\ doc'[d].state = o.state
    BY <1>0, <2>1 DEF DocRec
  <2>3. Has(d)'
    <3>1. doc'[d].loyalty.lines = r.lines /\ r.lines \in Pieces BY <2>1, <2>2 DEF ChainRun
    <3> QED BY <3>1, LoyaltyBenefitAssumption DEF Has, NoLoyalty
  <2>4. /\ run'[d].pc = "tags" /\ run'[d].tags = r.tags /\ run'[d].lines = r.lines
        /\ run'[d].next = (r.tags \ {"apply"}) \cup {"on", "reprice"}
    BY <2>1 DEF ChainRun
  <2>5. /\ \A t \in Ours : t \in o.tags <=> t \in r.tags
        /\ o.lines = r.lines /\ o.state = "open" /\ "remove" \notin r.tags
    BY <2>1 DEF TagsFit, Busy
  <2> QED BY <2>2, <2>3, <2>4, <2>5 DEF TagsFit, Busy
<1>6. CASE Forget(d)
  <2>1. /\ r.pc \in {"forget", "forgetOnly"} /\ r \in ChainRun
        /\ doc'[d] = [o EXCEPT !.loyalty = NoLoyalty]
        /\ run'[d] = [r EXCEPT !.pc = IF r.pc = "forget" THEN "unmirror" ELSE "tags"]
    BY <1>6, ForgetDoes
  <2>2. /\ doc'[d].loyalty = NoLoyalty
        /\ doc'[d].tags = o.tags /\ doc'[d].lines = o.lines /\ doc'[d].state = o.state
    BY <1>0, <2>1 DEF DocRec
  <2>3. ~Has(d)' BY <2>2 DEF Has, NoLoyalty
  <2>4. /\ run'[d].pc \in {"unmirror", "tags"} /\ run'[d].tags = r.tags
        /\ run'[d].lines = r.lines /\ run'[d].next = r.next
    BY <2>1 DEF ChainRun
  <2> QED BY <2>1, <2>2, <2>3, <2>4 DEF TagsFit, Busy
<1>7. CASE Unmirror(d)
  <2>1. /\ r.pc = "unmirror" /\ r \in ChainRun /\ run'[d] = [r EXCEPT !.pc = "tags"]
        /\ doc'[d] = [o EXCEPT !.mirror = FALSE]
    BY <1>7, UnmirrorDoes DEF Moves
  <2>2. /\ doc'[d].loyalty = o.loyalty
        /\ doc'[d].tags = o.tags /\ doc'[d].lines = o.lines /\ doc'[d].state = o.state
    BY <1>0, <2>1 DEF DocRec
  <2>3. Has(d)' <=> Has(d) BY <2>2, HasSame
  <2>4. /\ run'[d].pc = "tags" /\ run'[d].tags = r.tags
        /\ run'[d].lines = r.lines /\ run'[d].next = r.next
    BY <2>1 DEF ChainRun
  <2> QED BY <2>1, <2>2, <2>3, <2>4 DEF TagsFit, Busy
<1>8. CASE WriteTags(d)
  <2>1. /\ r.pc = "tags" /\ run'[d] = Idle
        /\ doc'[d] = [o EXCEPT !.tags = r.next, !.changed = TRUE]
    BY <1>8, WriteTagsDoes
  <2>2. doc'[d].loyalty = o.loyalty /\ doc'[d].tags = r.next /\ doc'[d].changed
    BY <1>0, <2>1 DEF DocRec
  <2>3. Has(d)' <=> Has(d) BY <2>2, HasSame
  <2>4. run'[d].pc = "idle" BY <2>1 DEF Idle
  <2> QED BY <2>1, <2>2, <2>3, <2>4 DEF TagsFit, Busy
<1>9. CASE ChainStart(d)
  <2>1. /\ CanStart(d) /\ o.state = "open"
        /\ doc'[d] = [o EXCEPT !.changed = FALSE, !.sent = doc'[d].sent]
        /\ run'[d] = Pass(o)
    BY <1>9, ChainStartDoes
  <2>2. /\ doc'[d].loyalty = o.loyalty
        /\ doc'[d].tags = o.tags /\ doc'[d].lines = o.lines /\ doc'[d].state = o.state
    BY <1>0, <2>1 DEF DocRec
  <2>3. Has(d)' <=> Has(d) BY <2>2, HasSame
  <2>4. run'[d].pc = "price" /\ run'[d].tags = o.tags /\ run'[d].lines = o.lines BY <2>1 DEF Pass
  <2>5. "on" \in o.tags <=> Has(d) BY <2>1 DEF CanStart, TagsFit
  <2> QED BY <2>1, <2>2, <2>3, <2>4, <2>5 DEF TagsFit, Busy
<1> QED BY <1>1, <1>2, <1>3, <1>4, <1>5, <1>6, <1>7, <1>8, <1>9 DEF ChainStep

\* What the other requests, customers and time do is not about the drafts.
LEMMA DraftsWait ==
  ASSUME TypeInv,
         \/ UNCHANGED vars
         \/ ShopStep \/ \E k \in Cart, promo \in BOOLEAN : Ask(k, promo)
         \/ HookStep \/ \E h \in hooks : HookStart(h)
         \/ SweepStep \/ SweepStart
         \/ Event
  PROVE  doc' = doc /\ \A d \in Draft : run'[d] = run[d]
<1>1. CASE UNCHANGED vars BY <1>1 DEF vars
<1>2. CASE ShopStep \/ \E k \in Cart, promo \in BOOLEAN : Ask(k, promo)
  BY <1>2, ShopTypes, SlotsApart DEF OnlyShop, OnlySlot
<1>3. CASE HookStep \/ \E h \in hooks : HookStart(h)
  BY <1>3, HookTypes, SlotsApart DEF OnlyHook, OnlySlot
<1>4. CASE SweepStep \/ SweepStart
  BY <1>4, SweepTypes, SlotsApart DEF OnlySweep, OnlySlot
<1>5. CASE Event BY <1>5, EventDoes
<1> QED BY <1>1, <1>2, <1>3, <1>4, <1>5

\* A step of a draft is not about the other drafts.
LEMMA DraftsApart ==
  ASSUME NEW d \in Draft, OnlyDraft(d)
  PROVE  \A e \in Draft \ {d} : doc'[e] = doc[e] /\ run'[e] = run[e]
  BY SlotsApart DEF OnlyDraft, OnlyDoc, OnlySlot

LEMMA TagsStep ==
  ASSUME TypeInv, Steady, \A d \in Draft : TagsFit(d), [Next]_vars
  PROVE  \A d \in Draft : TagsFit(d)'
<1>1. ASSUME NEW d \in Draft, OnlyDraft(d), TagsFit(d)' PROVE \A e \in Draft : TagsFit(e)'
  <2>1. \A e \in Draft \ {d} : TagsFit(e)' BY <1>1, DraftsApart, TagsWait
  <2> QED BY <1>1, <2>1
<1>2. CASE \E d \in Draft : Staff(d) BY <1>1, <1>2, TagsStaff, StaffDoes
<1>3. CASE \E d \in Draft : ChainStart(d) \/ ChainStep(d)
  BY <1>1, <1>3, CalmForbids, SteadyNext, TagsChain, ChainTypes
<1>4. CASE doc' = doc /\ \A d \in Draft : run'[d] = run[d] BY <1>4, TagsWait
<1> QED BY <1>2, <1>3, <1>4, SteadyNext, CalmNext, DraftsWait


--------------------
(* Record and price *)

\* Staff wait for the update of a draft, too.
Prompt == Only(Trouble \ {"early", "stale", "fault", "overlap"})

\* ... and Apply is not pressed on a draft that has the benefit.
Fresh == Only(Trouble \ {"refresh", "early", "stale", "fault", "overlap"})

Rate(d) == IF doc[d].loyalty.bonus THEN "bonus" ELSE "tier"

\* The price is the one that the record gives for these lines.
Right(d) == IF Has(d) THEN doc[d].loyalty.lines = doc[d].lines /\ doc[d].price = Rate(d)
            ELSE doc[d].price \notin {"bonus", "tier"}

\* The lines have changed since the record was written, at catalogue prices.
Moved(d) == Has(d) /\ doc[d].loyalty.lines # doc[d].lines /\ doc[d].price = "full"

\* The record, if there is one, is about these lines.
SameLines(d) == Has(d) => doc[d].loyalty.lines = doc[d].lines

\* Outside the update the price is right or the update is due; during one it is
\* right, or the request is on its way to a reprice or to judging new lines.
PriceFits(d) ==
    LET o == doc[d]  r == run[d] IN
    /\ ~Busy(d) => \/ Right(d)
                   \/ o.changed /\ "reprice" \in o.tags /\ SameLines(d)
                   \/ o.changed /\ Moved(d)
    /\ r.pc = "price" => Right(d) \/ ("reprice" \in r.tags /\ SameLines(d)) \/ Moved(d)
    /\ r.pc \in {"code", "loyalty", "judge", "write"} => Right(d) \/ Moved(d)
    /\ r.pc \in {"forget", "unmirror"} => "reprice" \in r.next
    /\ r.pc = "forgetOnly" => "reprice" \in r.next \/ (~Has(d) /\ Right(d))
    /\ r.pc = "tags" => ("reprice" \in r.next /\ SameLines(d)) \/ Right(d)

\* No price and no mirror is left of a record that was taken off.
NoLeft(d) ==
    LET o == doc[d]  r == run[d] IN
    /\ o.price # "left"
    /\ r.pc # "unmirror" /\ ~Has(d) /\ ~o.code => ~o.mirror
    /\ ~Busy(d) /\ "apply" \in o.tags => ~Has(d)
    /\ r.pc \in {"price", "code", "loyalty", "judge"} /\ "apply" \in r.tags => ~Has(d)
    /\ r.pc = "forgetOnly" => ~Has(d)

LEMMA PromptForbids ==
  /\ Prompt => Calm /\ Steady /\ ~Allowed("early")
  /\ Fresh => Prompt /\ ~Allowed("refresh")
  BY DEF Prompt, Fresh, Calm, Steady, Only, Allowed

\* What staff find when they act on a draft whose update is over.
LEMMA SettledFits ==
  ASSUME NEW d \in Draft, TagsFit(d), PriceFits(d), ~Busy(d), ~doc[d].changed
  PROVE  /\ "on" \in doc[d].tags <=> Has(d)
         /\ ~(Has(d) /\ doc[d].code)
         /\ doc[d].tags \subseteq {"on"}
         /\ Right(d)
  BY DEF TagsFit, PriceFits

LEMMA PriceWait ==
  ASSUME NEW d, doc'[d] = doc[d], run'[d] = run[d]
  PROVE  /\ PriceFits(d) => PriceFits(d)'
         /\ NoLeft(d) => NoLeft(d)'
  BY DEF PriceFits, NoLeft, Right, Moved, SameLines, Rate, Has, NoLoyalty, Busy

LEMMA PriceInit == Init => \A d \in Draft : PriceFits(d) /\ NoLeft(d)
<1> SUFFICES ASSUME Init, NEW d \in Draft PROVE PriceFits(d) /\ NoLeft(d) OBVIOUS
<1>1. run[d].pc = "idle" BY SlotsApart DEF Init, Idle
<1>2. /\ doc[d].tags = {} /\ doc[d].loyalty = NoLoyalty /\ doc[d].price = "full"
      /\ doc[d].mirror = FALSE
  BY DEF Init
<1> QED BY <1>1, <1>2 DEF PriceFits, NoLeft, Right, Has, Busy

\* The price is as right as it was where neither lines, nor record, nor price change.
LEMMA RightSame ==
  ASSUME NEW d, doc'[d].loyalty = doc[d].loyalty, doc'[d].lines = doc[d].lines
  PROVE  /\ Has(d)' <=> Has(d)
         /\ SameLines(d)' <=> SameLines(d)
         /\ doc'[d].price = doc[d].price => (Right(d)' <=> Right(d)) /\ (Moved(d)' <=> Moved(d))
  BY DEF Has, NoLoyalty, SameLines, Right, Moved, Rate

LEMMA PriceStaff ==
  ASSUME TypeInv, Prompt, NEW d \in Draft, Staff(d), TagsFit(d), PriceFits(d)
  PROVE  PriceFits(d)' /\ (Fresh /\ NoLeft(d) => NoLeft(d)')
<1> DEFINE o == doc[d]
<1>1. run' = run /\ run[d].pc = "idle" BY StaffDoes
<1>2. o \in DocRec /\ ~Allowed("early") BY ChainTyped, PromptForbids
<1>3. ASSUME Right(d), doc'[d].loyalty = o.loyalty, doc'[d].lines = o.lines,
             doc'[d].price = o.price
      PROVE  PriceFits(d)'
  <2>1. Right(d)' BY <1>3, RightSame
  <2> QED BY <1>1, <2>1 DEF PriceFits, Busy
<1>5. ASSUME NEW t \in Tag, Touch(d), Edit(d, Tagged(d, t))
      PROVE  /\ doc'[d].tags = o.tags \cup {t} /\ doc'[d].loyalty = o.loyalty
             /\ doc'[d].lines = o.lines /\ doc'[d].price = o.price
             /\ doc'[d].code = o.code /\ doc'[d].mirror = o.mirror
             /\ Right(d)
  <2>1. /\ doc'[d] = [o EXCEPT !.tags = o.tags \cup {t}, !.changed = TRUE,
                         !.sent = doc'[d].sent] /\ ~o.changed
    BY <1>2, <1>5, TagDoes
  <2>2. Right(d) BY <1>1, <2>1, SettledFits DEF Busy
  <2> QED BY <1>2, <2>1, <2>2 DEF DocRec
<1>6. CASE PressApply(d)
  <2>1. Touch(d) /\ Edit(d, Tagged(d, "apply")) /\ "apply" \in Tag BY <1>6 DEF PressApply, Tag
  <2>2. Fresh => ~Has(d) BY <1>6, PromptForbids DEF PressApply
  <2>3. /\ doc'[d].tags = o.tags \cup {"apply"} /\ doc'[d].loyalty = o.loyalty
        /\ doc'[d].lines = o.lines /\ doc'[d].price = o.price
        /\ doc'[d].code = o.code /\ doc'[d].mirror = o.mirror /\ Right(d)
    BY <1>5, <2>1
  <2>4. Has(d)' <=> Has(d) BY <2>3, HasSame
  <2>5. Fresh /\ NoLeft(d) => NoLeft(d)' BY <1>1, <2>2, <2>3, <2>4 DEF NoLeft, Busy
  <2> QED BY <1>3, <2>3, <2>5
<1>7. CASE PressRemove(d) \/ AskCode(d)
  <2>1. PICK t \in {"remove", "code"} : Touch(d) /\ Edit(d, Tagged(d, t)) /\ t \in Tag
    BY <1>7 DEF PressRemove, AskCode, Tag
  <2>2. /\ doc'[d].tags = o.tags \cup {t} /\ doc'[d].loyalty = o.loyalty
        /\ doc'[d].lines = o.lines /\ doc'[d].price = o.price
        /\ doc'[d].code = o.code /\ doc'[d].mirror = o.mirror /\ Right(d)
    BY <1>5, <2>1
  <2>3. Has(d)' <=> Has(d) BY <2>2, HasSame
  <2>4. NoLeft(d) => NoLeft(d)' BY <1>1, <2>1, <2>2, <2>3 DEF NoLeft, Busy
  <2> QED BY <1>3, <2>2, <2>4
<1>8. CASE TypeCode(d)
  <2>1. /\ doc'[d] = [o EXCEPT !.tags = o.tags \cup {"reprice"}, !.code = TRUE, !.changed = TRUE,
                         !.sent = doc'[d].sent]
        /\ ~o.changed
    BY <1>2, <1>8, TypeCodeDoes
  <2>2. Right(d) BY <1>1, <2>1, SettledFits DEF Busy
  <2>3. /\ doc'[d].tags = o.tags \cup {"reprice"} /\ doc'[d].loyalty = o.loyalty
        /\ doc'[d].lines = o.lines /\ doc'[d].price = o.price /\ doc'[d].code
    BY <1>2, <2>1 DEF DocRec
  <2>4. Has(d)' <=> Has(d) BY <2>3, HasSame
  <2>5. NoLeft(d) => NoLeft(d)' BY <1>1, <2>3, <2>4 DEF NoLeft, Busy
  <2> QED BY <1>3, <2>2, <2>3, <2>5
<1>9. CASE \E p \in Pieces : ChangeLines(d, p)
  <2>1. PICK p \in Pieces : ChangeLines(d, p) BY <1>9
  <2>2. /\ doc'[d] = [o EXCEPT !.lines = p, !.price = "full", !.changed = TRUE, !.sent = doc'[d].sent]
        /\ p # o.lines /\ ~o.changed
    BY <1>2, <2>1, ChangeLinesDoes
  <2>3. Right(d) BY <1>1, <2>2, SettledFits DEF Busy
  <2>4. /\ doc'[d].lines = p /\ doc'[d].price = "full" /\ doc'[d].changed
        /\ doc'[d].loyalty = o.loyalty /\ doc'[d].tags = o.tags
        /\ doc'[d].code = o.code /\ doc'[d].mirror = o.mirror
    BY <1>2, <2>2 DEF DocRec
  <2>5. Has(d)' <=> Has(d) BY <2>4, HasSame
  <2>6. Right(d)' \/ Moved(d)' BY <2>2, <2>3, <2>4, <2>5 DEF Right, Moved
  <2>7. PriceFits(d)' BY <1>1, <2>4, <2>6 DEF PriceFits, Busy
  <2>8. NoLeft(d) => NoLeft(d)' BY <1>1, <2>4, <2>5 DEF NoLeft, Busy
  <2> QED BY <2>7, <2>8
<1>10. CASE Convert(d)
  <2>1. doc'[d] = [o EXCEPT !.state = "converted"] /\ ~o.changed BY <1>2, <1>10, ConvertDoes
  <2>2. Right(d) BY <1>1, <2>1, SettledFits DEF Busy
  <2>3. /\ doc'[d].tags = o.tags /\ doc'[d].loyalty = o.loyalty
        /\ doc'[d].lines = o.lines /\ doc'[d].price = o.price
        /\ doc'[d].code = o.code /\ doc'[d].mirror = o.mirror
    BY <1>2, <2>1 DEF DocRec
  <2>4. Has(d)' <=> Has(d) BY <2>3, HasSame
  <2>5. NoLeft(d) => NoLeft(d)' BY <1>1, <2>3, <2>4 DEF NoLeft, Busy
  <2> QED BY <1>3, <2>2, <2>3, <2>5
<1> QED BY <1>6, <1>7, <1>8, <1>9, <1>10 DEF Staff

LEMMA PriceChain ==
  ASSUME TypeInv, Prompt, NEW d \in Draft, ChainStart(d) \/ ChainStep(d),
         TagsFit(d), PriceFits(d)
  PROVE  PriceFits(d)' /\ (NoLeft(d) => NoLeft(d)')
<1> DEFINE o == doc[d]
           r == run[d]
<1>0. /\ o \in DocRec /\ (r.pc # "idle" => r \in ChainRun) /\ ~Allowed("fault")
  BY ChainTyped, PromptForbids, CalmForbids
<1>1. CASE Price(d)
  <2>1. /\ r.pc = "price" /\ r \in ChainRun /\ run'[d] = [r EXCEPT !.pc = "code"]
        /\ doc'[d] = IF "reprice" \in r.tags
                     THEN [o EXCEPT !.lines = r.lines, !.price = PriceOf(d), !.mirror = MirrorOf(d),
                                    !.tags = r.tags \ {"reprice"}, !.changed = TRUE]
                     ELSE o
    BY <1>1, PriceDoes DEF Moves
  <2>2. run'[d].pc = "code" /\ run'[d].tags = r.tags BY <2>1 DEF ChainRun
  <2>3. o.lines = r.lines BY <2>1 DEF TagsFit, Busy
  <2>4. CASE "reprice" \notin r.tags
    <3>1. doc'[d] = o BY <2>1, <2>4
    <3>2. /\ Has(d)' <=> Has(d)
          /\ Right(d)' <=> Right(d)
          /\ Moved(d)' <=> Moved(d)
      BY <3>1, RightSame
    <3> QED BY <2>1, <2>2, <2>4, <3>1, <3>2 DEF PriceFits, NoLeft, Busy
  <2>5. CASE "reprice" \in r.tags
    <3> DEFINE price == PriceOf(d)
               mirror == MirrorOf(d)
    <3>0. doc'[d] = [o EXCEPT !.lines = r.lines, !.price = price, !.mirror = mirror,
                              !.tags = r.tags \ {"reprice"}, !.changed = TRUE]
      BY <2>1, <2>5
    <3> HIDE DEF price, mirror
    <3>1. /\ doc'[d].price = price /\ doc'[d].mirror = mirror /\ doc'[d].code = o.code
          /\ doc'[d].loyalty = o.loyalty /\ doc'[d].lines = o.lines
      BY <1>0, <2>3, <3>0 DEF DocRec
    <3>2. Has(d)' <=> Has(d) BY <3>1, HasSame
    <3>3. Has(d) => price = IF o.loyalty.lines # o.lines THEN "full" ELSE Rate(d)
      BY <2>3 DEF price, PriceOf, Rate
    <3>4. ~Has(d) => /\ price \in {"code", "left", "full"}
                     /\ price = "left" => o.mirror /\ ~o.code
                     /\ price = "full" => ~mirror
                     /\ price = "code" => o.code
      BY DEF price, mirror, PriceOf, MirrorOf
    <3>5. Right(d)' \/ Moved(d)'
      BY <3>1, <3>2, <3>3, <3>4 DEF Right, Moved, Rate
    <3>6. PriceFits(d)' BY <2>2, <3>5 DEF PriceFits, Busy
    <3>7. NoLeft(d) => NoLeft(d)'
      <4> SUFFICES ASSUME NoLeft(d) PROVE NoLeft(d)' OBVIOUS
      <4>1. ~Has(d) /\ ~o.code => ~o.mirror BY <2>1 DEF NoLeft
      <4>2. price # "left" BY <3>3, <3>4, <4>1 DEF Rate
      <4>3. ~Has(d) /\ ~o.code => ~mirror BY <3>4, <4>2
      <4> QED BY <2>1, <2>2, <3>1, <3>2, <4>2, <4>3 DEF NoLeft, Busy
    <3> QED BY <3>6, <3>7
  <2> QED BY <2>4, <2>5
<1>2. CASE ApplyCode(d)
  <2>1. /\ r.pc = "code" /\ r \in ChainRun /\ run'[d] = [r EXCEPT !.pc = "loyalty"]
        /\ \/ doc'[d] = o
           \/ doc'[d] = [o EXCEPT !.tags = r.tags \ {"code"}, !.changed = TRUE]
           \/ doc'[d] = [o EXCEPT !.tags = (r.tags \ {"code"}) \cup {"reprice"},
                                  !.code = TRUE, !.changed = TRUE]
    BY <1>2, ApplyCodeDoes DEF Moves
  <2>2. run'[d].pc = "loyalty" /\ run'[d].tags = r.tags BY <2>1 DEF ChainRun
  <2>3. /\ doc'[d].price = o.price /\ doc'[d].mirror = o.mirror
        /\ doc'[d].loyalty = o.loyalty /\ doc'[d].lines = o.lines
        /\ doc'[d].code = o.code \/ doc'[d].code
    BY <1>0, <2>1 DEF DocRec
  <2>4. /\ Has(d)' <=> Has(d)
        /\ Right(d)' <=> Right(d)
        /\ Moved(d)' <=> Moved(d)
    BY <2>3, RightSame
  <2> QED BY <2>1, <2>2, <2>3, <2>4 DEF PriceFits, NoLeft, Busy
<1>3. ASSUME doc'[d] = o PROVE /\ Has(d)' <=> Has(d)
                               /\ SameLines(d)' <=> SameLines(d)
                               /\ Right(d)' <=> Right(d)
                               /\ Moved(d)' <=> Moved(d)
  BY <1>3, RightSame
<1>4. ASSUME NEW q, run'[d] = [r EXCEPT !.pc = "forget", !.next = q \cup {"reprice"}],
             r \in ChainRun, r.pc \in {"loyalty", "judge"}, doc'[d] = o
      PROVE  PriceFits(d)' /\ (NoLeft(d) => NoLeft(d)')
  <2>1. run'[d].pc = "forget" /\ run'[d].next = q \cup {"reprice"} BY <1>4 DEF ChainRun
  <2> QED BY <1>3, <1>4, <2>1 DEF PriceFits, NoLeft, Busy
<1>5. ASSUME NEW next, run'[d] = [r EXCEPT !.pc = "forgetOnly", !.next = next],
             Has(d) => "reprice" \in next, "apply" \in r.tags,
             r \in ChainRun, r.pc \in {"loyalty", "judge"}, doc'[d] = o
      PROVE  PriceFits(d)' /\ (NoLeft(d) => NoLeft(d)')
  <2>1. run'[d].pc = "forgetOnly" /\ run'[d].next = next BY <1>5 DEF ChainRun
  <2>2. "reprice" \in next \/ (~Has(d) /\ Right(d)) BY <1>5 DEF PriceFits, Moved
  <2>3. PriceFits(d)' BY <1>3, <1>5, <2>1, <2>2 DEF PriceFits, Busy
  <2>4. NoLeft(d) => NoLeft(d)' BY <1>3, <1>5, <2>1 DEF NoLeft, Busy
  <2> QED BY <2>3, <2>4
<1>6. CASE ReadDraft(d)
  <2> DEFINE kept == r.tags \ Ours
             rest == kept \cup (IF Has(d) THEN {"reprice"} ELSE {})
  <2>1. r.pc = "loyalty" /\ r \in ChainRun /\ doc'[d] = o BY <1>6, ReadDraftDoes
  <2>2. /\ "on" \in r.tags <=> Has(d)
        /\ \A t \in Ours : t \in o.tags <=> t \in r.tags
        /\ o.lines = r.lines
        /\ Right(d) \/ Moved(d)
    BY <2>1 DEF TagsFit, PriceFits, Busy
  <2>3. ASSUME run'[d] = Idle, Right(d) PROVE PriceFits(d)' /\ (NoLeft(d) => NoLeft(d)')
    <3>1. run'[d].pc = "idle" BY <2>3 DEF Idle
    <3>2. "apply" \in o.tags <=> "apply" \in r.tags BY <2>2 DEF Ours
    <3> QED BY <1>3, <2>1, <2>3, <3>1, <3>2 DEF PriceFits, NoLeft, Busy
  <2>4. CASE r.tags \cap Ours = {} /\ run'[d] = Idle
    <3>1. Right(d) BY <2>2, <2>4 DEF Ours, Moved
    <3> QED BY <2>3, <2>4, <3>1
  <2>5. CASE run'[d] = Idle /\ doc[d].loyalty.lines = r.lines
    <3>1. Right(d) BY <2>2, <2>5 DEF Moved
    <3> QED BY <2>3, <2>5, <3>1
  <2>6. CASE run'[d] = [r EXCEPT !.pc = "forget", !.next = kept \cup {"reprice"}]
    BY <1>4, <2>1, <2>6
  <2>7. CASE "apply" \in r.tags /\ run'[d] = [r EXCEPT !.pc = "forgetOnly", !.next = rest]
    <3>1. Has(d) => "reprice" \in rest OBVIOUS
    <3> HIDE DEF rest
    <3> QED BY <1>5, <2>1, <2>7, <3>1
  <2>8. CASE run'[d] = [r EXCEPT !.pc = "judge", !.had = Has(d)]
    <3> DEFINE had == Has(d)
    <3>1. run'[d] = [r EXCEPT !.pc = "judge", !.had = had] BY <2>8
    <3> HIDE DEF had
    <3>2. run'[d].pc = "judge" /\ run'[d].tags = r.tags BY <2>1, <3>1 DEF ChainRun
    <3> QED BY <1>3, <2>1, <2>2, <3>2 DEF PriceFits, NoLeft, Busy
  <2>9. CASE "on" \in r.tags /\ ~Has(d) BY <2>2, <2>9
  <2> QED BY <1>6, <2>4, <2>5, <2>6, <2>7, <2>8, <2>9, ReadDraftDoes
<1>7. CASE Judge(d)
  <2> DEFINE kept == r.tags \ Ours
             rest == kept \cup (IF r.had THEN {"reprice"} ELSE {})
  <2>1. r.pc = "judge" /\ r \in ChainRun /\ doc'[d] = o BY <1>7, JudgeDoes
  <2>2. r.had <=> Has(d) BY <2>1 DEF TagsFit
  <2>3. CASE \E b \in BonusRead(d, {}) : run'[d] = [r EXCEPT !.pc = "write", !.bonus = b]
    <3>1. run'[d].pc = "write" BY <2>1, <2>3 DEF ChainRun
    <3> QED BY <1>3, <2>1, <3>1 DEF PriceFits, NoLeft, Busy
  <2>4. CASE run'[d] = [r EXCEPT !.pc = "forget", !.next = kept \cup {"reprice"}]
    BY <1>4, <2>1, <2>4
  <2>5. CASE "apply" \in r.tags /\ run'[d] = [r EXCEPT !.pc = "forgetOnly", !.next = rest]
    <3>1. Has(d) => "reprice" \in rest BY <2>2
    <3> HIDE DEF rest
    <3> QED BY <1>5, <2>1, <2>5, <3>1
  <2> QED BY <1>7, <2>3, <2>4, <2>5, JudgeDoes
<1>8. CASE WriteRecord(d)
  <2>1. /\ r.pc = "write" /\ r \in ChainRun
        /\ doc'[d] = [o EXCEPT !.loyalty = [lines |-> r.lines, bonus |-> r.bonus]]
        /\ run'[d] = [r EXCEPT !.pc = "tags", !.next = (r.tags \ {"apply"}) \cup {"on", "reprice"}]
    BY <1>8, WriteRecordDoes
  <2>2. /\ doc'[d].loyalty = [lines |-> r.lines, bonus |-> r.bonus]
        /\ doc'[d].lines = o.lines /\ doc'[d].price = o.price
    BY <1>0, <2>1 DEF DocRec
  <2>3. o.lines = r.lines /\ r.lines \in Pieces BY <2>1 DEF TagsFit, Busy, ChainRun
  <2>4. Has(d)' /\ SameLines(d)'
    <3>1. doc'[d].loyalty.lines = r.lines BY <2>2
    <3> QED BY <2>2, <2>3, <3>1, LoyaltyBenefitAssumption DEF Has, NoLoyalty, SameLines
  <2>5. /\ run'[d].pc = "tags"
        /\ run'[d].next = (r.tags \ {"apply"}) \cup {"on", "reprice"}
    BY <2>1 DEF ChainRun
  <2> QED BY <2>1, <2>2, <2>4, <2>5 DEF PriceFits, NoLeft, Busy
<1>9. CASE Forget(d)
  <2>1. /\ r.pc \in {"forget", "forgetOnly"} /\ r \in ChainRun
        /\ doc'[d] = [o EXCEPT !.loyalty = NoLoyalty]
        /\ run'[d] = [r EXCEPT !.pc = IF r.pc = "forget" THEN "unmirror" ELSE "tags"]
    BY <1>0, <1>9, ForgetDoes
  <2>2. /\ doc'[d].loyalty = NoLoyalty /\ doc'[d].price = o.price
        /\ doc'[d].code = o.code /\ doc'[d].mirror = o.mirror
    BY <1>0, <2>1 DEF DocRec
  <2>3. ~Has(d)' /\ SameLines(d)' BY <2>2 DEF Has, NoLoyalty, SameLines
  <2>4. run'[d].next = r.next BY <2>1 DEF ChainRun
  <2>5. CASE r.pc = "forget"
    <3>1. run'[d].pc = "unmirror" BY <2>1, <2>5 DEF ChainRun
    <3> QED BY <2>2, <2>3, <2>4, <2>5, <3>1 DEF PriceFits, NoLeft, Busy
  <2>6. CASE r.pc = "forgetOnly"
    <3>1. run'[d].pc = "tags" BY <2>1, <2>6 DEF ChainRun
    <3>2. "reprice" \in r.next \/ (~Has(d) /\ Right(d)) BY <2>6 DEF PriceFits
    <3>3. ~Has(d) /\ Right(d) => Right(d)' BY <2>2, <2>3 DEF Right
    <3>4. PriceFits(d)' BY <2>3, <2>4, <3>1, <3>2, <3>3 DEF PriceFits, Busy
    <3>5. NoLeft(d) => NoLeft(d)' BY <2>2, <2>3, <2>6, <3>1 DEF NoLeft, Busy
    <3> QED BY <3>4, <3>5
  <2> QED BY <2>1, <2>5, <2>6
<1>10. CASE Unmirror(d)
  <2>1. /\ r.pc = "unmirror" /\ r \in ChainRun /\ run'[d] = [r EXCEPT !.pc = "tags"]
        /\ doc'[d] = [o EXCEPT !.mirror = FALSE]
    BY <1>0, <1>10, UnmirrorDoes DEF Moves
  <2>2. doc'[d].loyalty = o.loyalty /\ doc'[d].price = o.price /\ doc'[d].mirror = FALSE
    BY <1>0, <2>1 DEF DocRec
  <2>3. ~Has(d) /\ (Has(d)' <=> Has(d)) BY <2>1, <2>2, HasSame DEF TagsFit
  <2>4. run'[d].pc = "tags" /\ run'[d].next = r.next BY <2>1 DEF ChainRun
  <2>5. PriceFits(d)' BY <2>1, <2>3, <2>4 DEF PriceFits, Busy, SameLines, Has
  <2>6. NoLeft(d) => NoLeft(d)' BY <2>2, <2>3, <2>4 DEF NoLeft, Busy
  <2> QED BY <2>5, <2>6
<1>11. CASE WriteTags(d)
  <2>1. /\ r.pc = "tags" /\ run'[d] = Idle
        /\ doc'[d] = [o EXCEPT !.tags = r.next, !.changed = TRUE]
    BY <1>11, WriteTagsDoes
  <2>2. /\ doc'[d].loyalty = o.loyalty /\ doc'[d].lines = o.lines /\ doc'[d].price = o.price
        /\ doc'[d].code = o.code /\ doc'[d].mirror = o.mirror
        /\ doc'[d].tags = r.next /\ doc'[d].changed
    BY <1>0, <2>1 DEF DocRec
  <2>3. /\ Has(d)' <=> Has(d)
        /\ SameLines(d)' <=> SameLines(d)
        /\ Right(d)' <=> Right(d)
    BY <2>2, RightSame
  <2>4. run'[d].pc = "idle" /\ "apply" \notin r.next BY <2>1 DEF Idle, TagsFit
  <2>5. PriceFits(d)' BY <2>1, <2>2, <2>3, <2>4 DEF PriceFits, Busy
  <2>6. NoLeft(d) => NoLeft(d)' BY <2>1, <2>2, <2>3, <2>4 DEF NoLeft, Busy
  <2> QED BY <2>5, <2>6
<1>12. CASE ChainStart(d)
  <2>1. /\ CanStart(d)
        /\ doc'[d] = [o EXCEPT !.changed = FALSE, !.sent = doc'[d].sent]
        /\ run'[d] = Pass(o)
    BY <1>12, ChainStartDoes
  <2>2. /\ doc'[d].loyalty = o.loyalty /\ doc'[d].lines = o.lines /\ doc'[d].price = o.price
        /\ doc'[d].code = o.code /\ doc'[d].mirror = o.mirror
    BY <1>0, <2>1 DEF DocRec
  <2>3. /\ Has(d)' <=> Has(d)
        /\ SameLines(d)' <=> SameLines(d)
        /\ Right(d)' <=> Right(d)
        /\ Moved(d)' <=> Moved(d)
    BY <2>2, RightSame
  <2>4. run'[d].pc = "price" /\ run'[d].tags = o.tags /\ ~Busy(d) BY <2>1 DEF CanStart, Pass
  <2>5. PriceFits(d)' BY <2>3, <2>4 DEF PriceFits, Busy
  <2>6. NoLeft(d) => NoLeft(d)' BY <2>2, <2>3, <2>4 DEF NoLeft, Busy
  <2> QED BY <2>5, <2>6
<1> QED BY <1>1, <1>2, <1>6, <1>7, <1>8, <1>9, <1>10, <1>11, <1>12 DEF ChainStep

LEMMA PriceStep ==
  ASSUME TypeInv, Prompt, \A d \in Draft : TagsFit(d), \A d \in Draft : PriceFits(d), [Next]_vars
  PROVE  /\ \A d \in Draft : PriceFits(d)'
         /\ Fresh /\ (\A d \in Draft : NoLeft(d)) => \A d \in Draft : NoLeft(d)'
<1>1. ASSUME NEW d \in Draft, OnlyDraft(d), PriceFits(d)', Fresh /\ NoLeft(d) => NoLeft(d)'
      PROVE  /\ \A e \in Draft : PriceFits(e)'
             /\ Fresh /\ (\A e \in Draft : NoLeft(e)) => \A e \in Draft : NoLeft(e)'
  <2>1. \A e \in Draft \ {d} : PriceFits(e)' /\ (NoLeft(e) => NoLeft(e)')
    BY <1>1, DraftsApart, PriceWait
  <2> QED BY <1>1, <2>1
<1>2. CASE \E d \in Draft : Staff(d) BY <1>1, <1>2, PriceStaff, StaffDoes
<1>3. CASE \E d \in Draft : ChainStart(d) \/ ChainStep(d)
  BY <1>1, <1>3, PriceChain, ChainTypes
<1>4. CASE doc' = doc /\ \A d \in Draft : run'[d] = run[d] BY <1>4, PriceWait
<1> QED BY <1>2, <1>3, <1>4, PromptForbids, SteadyNext, CalmNext, DraftsWait

--------------------
(* Sales and ledger *)

\* The entry that the sale of a draft makes.
Due(d) == IF Has(d) THEN <<doc[d].loyalty.bonus>> ELSE <<>>
Handling(d) == Busy(Hook) /\ run[Hook].sale = d

\* A code on an order is used, or its sale is still to be handled, or being so.
CodesHeard ==
    \A c \in ordered : \/ c \in hooks
                       \/ row[c].status = "used"
                       \/ run[Hook].pc \in {"code", "use"} /\ run[Hook].sale = c

\* A sold draft stays as it is, and the ledger has its entry once it is heard of.
DraftHeard(d) ==
    /\ ~Sold(d) => store[d] = <<>> /\ d \notin hooks /\ ~Handling(d)
    /\ Sold(d) => /\ ~Busy(d) /\ ~doc[d].changed /\ store[d] \in {<<>>, Due(d)}
                  /\ d \in hooks \/ Handling(d) \/ store[d] = Due(d)

RecordDue ==
    run[Hook].pc = "record" => LET d == run[Hook].sale IN
                               store[d] = <<>> /\ "on" \in doc[d].tags

SaleFits == CodesHeard /\ (\A d \in Draft : DraftHeard(d)) /\ RecordDue

LEMMA SaleInit == Init => SaleFits
<1> SUFFICES ASSUME Init PROVE SaleFits OBVIOUS
<1>1. \A s \in Slot : run[s].pc = "idle" BY DEF Init, Idle
<1>2. ordered = {} /\ hooks = {} /\ \A d \in Draft : store[d] = <<>> /\ doc[d].state = "open"
  BY DEF Init
<1> QED BY <1>1, <1>2, SlotsApart DEF SaleFits, CodesHeard, DraftHeard, RecordDue, Handling, Busy, Sold

LEMMA SaleWait ==
  ASSUME NEW d, DraftHeard(d), doc'[d] = doc[d], run'[d] = run[d], run'[Hook] = run[Hook],
         store'[d] = store[d], d \in hooks' <=> d \in hooks
  PROVE  DraftHeard(d)'
  BY DEF DraftHeard, Sold, Handling, Due, Has, NoLoyalty, Busy

\* A pass over a draft does not sell it.
LEMMA ChainStays ==
  ASSUME TypeInv, NEW d \in Draft, ChainStart(d) \/ ChainStep(d)
  PROVE  doc'[d].state = doc[d].state
<1>0. doc \in [Draft -> DocRec] /\ doc[d] \in DocRec BY ChainTyped
<1>1. CASE Price(d)
  <2>1. CASE doc' = doc BY <2>1
  <2>2. CASE doc' = [doc EXCEPT ![d].lines = run[d].lines, ![d].price = PriceOf(d),
                                ![d].mirror = MirrorOf(d),
                                ![d].tags = run[d].tags \ {"reprice"}, ![d].changed = TRUE]
    BY <1>0, <2>2 DEF DocRec
  <2> QED BY <1>1, <2>1, <2>2 DEF Price
<1>2. CASE ApplyCode(d) BY <1>0, <1>2 DEF ApplyCode, DocRec
<1>3. CASE ReadDraft(d) \/ Judge(d) BY <1>3, ReadDraftDoes, JudgeDoes
<1>4. CASE WriteRecord(d)
  <2>1. doc'[d] = [doc[d] EXCEPT !.loyalty = [lines |-> run[d].lines, bonus |-> run[d].bonus]]
    BY <1>4, WriteRecordDoes
  <2> QED BY <1>0, <2>1 DEF DocRec
<1>5. CASE Forget(d)
  <2>1. doc'[d] = [doc[d] EXCEPT !.loyalty = NoLoyalty] \/ doc'[d] = doc[d] BY <1>5, ForgetDoes
  <2> QED BY <1>0, <2>1 DEF DocRec
<1>6. CASE Unmirror(d)
  <2>1. doc'[d] = [doc[d] EXCEPT !.mirror = FALSE] \/ doc'[d] = doc[d] BY <1>6, UnmirrorDoes
  <2> QED BY <1>0, <2>1 DEF DocRec
<1>7. CASE WriteTags(d)
  <2>1. doc'[d] = [doc[d] EXCEPT !.tags = run[d].next, !.changed = TRUE] BY <1>7, WriteTagsDoes
  <2> QED BY <1>0, <2>1 DEF DocRec
<1>8. CASE ChainStart(d)
  <2>1. doc'[d] = [doc[d] EXCEPT !.changed = FALSE, !.sent = doc'[d].sent] BY <1>8, ChainStartDoes
  <2> QED BY <1>0, <2>1 DEF DocRec
<1> QED BY <1>1, <1>2, <1>3, <1>4, <1>5, <1>6, <1>7, <1>8 DEF ChainStep

LEMMA StaffQuiet ==
  ASSUME Calm, NEW d \in Draft, Staff(d)
  PROVE  Quiet
  BY CalmForbids DEF Staff, PressApply, PressRemove, AskCode, TypeCode, Convert, ChangeLines, Touch

\* Unless a draft is being sold, staff leave it open and unsold.
LEMMA StaffSells ==
  ASSUME TypeInv, Prompt, NEW d \in Draft, Staff(d)
  PROVE  /\ doc[d].state = "open"
         /\ \/ doc'[d].state = "open" /\ hooks' = hooks
            \/ /\ doc'[d].state = "converted" /\ hooks' = hooks \cup {d}
               /\ ~doc'[d].changed
<1> DEFINE o == doc[d]
<1>0. o \in DocRec /\ ~Allowed("early") BY ChainTyped, PromptForbids
<1>1. ASSUME NEW t \in Tag, Touch(d), Edit(d, Tagged(d, t))
      PROVE  o.state = "open" /\ doc'[d].state = "open" /\ hooks' = hooks
  <2>1. /\ doc'[d] = [o EXCEPT !.tags = o.tags \cup {t}, !.changed = TRUE, !.sent = doc'[d].sent]
        /\ o.state = "open" /\ hooks' = hooks
    BY <1>1, TagDoes
  <2> QED BY <1>0, <2>1 DEF DocRec
<1>2. CASE PressApply(d) \/ PressRemove(d) \/ AskCode(d)
  BY <1>1, <1>2 DEF PressApply, PressRemove, AskCode, Tag
<1>3. CASE TypeCode(d)
  <2>1. /\ doc'[d] = [o EXCEPT !.tags = o.tags \cup {"reprice"}, !.code = TRUE, !.changed = TRUE,
                         !.sent = doc'[d].sent]
        /\ o.state = "open" /\ hooks' = hooks
    BY <1>3, TypeCodeDoes
  <2> QED BY <1>0, <2>1 DEF DocRec
<1>4. CASE \E p \in Pieces : ChangeLines(d, p)
  <2>1. PICK p \in Pieces : ChangeLines(d, p) BY <1>4
  <2>2. /\ doc'[d] = [o EXCEPT !.lines = p, !.price = "full", !.changed = TRUE, !.sent = doc'[d].sent]
        /\ o.state = "open" /\ hooks' = hooks
    BY <2>1, ChangeLinesDoes
  <2> QED BY <1>0, <2>2 DEF DocRec
<1>5. CASE Convert(d)
  <2>1. /\ doc'[d] = [o EXCEPT !.state = "converted"] /\ o.state = "open" /\ ~o.changed
        /\ hooks' = hooks \cup {d}
    BY <1>0, <1>5, ConvertDoes
  <2> QED BY <1>0, <2>1 DEF DocRec
<1> QED BY <1>2, <1>3, <1>4, <1>5 DEF Staff

LEMMA CodesApart == TypeInv => ordered \subseteq Code /\ Code \cap Draft = {}
  BY LoyaltyBenefitAssumption DEF TypeInv, Tables, RowsKnown

LEMMA SaleHook ==
  ASSUME TypeInv, Calm, UsedKept, SaleFits, \A d \in Draft : TagsFit(d),
         HookStep \/ \E h \in hooks : HookStart(h)
  PROVE  SaleFits'
<1> DEFINE s == run[Hook].sale
<1>1. doc' = doc /\ ordered' = ordered /\ \A d \in Draft : run'[d] = run[d]
  BY DraftsWait, HookTypes DEF OnlyHook
<1>2. \A d \in Draft : (Sold(d)' <=> Sold(d)) /\ Due(d)' = Due(d) /\ (Busy(d)' <=> Busy(d))
  BY <1>1 DEF Sold, Due, Has, NoLoyalty, Busy
<1>3. ordered \subseteq Code /\ Code \cap Draft = {} BY CodesApart
<1>5. CASE \E h \in hooks : HookStart(h)
  <2>1. PICK h \in hooks : HookStart(h) BY <1>5
  <2>2. /\ store' = store /\ row' = row /\ run[Hook].pc = "idle"
        /\ hooks \ {h} \subseteq hooks' /\ hooks' \subseteq hooks
        /\ run'[Hook] = [pc |-> IF h \in Draft THEN "look" ELSE "code", sale |-> h]
    BY <2>1, HookStartDoes DEF CanStart, Busy
  <2>3. run'[Hook].sale = h /\ run'[Hook].pc = IF h \in Draft THEN "look" ELSE "code" BY <2>2
  <2>4. CodesHeard' BY <1>1, <1>3, <2>2, <2>3 DEF SaleFits, CodesHeard
  <2>5. \A d \in Draft : DraftHeard(d)'
    BY <1>1, <1>2, <2>2, <2>3 DEF SaleFits, DraftHeard, Handling, Busy
  <2> QED BY <2>3, <2>4, <2>5 DEF SaleFits, RecordDue
<1>6. CASE LookStore
  <2>1. /\ store' = store /\ row' = row /\ hooks' = hooks /\ run[Hook].pc = "look"
        /\ run[Hook] \in HookRun /\ s \in Draft
        /\ \/ /\ "on" \in doc[s].tags /\ store[s] = <<>>
              /\ run'[Hook] = [run[Hook] EXCEPT !.pc = "record"]
           \/ ~("on" \in doc[s].tags /\ store[s] = <<>>) /\ run'[Hook] = Idle
    BY <1>6, LookStoreDoes
  <2>2. CodesHeard' BY <1>1, <2>1 DEF SaleFits, CodesHeard
  <2>3. CASE /\ "on" \in doc[s].tags /\ store[s] = <<>>
             /\ run'[Hook] = [run[Hook] EXCEPT !.pc = "record"]
    <3>1. run'[Hook].pc = "record" /\ run'[Hook].sale = s BY <2>1, <2>3 DEF HookRun
    <3>2. \A d \in Draft : DraftHeard(d)'
      BY <1>1, <1>2, <2>1, <3>1 DEF SaleFits, DraftHeard, Handling, Busy
    <3> QED BY <1>1, <2>1, <2>2, <2>3, <3>1, <3>2 DEF SaleFits, RecordDue
  <2>4. CASE ~("on" \in doc[s].tags /\ store[s] = <<>>) /\ run'[Hook] = Idle
    <3>1. run'[Hook].pc = "idle" BY <2>4 DEF Idle
    <3>2. Sold(s) /\ ~Busy(s) /\ store[s] \in {<<>>, Due(s)}
      BY <2>1 DEF SaleFits, DraftHeard, Handling, Busy
    <3>3. store[s] = Due(s)
      <4>1. store[s] = <<>> => ~Has(s) BY <2>1, <2>4, <3>2 DEF TagsFit
      <4> QED BY <3>2, <4>1 DEF Due
    <3>4. \A d \in Draft : DraftHeard(d)'
      BY <1>1, <1>2, <2>1, <3>1, <3>3 DEF SaleFits, DraftHeard, Handling, Busy
    <3> QED BY <2>2, <3>1, <3>4 DEF SaleFits, RecordDue
  <2> QED BY <2>1, <2>3, <2>4
<1>7. CASE RecordStore
  <2>1. /\ row' = row /\ hooks' = hooks /\ run[Hook].pc = "record" /\ s \in Draft
        /\ run'[Hook] = Idle /\ \A e \in Draft \ {s} : store'[e] = store[e]
        /\ store'[s] = IF Has(s) THEN Append(store[s], doc[s].loyalty.bonus) ELSE store[s]
    BY <1>7, RecordStoreDoes
  <2>2. run'[Hook].pc = "idle" BY <2>1 DEF Idle
  <2>3. CodesHeard' BY <1>1, <2>1 DEF SaleFits, CodesHeard
  <2>4. Sold(s) /\ store[s] = <<>> BY <2>1 DEF SaleFits, DraftHeard, RecordDue, Handling, Busy
  <2>5. store'[s] = Due(s)
    <3>1. Append(<<>>, doc[s].loyalty.bonus) = <<doc[s].loyalty.bonus>> OBVIOUS
    <3> QED BY <2>1, <2>4, <3>1 DEF Due
  <2>6. \A d \in Draft : DraftHeard(d)'
    BY <1>1, <1>2, <2>1, <2>2, <2>4, <2>5 DEF SaleFits, DraftHeard, Handling, Busy
  <2> QED BY <2>2, <2>3, <2>6 DEF SaleFits, RecordDue
<1>8. CASE ReadCode \/ UseCode \/ Tidy
  <2>1. /\ store' = store /\ hooks' = hooks /\ s \in ordered
        /\ run[Hook].pc \in {"code", "use", "tidy"} /\ run[Hook] \in HookRun
    BY <1>8, ReadCodeDoes, UseCodeDoes, TidyDoes
  <2>2. \/ run'[Hook].pc = "idle" /\ (run[Hook].pc = "tidy" \/ row[s].status = "used")
        \/ run'[Hook].pc = "use" /\ run'[Hook].sale = s
        \/ run'[Hook].pc = "tidy" /\ run'[Hook].sale = s /\ row'[s].status = "used"
    <3>1. CASE ReadCode
      <4>1. \/ row[s].status = "used" /\ run'[Hook] = Idle
            \/ run'[Hook] = [run[Hook] EXCEPT !.pc = "use"]
        BY <3>1, ReadCodeDoes
      <4> QED BY <2>1, <4>1 DEF HookRun, Idle
    <3>2. CASE UseCode
      <4>1. run'[Hook] = [run[Hook] EXCEPT !.pc = "tidy"] /\ row'[s].status = "used"
        BY <3>2, UseCodeDoes
      <4> QED BY <2>1, <4>1 DEF HookRun
    <3>3. CASE Tidy BY <3>3, TidyDoes DEF Idle
    <3> QED BY <1>8, <3>1, <3>2, <3>3
  <2>3. CodesHeard' BY <1>1, <1>3, <2>1, <2>2 DEF SaleFits, CodesHeard, UsedKept
  <2>4. \A d \in Draft : ~Handling(d) /\ ~Handling(d)'
    BY <1>3, <2>1, <2>2 DEF Handling, Busy
  <2>5. \A d \in Draft : DraftHeard(d)'
    BY <1>1, <1>2, <2>1, <2>4 DEF SaleFits, DraftHeard
  <2> QED BY <2>2, <2>3, <2>5 DEF SaleFits, RecordDue
<1> QED BY <1>5, <1>6, <1>7, <1>8 DEF HookStep

LEMMA SaleStep ==
  ASSUME TypeInv, Prompt, OneBusy, UsedKept, SaleFits, \A d \in Draft : TagsFit(d), [Next]_vars
  PROVE  SaleFits'
<1>0. Calm /\ \A d \in Draft : ~ChainAgain(d) BY PromptForbids, SteadyNext
<1>1. ASSUME NEW d \in Draft, OnlyDraft(d), run[Hook].pc = "idle", run'[Hook] = run[Hook],
             DraftHeard(d)', hooks' = hooks \/ hooks' = hooks \cup {d}
      PROVE  SaleFits'
  <2>1. row' = row /\ store' = store /\ ordered' = ordered BY <1>1 DEF OnlyDraft
  <2>2. CodesHeard' BY <1>1, <2>1 DEF SaleFits, CodesHeard
  <2>3. \A e \in Draft \ {d} : DraftHeard(e)'
    <3> TAKE e \in Draft \ {d}
    <3>1. doc'[e] = doc[e] /\ run'[e] = run[e] BY <1>1, DraftsApart
    <3> QED BY <1>1, <2>1, <3>1, SaleWait DEF SaleFits
  <2> QED BY <1>1, <2>2, <2>3 DEF SaleFits, RecordDue
<1>2. ASSUME run'[Hook] = run[Hook], doc' = doc, \A d \in Draft : run'[d] = run[d],
             store' = store, hooks \subseteq hooks', hooks' \cap Draft = hooks \cap Draft,
             ordered' \subseteq ordered \cup hooks'
      PROVE  SaleFits'
  <2>1. CodesHeard'
    <3>1. ordered \subseteq Code BY CodesApart
    <3> QED BY <1>2, <3>1 DEF SaleFits, CodesHeard, UsedKept
  <2>2. \A d \in Draft : DraftHeard(d)'
    <3> TAKE d \in Draft
    <3>1. d \in hooks' <=> d \in hooks BY <1>2
    <3> QED BY <1>2, <3>1, SaleWait DEF SaleFits
  <2> QED BY <1>2, <2>1, <2>2 DEF SaleFits, RecordDue
<1>3. CASE UNCHANGED vars BY <1>2, <1>3 DEF vars
<1>4. CASE \E d \in Draft : Staff(d)
  <2>1. PICK d \in Draft : Staff(d) BY <1>4
  <2>2. OnlyDraft(d) /\ run' = run BY <2>1, StaffDoes
  <2>3. \A s \in Slot : run[s].pc = "idle" BY <1>0, <2>1, StaffQuiet DEF Quiet, Busy
  <2>4. /\ doc[d].state = "open"
        /\ \/ doc'[d].state = "open" /\ hooks' = hooks
           \/ /\ doc'[d].state = "converted" /\ hooks' = hooks \cup {d}
              /\ ~doc'[d].changed
    BY <2>1, StaffSells
  <2>5. store' = store BY <2>2 DEF OnlyDraft
  <2>6. DraftHeard(d)'
    BY <2>2, <2>3, <2>4, <2>5, SlotsApart DEF SaleFits, DraftHeard, Sold, Handling, Busy
  <2> QED BY <1>1, <2>2, <2>3, <2>4, <2>6, SlotsApart
<1>5. CASE \E d \in Draft : ChainStart(d) \/ ChainStep(d)
  <2>1. PICK d \in Draft : ChainStart(d) \/ ChainStep(d) BY <1>5
  <2>2. OnlyDraft(d) /\ hooks' = hooks /\ doc'[d].state = doc[d].state
    BY <2>1, ChainTypes, ChainStays
  <2>3. run[Hook].pc = "idle" /\ run'[Hook] = run[Hook]
    BY <1>0, <2>1, <2>2, StepsBusy, StartsQuiet, OthersIdle, SlotsApart DEF OnlyDraft, OnlySlot
  <2>4. ~Sold(d)
    <3>1. CASE ChainStart(d) BY <3>1, ChainStartDoes DEF Sold
    <3>2. CASE ChainStep(d) BY <3>2, StepsBusy DEF SaleFits, DraftHeard
    <3> QED BY <2>1, <3>1, <3>2
  <2>5. store' = store BY <2>2 DEF OnlyDraft
  <2>6. DraftHeard(d)' BY <2>2, <2>3, <2>4, <2>5 DEF SaleFits, DraftHeard, Sold, Handling, Busy
  <2> QED BY <1>1, <2>2, <2>3, <2>6
<1>6. CASE ShopStep \/ \E k \in Cart, promo \in BOOLEAN : Ask(k, promo)
  <2>1. OnlyShop BY <1>6, ShopTypes
  <2>2. doc' = doc /\ \A d \in Draft : run'[d] = run[d] BY <1>6, DraftsWait
  <2>3. run'[Hook] = run[Hook] BY <2>1, SlotsApart DEF OnlyShop, OnlySlot
  <2> QED BY <1>2, <2>1, <2>2, <2>3 DEF OnlyShop
<1>7. CASE HookStep \/ \E h \in hooks : HookStart(h) BY <1>0, <1>7, SaleHook
<1>8. CASE SweepStep \/ SweepStart
  <2>1. OnlySweep BY <1>8, SweepTypes
  <2>2. doc' = doc /\ \A d \in Draft : run'[d] = run[d] BY <1>8, DraftsWait
  <2>3. run'[Hook] = run[Hook] BY <2>1, SlotsApart DEF OnlySweep, OnlySlot
  <2> QED BY <1>2, <2>1, <2>2, <2>3 DEF OnlySweep
<1>9. CASE Event
  <2>1. CASE \E c \in Code : Buy(c)
    <3>1. PICK c \in Code : Buy(c) BY <2>1
    <3>2. /\ UNCHANGED <<store, doc, run>>
          /\ ordered' = ordered \cup {c} /\ hooks' = hooks \cup {c} /\ c \notin Draft
      BY <3>1, BuyDoes, LoyaltyBenefitAssumption
    <3> QED BY <1>2, <3>2
  <2>2. CASE (\E k \in Cart : ChangePrice(k)) \/ FallBelow
    BY <1>2, <2>2 DEF ChangePrice, FallBelow
  <2>3. CASE \E c \in Code : Lapse(c) BY <1>2, <2>3, LapseDoes
  <2> QED BY <1>9, <2>1, <2>2, <2>3 DEF Event
<1> QED BY <1>0, <1>3, <1>4, <1>5, <1>6, <1>7, <1>8, <1>9, CalmNext

--------------------
(* The records agree *)

CalmInv == Calm => OneBusy /\ ListsUnused
SteadyInv == Steady => \A d \in Draft : TagsFit(d)
PromptInv == Prompt => (\A d \in Draft : PriceFits(d)) /\ SaleFits
FreshInv == Fresh => \A d \in Draft : NoLeft(d)
RecordsInv == TypeInv /\ CalmInv /\ SteadyInv /\ PromptInv /\ FreshInv

LEMMA RecordsInit == Init => RecordsInv
<1> SUFFICES ASSUME Init PROVE RecordsInv OBVIOUS
<1>1. \A s \in Slot : run[s].pc = "idle" BY DEF Init, Idle
<1>2. OneBusy BY <1>1 DEF OneBusy, Busy
<1>3. ListsUnused BY <1>1, SlotsApart DEF ListsUnused, ShopUnused, SweepUnused
<1> QED BY <1>2, <1>3, InitTypes, TagsInit, PriceInit, SaleInit
        DEF RecordsInv, CalmInv, SteadyInv, PromptInv, FreshInv

LEMMA RecordsStep == RecordsInv /\ [Next]_vars => RecordsInv' /\ (Calm => UsedKept)
<1> SUFFICES ASSUME RecordsInv, [Next]_vars PROVE RecordsInv' /\ (Calm => UsedKept) OBVIOUS
<1>1. TypeInv /\ CalmInv /\ SteadyInv /\ PromptInv /\ FreshInv BY DEF RecordsInv
<1>2. (Calm' <=> Calm) /\ (Steady' <=> Steady) /\ (Prompt' <=> Prompt) /\ (Fresh' <=> Fresh)
  BY CaseStays DEF Calm, Steady, Prompt, Fresh, Only
<1>3. TypeInv' BY <1>1, NextTypes
<1>4. /\ Calm => OneBusy' /\ ListsUnused' /\ UsedKept
      /\ Steady => \A d \in Draft : TagsFit(d)'
  BY <1>1, OneBusyStep, ListsStep, TagsStep DEF CalmInv, SteadyInv
<1>5. Prompt => Calm /\ Steady BY PromptForbids
<1>6. Fresh => Prompt BY PromptForbids
<1>7. Prompt => (\A d \in Draft : PriceFits(d)') /\ SaleFits'
  BY <1>1, <1>4, <1>5, PriceStep, SaleStep DEF CalmInv, SteadyInv, PromptInv
<1>8. Fresh => \A d \in Draft : NoLeft(d)'
  BY <1>1, <1>5, <1>6, PriceStep DEF SteadyInv, PromptInv, FreshInv
<1> QED BY <1>2, <1>3, <1>4, <1>7, <1>8 DEF RecordsInv, CalmInv, SteadyInv, PromptInv, FreshInv

LEMMA RecordsAlways == Spec => []RecordsInv
<1>1. Init => RecordsInv BY RecordsInit
<1>2. RecordsInv /\ [Next]_vars => RecordsInv' BY RecordsStep
<1> QED BY <1>1, <1>2, PTL DEF Spec

LEMMA RecordsGive == RecordsInv => RecordsAgree
<1> SUFFICES ASSUME RecordsInv PROVE RecordsAgree OBVIOUS
<1>1. TypeInv /\ SteadyInv /\ PromptInv /\ FreshInv BY DEF RecordsInv
<1>2. \A d \in Draft : doc[d] \in DocRec BY <1>1, ChainTyped
<1>3. TypeOK BY <1>1, TypeInvTypes
<1>4. TagIsRecord
  <2>1. SUFFICES ASSUME Steady, NEW d \in Draft, Settled(d)
                 PROVE  /\ "on" \in doc[d].tags <=> Has(d)
                        /\ ~(Has(d) /\ doc[d].code)
                        /\ doc[d].tags \subseteq {"on"}
    BY DEF TagIsRecord, Steady
  <2>2. TagsFit(d) /\ ~Busy(d) /\ ~doc[d].changed BY <1>1, <2>1 DEF SteadyInv, Settled
  <2> QED BY <2>2 DEF TagsFit
<1>5. PriceIsRecord
  <2>1. SUFFICES ASSUME Fresh, NEW d \in Draft, Settled(d)
                 PROVE  IF Has(d) THEN doc[d].price = IF doc[d].loyalty.bonus THEN "bonus" ELSE "tier"
                        ELSE doc[d].price \in {"full", "code"}
    BY DEF PriceIsRecord, Fresh
  <2>2. Right(d) /\ doc[d].price # "left"
    BY <1>1, <2>1, PromptForbids DEF PromptInv, FreshInv, PriceFits, NoLeft, Settled
  <2>3. doc[d].price \in Tier BY <1>2 DEF DocRec
  <2> QED BY <2>2, <2>3 DEF Right, Rate, Tier
<1>6. SaleRecorded
  <2>1. {"counter", "refresh", "amount", "late", "again"} =
          Trouble \ {"early", "stale", "fault", "overlap"}
    BY DEF Trouble
  <2>2. SUFFICES ASSUME Prompt, ~Busy(Hook)
                 PROVE  /\ \A c \in ordered \ hooks : row[c].status = "used"
                        /\ \A d \in Draft \ hooks : Sold(d) =>
                              store[d] = CASE doc[d].price = "bonus" -> <<TRUE>>
                                           [] doc[d].price = "tier" -> <<FALSE>>
                                           [] OTHER -> <<>>
    BY <2>1 DEF SaleRecorded, Prompt
  <2>3. SaleFits /\ \A d \in Draft : PriceFits(d) BY <1>1, <2>2 DEF PromptInv
  <2>4. \A c \in ordered \ hooks : row[c].status = "used"
    BY <2>2, <2>3 DEF SaleFits, CodesHeard, Busy
  <2>5. ASSUME NEW d \in Draft \ hooks, Sold(d)
        PROVE  store[d] = CASE doc[d].price = "bonus" -> <<TRUE>>
                            [] doc[d].price = "tier" -> <<FALSE>>
                            [] OTHER -> <<>>
    <3>1. store[d] = Due(d) /\ ~Busy(d) /\ ~doc[d].changed
      BY <2>2, <2>3, <2>5 DEF SaleFits, DraftHeard, Handling
    <3>2. Right(d) BY <2>3, <3>1 DEF PriceFits
    <3>3. doc[d].loyalty.bonus \in BOOLEAN BY <1>2 DEF DocRec, LoyaltyRec
    <3>4. CASE Has(d) /\ doc[d].loyalty.bonus = TRUE
      BY <3>1, <3>2, <3>4 DEF Due, Right, Rate
    <3>5. CASE Has(d) /\ doc[d].loyalty.bonus = FALSE
      BY <3>1, <3>2, <3>5 DEF Due, Right, Rate
    <3>6. CASE ~Has(d) BY <3>1, <3>2, <3>6 DEF Due, Right
    <3> QED BY <3>3, <3>4, <3>5, <3>6
  <2> QED BY <2>4, <2>5
<1> QED BY <1>3, <1>4, <1>5, <1>6 DEF RecordsAgree

(* A sale with the benefit that was heard of is in the ledger, once and    *)
(* with the bonus if and only if the price had it; the tag of a draft says *)
(* what its record says, and so does the price, with nothing left of a     *)
(* record that was taken off: the places where draft.js, online.js and     *)
(* earn.js write that a draft or a sale has the benefit agree, as long as  *)
(* the updates of a draft come in order.                                   *)
THEOREM RecordsAgreeHolds == Spec => []RecordsAgree
  BY RecordsAlways, RecordsGive, PTL

(* A used code stays used, as long as requests run one at a time and no    *)
(* call fails: neither supersedeCodes nor expireCodes, which write         *)
(* 'expired' by id, ever has a used code on its list.                      *)
THEOREM UsedStaysHolds == Spec => UsedStays
<1>1. RecordsInv /\ [Next]_vars =>
        [Only(Trouble \ {"fault", "overlap"}) =>
           \A c \in Code : row[c].status = "used" => row'[c].status = "used"]_vars
  BY RecordsStep DEF Calm, UsedKept
<1> QED BY <1>1, RecordsAlways, PTL DEF Spec, UsedStays

--------------------
(* The bonus is good for one purchase *)

\* One place at a time, constant prices, sales heard of before the next request.
Narrow == Only({"refresh", "again"})

\* Carts cost what they cost; a request other than that of a sale finds no sale
\* to be handled; a code has lost its discount before its row is expired.
PricesFlat ==
    /\ \A k \in Cart : cart[k] = 0
    /\ \A c \in Code : row[c].price = 0
    /\ Busy(Shop) => run[Shop].price = 0

SalesFirst == \A s \in Slot \ {Hook} : Busy(s) => hooks = {}

NodesGone ==
    /\ \A c \in Code : row[c].status = "expired" => node[c] = "gone"
    /\ run[Shop].pc = "retired" => node[run[Shop].old] = "gone"
    /\ run[Sweep].pc = "expired" => node[run[Sweep].code] = "gone"

Flat == PricesFlat /\ SalesFirst /\ NodesGone

\* The benefit is asked for at one place: on one draft, or in the shop.
Asks(d) == doc[d].state = "open" /\ (Has(d) \/ Asked(d))
OneAsks ==
    /\ \A d, e \in Draft : Asks(d) /\ Asks(e) => d = e
    /\ Busy(Shop) => \A d \in Draft : ~Asks(d)

\* Who holds the bonus: a code with it that is good for an order or on one, a
\* draft whose record has it.
CodeClaims == {c \in Code : row[c].bonus /\ (c \in ordered \/ Pending(c))}
DraftClaims == {d \in Draft : Has(d) /\ doc[d].loyalty.bonus}
Claims == CodeClaims \cup DraftClaims
AtMostOne(S) == \A x, y \in S : x = y

\* One does, but while the codes that a new one replaces are taken back; and a
\* request that gives the bonus knows whoever holds it.
OneClaim ==
    LET r == run[Shop] IN
    /\ AtMostOne(Claims) \/ r.pc \in {"retire", "retired"}
    /\ r.pc \in {"mint", "insert"} /\ r.bonus => Claims \subseteq r.same
    /\ r.pc = "mint" /\ ~r.promo => \A c \in r.same : ~row[c].promo
    /\ r.pc = "insert" /\ r.bonus /\ ~r.promo => Claims = {}
    /\ r.pc = "retire" => AtMostOne(Claims) \/ Claims \subseteq r.same \cup {r.code}
    /\ r.pc = "retired" => AtMostOne(Claims) \/ Claims \subseteq r.same \cup {r.code, r.old}
    /\ r.pc \in {"retire", "retired"} => Unused(r.code)
    /\ \A d \in Draft : run[d].pc = "write" /\ run[d].bonus => Claims \subseteq {d}

BonusInv == Flat /\ OneAsks /\ OneClaim

LEMMA NarrowForbids ==
  Narrow => /\ Prompt /\ Calm /\ Steady
            /\ ~Allowed("counter") /\ ~Allowed("amount") /\ ~Allowed("late")
            /\ ~Allowed("fault") /\ ~Allowed("overlap")
  BY DEF Narrow, Prompt, Calm, Steady, Only, Allowed, Trouble

LEMMA BonusInit == Init => BonusInv
<1> SUFFICES ASSUME Init PROVE BonusInv OBVIOUS
<1>1. \A s \in Slot : run[s].pc = "idle" BY DEF Init, Idle
<1>2. /\ \A c \in Code : row[c].price = 0 /\ row[c].bonus = FALSE /\ row[c].status = "none"
      /\ \A k \in Cart : cart[k] = 0
      /\ \A d \in Draft : doc[d].loyalty = NoLoyalty /\ doc[d].tags = {}
  BY DEF Init, NoRow
<1>3. Flat BY <1>1, <1>2, SlotsApart DEF Flat, PricesFlat, SalesFirst, NodesGone, Busy
<1>4. OneAsks BY <1>1, <1>2, SlotsApart DEF OneAsks, Asks, Asked, Has, Busy
<1>5. Claims = {} BY <1>2 DEF Claims, CodeClaims, DraftClaims, Has
<1>6. OneClaim BY <1>1, <1>5, SlotsApart DEF OneClaim, AtMostOne
<1> QED BY <1>3, <1>4, <1>6 DEF BonusInv

LEMMA Shrinks ==
  ASSUME \A c \in Code : row'[c].bonus /\ (c \in ordered' \/ Pending(c)') =>
                           row[c].bonus /\ (c \in ordered \/ Pending(c)),
         \A d \in Draft : Has(d)' /\ doc'[d].loyalty.bonus => Has(d) /\ doc[d].loyalty.bonus
  PROVE  Claims' \subseteq Claims
  BY DEF Claims, CodeClaims, DraftClaims

LEMMA AtMostOneOf ==
  ASSUME NEW S, NEW T, S \subseteq T, AtMostOne(T)
  PROVE  AtMostOne(S)
  BY DEF AtMostOne

\* What holds for the requests that are not taking a step.
LEMMA ClaimsWait ==
  ASSUME OneClaim, Claims' \subseteq Claims, run'[Shop] = run[Shop],
         run[Shop].pc \in {"retire", "retired"} => UnusedKept,
         run[Shop].pc = "mint" => run[Shop].same \subseteq Code,
         \A c \in Code : row'[c].promo = row[c].promo,
         \A d \in Draft : run'[d] = run[d]
  PROVE  OneClaim'
<1>1. AtMostOne(Claims) => AtMostOne(Claims') BY AtMostOneOf
<1>2. /\ run[Shop].pc \in {"mint", "insert"} /\ run[Shop].bonus => Claims' \subseteq run[Shop].same
      /\ run[Shop].pc = "insert" /\ run[Shop].bonus /\ ~run[Shop].promo => Claims' = {}
      /\ run[Shop].pc = "retire" =>
            AtMostOne(Claims') \/ Claims' \subseteq run[Shop].same \cup {run[Shop].code}
      /\ run[Shop].pc = "retired" =>
            \/ AtMostOne(Claims')
            \/ Claims' \subseteq run[Shop].same \cup {run[Shop].code, run[Shop].old}
  BY <1>1 DEF OneClaim
<1>3. run[Shop].pc \in {"retire", "retired"} => Unused(run[Shop].code)'
  BY DEF OneClaim, UnusedKept, Unused
<1>4. run[Shop].pc = "mint" /\ ~run[Shop].promo => \A c \in run[Shop].same : ~row'[c].promo
  BY DEF OneClaim
<1>5. \A d \in Draft : run'[d].pc = "write" /\ run'[d].bonus => Claims' \subseteq {d}
  BY DEF OneClaim
<1>6. AtMostOne(Claims') \/ run[Shop].pc \in {"retire", "retired"} BY <1>1 DEF OneClaim
<1> QED BY <1>2, <1>3, <1>4, <1>5, <1>6 DEF OneClaim, AtMostOne

\* When the sales have been handled, what is on an order is used, and what was
\* sold is in the ledger.
LEMMA AllHeard ==
  ASSUME SaleFits, hooks = {}, run[Hook].pc = "idle"
  PROVE  /\ \A c \in ordered : row[c].status = "used"
         /\ \A d \in Draft : Sold(d) => store[d] = Due(d)
  BY DEF SaleFits, CodesHeard, DraftHeard, Handling, Busy

\* Who is told that the bonus is free: whoever holds it is one of the caller's
\* own codes or the caller's draft.
LEMMA FreeForMe ==
  ASSUME TypeInv, SaleFits, OneAsks, hooks = {}, run[Hook].pc = "idle",
         NEW x, NEW codes, BonusFree(x, codes),
         \/ x \in Draft /\ Asks(x)
         \/ x \notin Draft /\ Busy(Shop)
  PROVE  Claims \subseteq codes \cup {x}
<1>1. ASSUME NEW c \in CodeClaims PROVE c \in codes
  <2>1. TakenOnline(c) BY <1>1, AllHeard DEF CodeClaims, TakenOnline
  <2> QED BY <1>1, <2>1 DEF BonusFree, CodeClaims
<1>2. ASSUME NEW d \in DraftClaims PROVE d = x
  <2>1. d \in Draft /\ Has(d) /\ doc[d].loyalty.bonus BY <1>2 DEF DraftClaims
  <2>2. CASE Sold(d)
    <3>1. store[d] = <<doc[d].loyalty.bonus>> BY <2>1, <2>2, AllHeard DEF Due
    <3>2. TakenInStore(d)
      <4>1. 1 \in DOMAIN store[d] /\ store[d][1] = doc[d].loyalty.bonus BY <3>1
      <4> QED BY <2>1, <4>1 DEF TakenInStore
    <3> QED BY <2>1, <3>2 DEF BonusFree
  <2>3. CASE ~Sold(d)
    <3>1. doc[d].state = "open" BY <2>1, <2>3, ChainTyped DEF Sold, DocRec
    <3>2. Asks(d) BY <2>1, <3>1 DEF Asks
    <3> QED BY <2>1, <3>2 DEF OneAsks
  <2> QED BY <2>2, <2>3
<1> QED BY <1>1, <1>2 DEF Claims

\* Nothing about the drafts: who asks and whose record has the bonus.
LEMMA DraftsAsk ==
  ASSUME doc' = doc
  PROVE  /\ \A d \in Draft : Asks(d)' <=> Asks(d)
         /\ \A d \in Draft : Has(d)' /\ doc'[d].loyalty.bonus => Has(d) /\ doc[d].loyalty.bonus
  BY DEF Asks, Asked, Has, NoLoyalty

LEMMA NodesGoneStay ==
  ASSUME NodesGone, run'[Shop] = run[Shop] \/ run'[Shop].pc # "retired",
         run'[Sweep] = run[Sweep] \/ run'[Sweep].pc # "expired",
         \A c \in Code : node[c] = "gone" => node'[c] = "gone",
         \A c \in Code : row'[c].status = "expired" => row[c].status = "expired",
         run[Shop].pc = "retired" => run[Shop].old \in Code,
         run[Sweep].pc = "expired" => run[Sweep].code \in Code
  PROVE  NodesGone'
  BY DEF NodesGone

LEMMA StaffAsks ==
  ASSUME TypeInv, Narrow, NEW d \in Draft, Staff(d), TagsFit(d)
  PROVE  /\ doc'[d].loyalty = doc[d].loyalty
         /\ Asks(d)' => Asks(d) \/ \A e \in Draft \ {d} : ~Asks(e)
<1> DEFINE o == doc[d]
<1>0. o \in DocRec /\ run[d].pc = "idle" BY ChainTyped, StaffDoes
<1>1. ASSUME NEW t \in Tag, Touch(d), Edit(d, Tagged(d, t))
      PROVE  /\ doc'[d].loyalty = o.loyalty /\ doc'[d].state = o.state /\ o.state = "open"
             /\ doc'[d].tags = o.tags \cup {t}
  <2>1. /\ doc'[d] = [o EXCEPT !.tags = o.tags \cup {t}, !.changed = TRUE,
                         !.sent = doc'[d].sent] /\ o.state = "open"
    BY <1>1, TagDoes
  <2> QED BY <1>0, <2>1 DEF DocRec
<1>2. CASE PressApply(d)
  <2>1. doc'[d].loyalty = o.loyalty BY <1>1, <1>2 DEF PressApply, Tag
  <2>2. \A e \in Draft \ {d} : ~Asks(e)
    BY <1>2, NarrowForbids DEF PressApply, CounterFree, Asks
  <2> QED BY <2>1, <2>2
<1>3. CASE PressRemove(d)
  <2>1. doc'[d].loyalty = o.loyalty /\ o.state = "open" /\ "on" \in o.tags
    BY <1>1, <1>3 DEF PressRemove, Tag
  <2>2. Asks(d) BY <1>0, <2>1 DEF Asks, TagsFit, Busy
  <2> QED BY <2>1, <2>2
<1>4. CASE AskCode(d)
  <2>1. /\ doc'[d].loyalty = o.loyalty /\ doc'[d].state = o.state
        /\ doc'[d].tags = o.tags \cup {"code"}
    BY <1>1, <1>4 DEF AskCode, Tag
  <2> QED BY <2>1 DEF Asks, Asked, Has, NoLoyalty
<1>5. CASE TypeCode(d)
  <2>1. doc'[d] = [o EXCEPT !.tags = o.tags \cup {"reprice"}, !.code = TRUE, !.changed = TRUE,
                      !.sent = doc'[d].sent]
    BY <1>5, TypeCodeDoes
  <2>2. /\ doc'[d].loyalty = o.loyalty /\ doc'[d].state = o.state
        /\ doc'[d].tags = o.tags \cup {"reprice"}
    BY <1>0, <2>1 DEF DocRec
  <2> QED BY <2>2 DEF Asks, Asked, Has, NoLoyalty
<1>6. CASE \E p \in Pieces : ChangeLines(d, p)
  <2>1. PICK p \in Pieces : ChangeLines(d, p) BY <1>6
  <2>2. doc'[d] = [o EXCEPT !.lines = p, !.price = "full", !.changed = TRUE, !.sent = doc'[d].sent]
    BY <2>1, ChangeLinesDoes
  <2>3. doc'[d].loyalty = o.loyalty /\ doc'[d].state = o.state /\ doc'[d].tags = o.tags
    BY <1>0, <2>2 DEF DocRec
  <2> QED BY <2>3 DEF Asks, Asked, Has, NoLoyalty
<1>7. CASE Convert(d)
  <2>1. doc'[d] = [o EXCEPT !.state = "converted"] BY <1>7, ConvertDoes
  <2>2. doc'[d].loyalty = o.loyalty /\ doc'[d].state = "converted" BY <1>0, <2>1 DEF DocRec
  <2> QED BY <2>2 DEF Asks
<1> QED BY <1>2, <1>3, <1>4, <1>5, <1>6, <1>7 DEF Staff

\* A pass asks for nothing that was not asked for, and gives the bonus only if
\* it read that the bonus is free.
LEMMA ChainAsks ==
  ASSUME TypeInv, Narrow, NEW d \in Draft, ChainStart(d) \/ ChainStep(d), TagsFit(d)
  PROVE  /\ Asks(d)' => Asks(d)
         /\ Has(d)' /\ doc'[d].loyalty.bonus =>
               (Has(d) /\ doc[d].loyalty.bonus) \/ (run[d].pc = "write" /\ run[d].bonus)
         /\ run'[d].pc = "write" /\ run'[d].bonus => BonusFree(d, {}) /\ Asks(d)
<1> DEFINE o == doc[d]
           r == run[d]
<1>0. /\ o \in DocRec /\ doc \in [Draft -> DocRec] /\ ~Allowed("fault")
      /\ doc'[d].state = o.state
  BY ChainTyped, NarrowForbids, ChainStays
<1>1. ASSUME doc'[d].loyalty = o.loyalty, Asked(d)' => Asked(d), run'[d].pc # "write"
      PROVE  /\ Asks(d)' => Asks(d)
             /\ Has(d)' /\ doc'[d].loyalty.bonus => Has(d) /\ o.loyalty.bonus
             /\ run'[d].pc # "write"
  BY <1>0, <1>1 DEF Asks, Has, NoLoyalty
<1>2. CASE Price(d)
  <2>1. /\ r.pc = "price" /\ r \in ChainRun /\ run'[d] = [r EXCEPT !.pc = "code"]
        /\ doc'[d] = IF "reprice" \in r.tags
                     THEN [o EXCEPT !.lines = r.lines, !.price = PriceOf(d), !.mirror = MirrorOf(d),
                                    !.tags = r.tags \ {"reprice"}, !.changed = TRUE]
                     ELSE o
    BY <1>2, PriceDoes DEF Moves
  <2>2. run'[d].pc = "code" BY <2>1 DEF ChainRun
  <2>3. o.tags = r.tags BY <2>1 DEF TagsFit
  <2> DEFINE price == PriceOf(d)
             mirror == MirrorOf(d)
  <2>4. \/ doc'[d] = o
        \/ doc'[d] = [o EXCEPT !.lines = r.lines, !.price = price, !.mirror = mirror,
                               !.tags = r.tags \ {"reprice"}, !.changed = TRUE]
    BY <2>1
  <2> HIDE DEF price, mirror
  <2>5. doc'[d].loyalty = o.loyalty /\ (doc'[d].tags = o.tags \/ doc'[d].tags = r.tags \ {"reprice"})
    BY <1>0, <2>4 DEF DocRec
  <2>6. Asked(d)' => Asked(d) BY <2>3, <2>5 DEF Asked
  <2> QED BY <1>1, <2>2, <2>5, <2>6
<1>3. CASE ApplyCode(d)
  <2>1. /\ r.pc = "code" /\ r \in ChainRun /\ run'[d] = [r EXCEPT !.pc = "loyalty"]
        /\ \/ doc'[d] = o
           \/ doc'[d] = [o EXCEPT !.tags = r.tags \ {"code"}, !.changed = TRUE]
           \/ doc'[d] = [o EXCEPT !.tags = (r.tags \ {"code"}) \cup {"reprice"},
                                  !.code = TRUE, !.changed = TRUE]
    BY <1>3, ApplyCodeDoes DEF Moves
  <2>2. run'[d].pc = "loyalty" BY <2>1 DEF ChainRun
  <2>3. \A t \in Ours : t \in o.tags <=> t \in r.tags BY <2>1 DEF TagsFit, Busy
  <2>4. /\ doc'[d].loyalty = o.loyalty
        /\ \/ doc'[d].tags = o.tags
           \/ doc'[d].tags = r.tags \ {"code"}
           \/ doc'[d].tags = (r.tags \ {"code"}) \cup {"reprice"}
    BY <1>0, <2>1 DEF DocRec
  <2>5. Asked(d)' => Asked(d) BY <2>3, <2>4 DEF Asked, Ours
  <2> QED BY <1>1, <2>2, <2>4, <2>5
<1>4. CASE ReadDraft(d)
  <2>1. r.pc = "loyalty" /\ r \in ChainRun /\ doc'[d] = o BY <1>4, ReadDraftDoes
  <2> DEFINE had == Has(d)
  <2>2. \/ run'[d] = Idle
        \/ \E q : run'[d] = [r EXCEPT !.pc = "forget", !.next = q]
        \/ \E q : run'[d] = [r EXCEPT !.pc = "forgetOnly", !.next = q]
        \/ run'[d] = [r EXCEPT !.pc = "judge", !.had = had]
        \/ \E q : run'[d] = [r EXCEPT !.pc = "tags", !.next = q]
    BY <1>4, ReadDraftDoes
  <2> HIDE DEF had
  <2>3. run'[d].pc # "write"
    <3>1. CASE run'[d] = Idle BY <3>1 DEF Idle
    <3>2. CASE \E q : run'[d] = [r EXCEPT !.pc = "forget", !.next = q] BY <2>1, <3>2 DEF ChainRun
    <3>3. CASE \E q : run'[d] = [r EXCEPT !.pc = "forgetOnly", !.next = q] BY <2>1, <3>3 DEF ChainRun
    <3>4. CASE run'[d] = [r EXCEPT !.pc = "judge", !.had = had] BY <2>1, <3>4 DEF ChainRun
    <3>5. CASE \E q : run'[d] = [r EXCEPT !.pc = "tags", !.next = q] BY <2>1, <3>5 DEF ChainRun
    <3> QED BY <2>2, <3>1, <3>2, <3>3, <3>4, <3>5
  <2>4. doc'[d].loyalty = o.loyalty /\ (Asked(d)' => Asked(d)) BY <2>1 DEF Asked
  <2> QED BY <1>1, <2>3, <2>4
<1>5. CASE Judge(d)
  <2>1. r.pc = "judge" /\ r \in ChainRun /\ doc'[d] = o BY <1>5, JudgeDoes
  <2>2. doc'[d].loyalty = o.loyalty /\ (Asked(d)' => Asked(d)) BY <2>1 DEF Asked
  <2>3. CASE \E b \in BonusRead(d, {}) : run'[d] = [r EXCEPT !.pc = "write", !.bonus = b]
    <3>1. PICK b \in BonusRead(d, {}) : run'[d] = [r EXCEPT !.pc = "write", !.bonus = b] BY <2>3
    <3>2. run'[d].bonus = b BY <2>1, <3>1 DEF ChainRun
    <3>3. b => BonusFree(d, {}) BY <1>0, <3>1 DEF BonusRead
    <3>4. Asks(d)
      <4>1. o.state = "open" /\ ("apply" \in r.tags \/ Has(d))
            /\ \A t \in Ours : t \in o.tags <=> t \in r.tags
        BY <2>1 DEF TagsFit, Busy
      <4> QED BY <4>1 DEF Asks, Asked, Ours
    <3>5. Has(d)' <=> Has(d) BY <2>1, HasSame
    <3> QED BY <2>1, <3>2, <3>3, <3>4, <3>5
  <2>4. CASE \/ \E q : run'[d] = [r EXCEPT !.pc = "forget", !.next = q]
             \/ \E q : run'[d] = [r EXCEPT !.pc = "forgetOnly", !.next = q]
    <3>1. CASE \E q : run'[d] = [r EXCEPT !.pc = "forget", !.next = q]
      <4>1. run'[d].pc # "write" BY <2>1, <3>1 DEF ChainRun
      <4> QED BY <1>1, <2>2, <4>1
    <3>2. CASE \E q : run'[d] = [r EXCEPT !.pc = "forgetOnly", !.next = q]
      <4>1. run'[d].pc # "write" BY <2>1, <3>2 DEF ChainRun
      <4> QED BY <1>1, <2>2, <4>1
    <3> QED BY <2>4, <3>1, <3>2
  <2> QED BY <1>5, <2>3, <2>4, JudgeDoes
<1>6. CASE WriteRecord(d)
  <2>1. /\ r.pc = "write" /\ r \in ChainRun
        /\ doc'[d] = [o EXCEPT !.loyalty = [lines |-> r.lines, bonus |-> r.bonus]]
        /\ run'[d] = [r EXCEPT !.pc = "tags", !.next = (r.tags \ {"apply"}) \cup {"on", "reprice"}]
    BY <1>6, WriteRecordDoes
  <2>2. /\ doc'[d].loyalty = [lines |-> r.lines, bonus |-> r.bonus] /\ doc'[d].tags = o.tags
        /\ run'[d].pc = "tags"
    BY <1>0, <2>1 DEF DocRec, ChainRun
  <2>3. doc'[d].loyalty.bonus = r.bonus BY <2>2
  <2>4. Asks(d)
    <3>1. o.state = "open" /\ ("apply" \in r.tags \/ Has(d))
          /\ \A t \in Ours : t \in o.tags <=> t \in r.tags
      BY <2>1 DEF TagsFit, Busy
    <3> QED BY <3>1 DEF Asks, Asked, Ours
  <2> QED BY <2>1, <2>2, <2>3, <2>4
<1>7. CASE Forget(d)
  <2>1. /\ r \in ChainRun /\ doc'[d] = [o EXCEPT !.loyalty = NoLoyalty]
        /\ run'[d] = [r EXCEPT !.pc = IF r.pc = "forget" THEN "unmirror" ELSE "tags"]
    BY <1>0, <1>7, ForgetDoes
  <2>2. doc'[d].loyalty = NoLoyalty /\ doc'[d].tags = o.tags /\ run'[d].pc # "write"
    BY <1>0, <2>1 DEF DocRec, ChainRun
  <2>3. ~Has(d)' BY <2>2 DEF Has, NoLoyalty
  <2> QED BY <1>0, <2>2, <2>3 DEF Asks, Asked
<1>8. CASE Unmirror(d)
  <2>1. /\ r.pc = "unmirror" /\ r \in ChainRun /\ run'[d] = [r EXCEPT !.pc = "tags"]
        /\ doc'[d] = [o EXCEPT !.mirror = FALSE]
    BY <1>0, <1>8, UnmirrorDoes DEF Moves
  <2>2. doc'[d].loyalty = o.loyalty /\ doc'[d].tags = o.tags /\ run'[d].pc = "tags"
    BY <1>0, <2>1 DEF DocRec, ChainRun
  <2>3. Asked(d)' => Asked(d) BY <2>2 DEF Asked
  <2> QED BY <1>1, <2>2, <2>3
<1>9. CASE WriteTags(d)
  <2>1. /\ r.pc = "tags" /\ run'[d] = Idle
        /\ doc'[d] = [o EXCEPT !.tags = r.next, !.changed = TRUE]
    BY <1>9, WriteTagsDoes
  <2>2. doc'[d].loyalty = o.loyalty /\ doc'[d].tags = r.next /\ run'[d].pc = "idle"
    BY <1>0, <2>1 DEF DocRec, Idle
  <2>3. ~Asked(d)' BY <2>1, <2>2 DEF Asked, TagsFit
  <2> QED BY <1>1, <2>2, <2>3
<1>10. CASE ChainStart(d)
  <2>1. /\ doc'[d] = [o EXCEPT !.changed = FALSE, !.sent = doc'[d].sent]
        /\ run'[d] = Pass(o)
    BY <1>10, ChainStartDoes
  <2>2. doc'[d].loyalty = o.loyalty /\ doc'[d].tags = o.tags BY <1>0, <2>1 DEF DocRec
  <2>3. (Asked(d)' => Asked(d)) /\ run'[d].pc = "price" BY <2>1, <2>2 DEF Asked, Pass
  <2> QED BY <1>1, <2>2, <2>3
<1> QED BY <1>2, <1>3, <1>4, <1>5, <1>6, <1>7, <1>8, <1>9, <1>10 DEF ChainStep

\* A step on a draft: the tables of the online codes stay.
LEMMA BonusDraft ==
  ASSUME TypeInv, OneBusy, BonusInv, NEW d \in Draft, OnlyDraft(d), Busy(d) \/ Quiet,
         hooks' = {} \/ (\A s \in Slot \ {Hook} : run'[s].pc = "idle"),
         Asks(d)' => Asks(d) \/ \A e \in Draft \ {d} : ~Asks(e),
         AtMostOne(Claims'),
         run'[d].pc = "write" /\ run'[d].bonus => Claims' \subseteq {d}
  PROVE  BonusInv'
<1>1. /\ run[Shop].pc = "idle" /\ run'[Shop].pc = "idle" /\ run'[Sweep].pc = "idle"
      /\ \A e \in Draft \ {d} : run'[e].pc = "idle"
  BY OthersIdle, SlotsApart DEF OnlyDraft, OnlySlot
<1>2. PricesFlat' BY <1>1 DEF BonusInv, Flat, PricesFlat, OnlyDraft, Busy
<1>3. SalesFirst' BY DEF SalesFirst, Busy
<1>4. NodesGone' BY <1>1 DEF BonusInv, Flat, NodesGone, OnlyDraft
<1>5. OneAsks'
  <2>1. \A e \in Draft \ {d} : Asks(e)' <=> Asks(e)
    BY DraftsApart DEF Asks, Asked, Has, NoLoyalty
  <2>2. ~Busy(Shop)' BY <1>1 DEF Busy
  <2> QED BY <2>1, <2>2 DEF BonusInv, OneAsks
<1>6. OneClaim' BY <1>1 DEF OneClaim
<1> QED BY <1>2, <1>3, <1>4, <1>5, <1>6 DEF BonusInv, Flat

LEMMA BonusStaff ==
  ASSUME TypeInv, Narrow, OneBusy, BonusInv, NEW d \in Draft, Staff(d), TagsFit(d)
  PROVE  BonusInv'
<1>1. OnlyDraft(d) /\ run' = run /\ Quiet BY NarrowForbids, StaffDoes, StaffQuiet
<1>2. /\ doc'[d].loyalty = doc[d].loyalty
      /\ Asks(d)' => Asks(d) \/ \A e \in Draft \ {d} : ~Asks(e)
  BY StaffAsks
<1>3. \A s \in Slot : run'[s].pc = "idle" BY <1>1 DEF Quiet, Busy
<1>4. Claims' \subseteq Claims
  <2>1. \A c \in Code : row'[c].bonus /\ (c \in ordered' \/ Pending(c)') =>
                          row[c].bonus /\ (c \in ordered \/ Pending(c))
    BY <1>1 DEF OnlyDraft, Pending
  <2>2. \A e \in Draft : doc'[e].loyalty = doc[e].loyalty BY <1>1, <1>2, DraftsApart
  <2>3. \A e \in Draft : Has(e)' <=> Has(e) BY <2>2, HasSame
  <2> QED BY <2>1, <2>2, <2>3, Shrinks
<1>5. AtMostOne(Claims')
  <2>1. AtMostOne(Claims) BY <1>1, <1>3, SlotsApart DEF BonusInv, OneClaim
  <2> QED BY <1>4, <2>1, AtMostOneOf
<1> QED BY <1>1, <1>2, <1>3, <1>5, BonusDraft, SlotsApart

LEMMA BonusChain ==
  ASSUME TypeInv, Narrow, OneBusy, SaleFits, BonusInv, NEW d \in Draft,
         ChainStart(d) \/ ChainStep(d), TagsFit(d)
  PROVE  BonusInv'
<1>1. OnlyDraft(d) /\ hooks' = hooks BY ChainTypes
<1>2. (Busy(d) \/ Quiet) /\ d \in Slot /\ d # Hook
  BY NarrowForbids, StepsBusy, StartsQuiet, SlotsApart
<1>3. run[Hook].pc = "idle" /\ run[Shop].pc = "idle" BY <1>2, OthersIdle, SlotsApart
<1>4. hooks = {}
  <2>1. CASE ChainStart(d) BY <1>2, <2>1, ChainStartDoes, NarrowForbids DEF CanStart
  <2>2. CASE ChainStep(d) BY <1>2, <2>2, StepsBusy DEF BonusInv, Flat, SalesFirst
  <2> QED BY <2>1, <2>2
<1>5. /\ Asks(d)' => Asks(d)
      /\ Has(d)' /\ doc'[d].loyalty.bonus =>
               (Has(d) /\ doc[d].loyalty.bonus) \/ (run[d].pc = "write" /\ run[d].bonus)
      /\ run'[d].pc = "write" /\ run'[d].bonus => BonusFree(d, {}) /\ Asks(d)
  BY ChainAsks
<1>6. \A c \in Code : row'[c].bonus /\ (c \in ordered' \/ Pending(c)') =>
                        row[c].bonus /\ (c \in ordered \/ Pending(c))
  BY <1>1 DEF OnlyDraft, Pending
<1>7. \A e \in Draft \ {d} : Has(e)' /\ doc'[e].loyalty.bonus => Has(e) /\ doc[e].loyalty.bonus
  BY <1>1, DraftsApart DEF Has, NoLoyalty
<1>8. Claims' \subseteq Claims \cup {d} BY <1>6, <1>7 DEF Claims, CodeClaims, DraftClaims
<1>9. AtMostOne(Claims) BY <1>3 DEF BonusInv, OneClaim
<1>10. CASE run[d].pc = "write" /\ run[d].bonus
  <2>1. Claims' \subseteq {d} BY <1>8, <1>10 DEF BonusInv, OneClaim
  <2>2. AtMostOne(Claims') BY <2>1 DEF AtMostOne
  <2> QED BY <1>1, <1>2, <1>4, <1>5, <2>1, <2>2, BonusDraft
<1>11. CASE ~(run[d].pc = "write" /\ run[d].bonus)
  <2>1. Claims' \subseteq Claims BY <1>5, <1>6, <1>7, <1>11, Shrinks
  <2>2. AtMostOne(Claims') BY <1>9, <2>1, AtMostOneOf
  <2>3. run'[d].pc = "write" /\ run'[d].bonus => Claims' \subseteq {d}
    <3> SUFFICES ASSUME run'[d].pc = "write", run'[d].bonus PROVE Claims \subseteq {d}
      BY <2>1
    <3>1. BonusFree(d, {}) /\ Asks(d) BY <1>5
    <3>2. OneAsks BY DEF BonusInv
    <3>3. Claims \subseteq {} \cup {d} BY <1>3, <1>4, <3>1, <3>2, FreeForMe
    <3> QED BY <3>3
  <2> QED BY <1>1, <1>2, <1>4, <1>5, <2>2, <2>3, BonusDraft
<1> QED BY <1>10, <1>11

\* A step of another request, or an event, while the shop and the drafts wait.
LEMMA BonusOther ==
  ASSUME TypeInv, BonusInv, doc' = doc, cart' = cart,
         run'[Shop] = run[Shop], \A d \in Draft : run'[d] = run[d],
         \A c \in Code : row'[c].price = row[c].price /\ row'[c].promo = row[c].promo,
         Claims' \subseteq Claims,
         run[Shop].pc \in {"retire", "retired"} => UnusedKept,
         SalesFirst', NodesGone'
  PROVE  BonusInv'
<1>1. PricesFlat' BY DEF BonusInv, Flat, PricesFlat, Busy
<1>2. OneAsks' BY DraftsAsk DEF BonusInv, OneAsks, Busy
<1>3. run[Shop].pc = "mint" => run[Shop].same \subseteq Code BY OthersTyped DEF ShopRun
<1>4. OneClaim' BY <1>3, ClaimsWait DEF BonusInv
<1> QED BY <1>1, <1>2, <1>4 DEF BonusInv, Flat

LEMMA BonusHook ==
  ASSUME TypeInv, Narrow, OneBusy, BonusInv, HookStep \/ \E h \in hooks : HookStart(h)
  PROVE  BonusInv'
<1>1. OnlyHook /\ doc' = doc /\ \A d \in Draft : run'[d] = run[d] BY HookTypes, DraftsWait
<1>2. \A s \in Slot \ {Hook} : run[s].pc = "idle" /\ run'[s] = run[s]
  BY <1>1, NarrowForbids, StepsBusy, StartsQuiet, OthersIdle, SlotsApart DEF OnlyHook, OnlySlot
<1>3. SalesFirst' BY <1>2 DEF SalesFirst, Busy
<1>4. ASSUME row' = row
      PROVE  /\ Claims' \subseteq Claims
             /\ \A c \in Code : row'[c].status = "expired" => row[c].status = "expired"
             /\ \A c \in Code : row'[c].price = row[c].price /\ row'[c].promo = row[c].promo
  <2>1. \A c \in Code : row'[c].bonus /\ (c \in ordered' \/ Pending(c)') =>
                          row[c].bonus /\ (c \in ordered \/ Pending(c))
    BY <1>1, <1>4 DEF OnlyHook, Pending
  <2> QED BY <1>1, <1>4, <2>1, DraftsAsk, Shrinks
<1>5. /\ Claims' \subseteq Claims
      /\ \A c \in Code : row'[c].status = "expired" => row[c].status = "expired"
      /\ \A c \in Code : row'[c].price = row[c].price /\ row'[c].promo = row[c].promo
      /\ \A c \in Code : node[c] = "gone" => node'[c] = "gone"
  <2>1. CASE UseCode
    <3> DEFINE u == run[Hook].sale
    <3>1. u \in ordered /\ OnlyRow(u) /\ SameTerms(u) /\ row'[u].status = "used" /\ node' = node
      BY <2>1, UseCodeDoes
    <3>2. \A c \in Code : row'[c].bonus /\ (c \in ordered' \/ Pending(c)') =>
                            row[c].bonus /\ (c \in ordered \/ Pending(c))
      <4> TAKE c \in Code
      <4>1. CASE c = u BY <1>1, <3>1, <4>1 DEF OnlyHook, SameTerms
      <4>2. CASE c # u BY <1>1, <3>1, <4>2 DEF OnlyHook, OnlyRow, Pending
      <4> QED BY <4>1, <4>2
    <3>3. Claims' \subseteq Claims BY <1>1, <3>2, DraftsAsk, Shrinks
    <3>4. \A c \in Code : /\ row'[c].price = row[c].price /\ row'[c].promo = row[c].promo
                          /\ row'[c].status = "expired" => row[c].status = "expired"
      <4> TAKE c \in Code
      <4>1. CASE c = u BY <3>1, <4>1 DEF SameTerms
      <4>2. CASE c # u BY <3>1, <4>2 DEF OnlyRow
      <4> QED BY <4>1, <4>2
    <3> QED BY <3>1, <3>3, <3>4
  <2>2. CASE LookStore \/ RecordStore \/ ReadCode
    BY <1>4, <2>2, LookStoreDoes, RecordStoreDoes, ReadCodeDoes
  <2>3. CASE Tidy
    <3>1. row' = row /\ OnlyNode(run[Hook].sale) /\ node'[run[Hook].sale] = "gone"
      BY <2>3, TidyDoes
    <3> QED BY <1>4, <3>1 DEF OnlyNode
  <2>4. CASE \E h \in hooks : HookStart(h) BY <1>4, <2>4, HookStartDoes
  <2> QED BY <2>1, <2>2, <2>3, <2>4 DEF HookStep
<1>6. NodesGone'
  <2>1. run[Shop].pc = "idle" /\ run[Sweep].pc = "idle" /\ run'[Shop] = run[Shop]
        /\ run'[Sweep] = run[Sweep]
    BY <1>2, SlotsApart
  <2> QED BY <1>5, <2>1, NodesGoneStay DEF BonusInv, Flat
<1>7. run[Shop].pc = "idle" /\ run'[Shop] = run[Shop] BY <1>2, SlotsApart
<1>8. cart' = cart BY <1>1 DEF OnlyHook
<1> QED BY <1>1, <1>3, <1>5, <1>6, <1>7, <1>8, BonusOther

LEMMA BonusSweep ==
  ASSUME TypeInv, Narrow, OneBusy, BonusInv, SweepStep \/ SweepStart
  PROVE  BonusInv'
<1> DEFINE r == run[Sweep]
<1>1. OnlySweep /\ doc' = doc /\ \A d \in Draft : run'[d] = run[d] BY SweepTypes, DraftsWait
<1>2. \A s \in Slot \ {Sweep} : run[s].pc = "idle" /\ run'[s] = run[s]
  BY <1>1, NarrowForbids, StepsBusy, StartsQuiet, OthersIdle, SlotsApart DEF OnlySweep, OnlySlot
<1>3. hooks = {}
  <2>1. CASE SweepStart BY <2>1, SweepStartDoes, NarrowForbids, SlotsApart DEF CanStart
  <2>2. CASE SweepStep BY <2>2, StepsBusy, SlotsApart DEF BonusInv, Flat, SalesFirst
  <2> QED BY <2>1, <2>2
<1>4. SalesFirst' BY <1>1, <1>3 DEF SalesFirst, OnlySweep
<1>5. run[Shop].pc = "idle" /\ run'[Shop] = run[Shop] BY <1>2, SlotsApart
<1>6. cart' = cart BY <1>1 DEF OnlySweep
<1>7. ASSUME NEW u \in Code, OnlyRow(u), SameTerms(u),
             (row'[u].status = "used" /\ u \in ordered) \/ row'[u].status = "expired"
      PROVE  /\ Claims' \subseteq Claims
             /\ \A c \in Code : row'[c].price = row[c].price /\ row'[c].promo = row[c].promo
             /\ \A c \in Code : row'[c].status = "expired" =>
                                  row[c].status = "expired" \/ (row'[u].status = "expired" /\ c = u)
  <2>1. \A c \in Code : row'[c].bonus /\ (c \in ordered' \/ Pending(c)') =>
                          row[c].bonus /\ (c \in ordered \/ Pending(c))
    <3> TAKE c \in Code
    <3>1. CASE c = u BY <1>1, <1>7, <3>1 DEF OnlySweep, SameTerms, Pending
    <3>2. CASE c # u BY <1>1, <1>7, <3>2 DEF OnlySweep, OnlyRow, Pending
    <3> QED BY <3>1, <3>2
  <2>2. Claims' \subseteq Claims BY <1>1, <2>1, DraftsAsk, Shrinks
  <2>3. ASSUME NEW c \in Code
        PROVE  /\ row'[c].price = row[c].price /\ row'[c].promo = row[c].promo
               /\ row'[c].status = "expired" =>
                     row[c].status = "expired" \/ (row'[u].status = "expired" /\ c = u)
    <3>1. CASE c = u BY <1>7, <3>1 DEF SameTerms
    <3>2. CASE c # u BY <1>7, <3>2 DEF OnlyRow
    <3> QED BY <3>1, <3>2
  <2> QED BY <2>2, <2>3
<1>8. ASSUME row' = row
      PROVE  /\ Claims' \subseteq Claims
             /\ \A c \in Code : row'[c].price = row[c].price /\ row'[c].promo = row[c].promo
  <2>1. \A c \in Code : row'[c].bonus /\ (c \in ordered' \/ Pending(c)') =>
                          row[c].bonus /\ (c \in ordered \/ Pending(c))
    BY <1>1, <1>8 DEF OnlySweep, Pending
  <2> QED BY <1>1, <1>8, <2>1, DraftsAsk, Shrinks
<1>9. CASE SweepStart
  <2>1. row' = row /\ node' = node /\ run'[Sweep].pc = "expire"
    BY <1>9, SweepStartDoes
  <2>2. NodesGone' BY <1>5, <2>1 DEF BonusInv, Flat, NodesGone
  <2> QED BY <1>1, <1>4, <1>5, <1>6, <1>8, <2>1, <2>2, BonusOther
<1>10. CASE ExpireNode
  <2>1. row' = row /\ r \in SweepRun
        /\ \/ node' = node /\ run'[Sweep] = [r EXCEPT !.pc = "recheck"]
           \/ \E c \in r.rows :
                 /\ run'[Sweep] = [r EXCEPT !.pc = "expired", !.code = c, !.rows = r.rows \ {c}]
                 /\ OnlyNode(c) /\ node'[c] = "gone"
    BY <1>10, ExpireNodeDoes
  <2>2. NodesGone'
    <3>1. CASE node' = node /\ run'[Sweep] = [r EXCEPT !.pc = "recheck"]
      <4>1. run'[Sweep].pc = "recheck" BY <2>1, <3>1 DEF SweepRun
      <4> QED BY <1>5, <2>1, <3>1, <4>1 DEF BonusInv, Flat, NodesGone
    <3>2. CASE \E c \in r.rows :
                 /\ run'[Sweep] = [r EXCEPT !.pc = "expired", !.code = c, !.rows = r.rows \ {c}]
                 /\ OnlyNode(c) /\ node'[c] = "gone"
      <4>1. PICK c \in r.rows :
                 /\ run'[Sweep] = [r EXCEPT !.pc = "expired", !.code = c, !.rows = r.rows \ {c}]
                 /\ OnlyNode(c) /\ node'[c] = "gone"
        BY <3>2
      <4>2. run'[Sweep].pc = "expired" /\ run'[Sweep].code = c BY <2>1, <4>1 DEF SweepRun
      <4> QED BY <1>5, <2>1, <4>1, <4>2 DEF BonusInv, Flat, NodesGone, OnlyNode
    <3> QED BY <2>1, <3>1, <3>2
  <2> QED BY <1>1, <1>4, <1>5, <1>6, <1>8, <2>1, <2>2, BonusOther
<1>11. CASE ExpireRow
  <2>1. /\ node' = node /\ r.pc = "expired" /\ r \in SweepRun /\ r.code \in Code
        /\ OnlyRow(r.code) /\ SameTerms(r.code) /\ row'[r.code].status = "expired"
        /\ run'[Sweep] = [r EXCEPT !.pc = "expire"]
    BY <1>11, ExpireRowDoes
  <2>2. run'[Sweep].pc = "expire" BY <2>1 DEF SweepRun
  <2>3. NodesGone' BY <1>5, <1>7, <2>1, <2>2 DEF BonusInv, Flat, NodesGone
  <2> QED BY <1>1, <1>4, <1>5, <1>6, <1>7, <2>1, <2>3, BonusOther
<1>12. CASE Recheck
  <2>1. CASE row' = row /\ run'[Sweep] = Idle
    <3>1. run'[Sweep].pc = "idle" /\ node' = node BY <1>12, <2>1, RecheckDoes DEF Idle
    <3>2. NodesGone' BY <1>5, <2>1, <3>1 DEF BonusInv, Flat, NodesGone
    <3> QED BY <1>1, <1>4, <1>5, <1>6, <1>8, <2>1, <3>2, BonusOther
  <2>2. CASE \E c \in ordered : /\ c \in Code /\ OnlyRow(c) /\ SameTerms(c)
                                /\ row'[c].status = "used" /\ row'[c].late = row[c].late
    <3>1. PICK c \in ordered : c \in Code /\ OnlyRow(c) /\ SameTerms(c) /\ row'[c].status = "used"
      BY <2>2
    <3>2. run'[Sweep].pc # "expired" /\ node' = node BY <1>12, RecheckDoes DEF Idle
    <3>3. NodesGone' BY <1>5, <1>7, <3>1, <3>2 DEF BonusInv, Flat, NodesGone
    <3> QED BY <1>1, <1>4, <1>5, <1>6, <1>7, <3>1, <3>3, BonusOther
  <2> QED BY <1>12, <2>1, <2>2, RecheckDoes
<1> QED BY <1>9, <1>10, <1>11, <1>12 DEF SweepStep

LEMMA BonusEvent ==
  ASSUME TypeInv, Narrow, SaleFits, BonusInv, Event
  PROVE  BonusInv'
<1>1. UNCHANGED <<node, doc, run>> /\ \A c \in Code : row'[c].status = row[c].status
  BY EventDoes
<1>2. UnusedKept BY <1>1 DEF UnusedKept, Unused
<1>3. NodesGone' BY <1>1 DEF BonusInv, Flat, NodesGone, TypeInv, ShopKnown, SweepKnown, Kept
<1>4. ASSUME cart' = cart, hooks' = hooks,
             \A c \in Code : row'[c].price = row[c].price /\ row'[c].promo = row[c].promo,
             \A c \in Code : row'[c].bonus /\ (c \in ordered' \/ Pending(c)') =>
                               row[c].bonus /\ (c \in ordered \/ Pending(c))
      PROVE  BonusInv'
  <2>1. SalesFirst' BY <1>1, <1>4 DEF BonusInv, Flat, SalesFirst, Busy
  <2>2. Claims' \subseteq Claims BY <1>1, <1>4, DraftsAsk, Shrinks
  <2> QED BY <1>1, <1>2, <1>3, <1>4, <2>1, <2>2, BonusOther
<1>5. CASE \E k \in Cart : ChangePrice(k) BY <1>5, NarrowForbids DEF ChangePrice
<1>6. CASE FallBelow
  <2>1. UNCHANGED <<row, cart, hooks, ordered>> BY <1>6 DEF FallBelow
  <2> QED BY <1>4, <2>1 DEF Pending
<1>7. CASE \E c \in Code : Lapse(c)
  <2>1. PICK u \in Code : Lapse(u) BY <1>7
  <2>2. /\ cart' = cart /\ hooks' = hooks /\ ordered' = ordered /\ OnlyRow(u) /\ SameTerms(u)
        /\ Pending(u) /\ row'[u].late = TRUE
    BY <2>1, LapseDoes
  <2>3. ASSUME NEW c \in Code
        PROVE  /\ row'[c].price = row[c].price /\ row'[c].promo = row[c].promo
               /\ row'[c].bonus /\ (c \in ordered' \/ Pending(c)') =>
                    row[c].bonus /\ (c \in ordered \/ Pending(c))
    <3>1. CASE c = u BY <2>2, <3>1 DEF SameTerms
    <3>2. CASE c # u BY <2>2, <3>2 DEF OnlyRow, Pending
    <3> QED BY <3>1, <3>2
  <2> QED BY <1>4, <2>2, <2>3
<1>8. CASE \E c \in Code : Buy(c)
  <2>1. PICK u \in Code : Buy(u) BY <1>8
  <2>2. /\ row' = row /\ cart' = cart /\ u \in handed \ ordered /\ node[u] = "live"
        /\ ~row[u].late /\ ordered' = ordered \cup {u} /\ Quiet
    BY <2>1, BuyDoes, NarrowForbids
  <2>3. Pending(u)
    <3>1. row \in [Code -> RowRec] /\ Kept(u) BY <2>2 DEF TypeInv, Tables, RowsKnown
    <3>2. row[u].status \in {"none", "pending", "used", "expired"} BY <3>1 DEF RowRec
    <3>3. row[u].status # "used" BY <2>2 DEF TypeInv, RowsKnown
    <3>4. row[u].status # "expired" BY <2>2 DEF BonusInv, Flat, NodesGone
    <3> QED BY <2>2, <3>1, <3>2, <3>3, <3>4 DEF Pending, Kept
  <2>4. \A c \in Code : row'[c].bonus /\ (c \in ordered' \/ Pending(c)') =>
                          row[c].bonus /\ (c \in ordered \/ Pending(c))
    BY <2>2, <2>3 DEF Pending
  <2>5. Claims' \subseteq Claims BY <1>1, <2>4, DraftsAsk, Shrinks
  <2>6. SalesFirst' BY <1>1, <2>2 DEF SalesFirst, Quiet, Busy
  <2> QED BY <1>1, <1>2, <1>3, <2>2, <2>5, <2>6, BonusOther
<1> QED BY <1>5, <1>6, <1>7, <1>8 DEF Event

\* A step of the shop: the claims are those of the next state, to be counted.
LEMMA BonusShopMove ==
  ASSUME TypeInv, Narrow, OneBusy, BonusInv,
         ShopStep \/ \E k \in Cart, promo \in BOOLEAN : Ask(k, promo)
  PROVE  /\ OneAsks' /\ SalesFirst'
         /\ doc' = doc /\ ordered' = ordered /\ cart' = cart
         /\ hooks = {} /\ run[Hook].pc = "idle" /\ run'[Sweep].pc = "idle"
         /\ \A d \in Draft : run'[d].pc = "idle"
<1>1. /\ OnlyShop /\ doc' = doc /\ \A d \in Draft : run'[d] = run[d]
  BY ShopTypes, DraftsWait
<1>2. (Busy(Shop) \/ Quiet) /\ \A t \in Slot \ {Shop} : run[t].pc = "idle" /\ run'[t] = run[t]
  BY <1>1, NarrowForbids, StepsBusy, StartsQuiet, OthersIdle, SlotsApart DEF OnlyShop, OnlySlot
<1>3. hooks = {} /\ \A d \in Draft : ~Asks(d)
  <2>1. CASE ShopStep BY <2>1, StepsBusy, SlotsApart DEF BonusInv, Flat, SalesFirst, OneAsks
  <2>2. CASE \E k \in Cart, promo \in BOOLEAN : Ask(k, promo)
    <3>1. CanStart(Shop) /\ \A d \in Draft : doc[d].state = "open" => ~Has(d) /\ ~Asked(d)
      BY <2>2, AskDoes, NarrowForbids
    <3> QED BY <3>1, NarrowForbids, SlotsApart DEF CanStart, Asks
  <2> QED BY <2>1, <2>2
<1>4. OneAsks' BY <1>1, <1>3, DraftsAsk DEF OneAsks
<1>5. SalesFirst' BY <1>1, <1>3 DEF SalesFirst, OnlyShop
<1> QED BY <1>1, <1>2, <1>3, <1>4, <1>5, SlotsApart DEF OnlyShop

LEMMA BonusShop ==
  ASSUME TypeInv, Narrow, OneBusy, ListsUnused, SaleFits, BonusInv,
         ShopStep \/ \E k \in Cart, promo \in BOOLEAN : Ask(k, promo)
  PROVE  BonusInv'
<1> DEFINE r == run[Shop]
<1>0. /\ OneAsks' /\ SalesFirst'
      /\ doc' = doc /\ ordered' = ordered /\ cart' = cart
      /\ hooks = {} /\ run[Hook].pc = "idle" /\ run'[Sweep].pc = "idle"
      /\ \A d \in Draft : run'[d].pc = "idle"
  BY BonusShopMove
<1>1. PricesFlat /\ NodesGone /\ OneAsks /\ OneClaim BY DEF BonusInv, Flat
<1>2. ASSUME PricesFlat', NodesGone',
             LET q == run'[Shop] IN
             /\ AtMostOne(Claims') \/ q.pc \in {"retire", "retired"}
             /\ q.pc \in {"mint", "insert"} /\ q.bonus => Claims' \subseteq q.same
             /\ q.pc = "mint" /\ ~q.promo => \A c \in q.same : ~row'[c].promo
             /\ q.pc = "insert" /\ q.bonus /\ ~q.promo => Claims' = {}
             /\ q.pc = "retire" => AtMostOne(Claims') \/ Claims' \subseteq q.same \cup {q.code}
             /\ q.pc = "retired" =>
                   AtMostOne(Claims') \/ Claims' \subseteq q.same \cup {q.code, q.old}
             /\ q.pc \in {"retire", "retired"} => q.code \in Code /\ row'[q.code].status # "used"
      PROVE  BonusInv'
  <2>1. OneClaim' BY <1>0, <1>2 DEF OneClaim, AtMostOne, Unused
  <2> QED BY <1>0, <1>2, <2>1 DEF BonusInv, Flat
<1>3. ASSUME row' = row PROVE Claims' = Claims
  <2>1. \A d \in Draft : Has(d)' <=> Has(d) BY <1>0, HasSame
  <2> QED BY <1>0, <1>3, <2>1 DEF Claims, CodeClaims, DraftClaims, Pending
<1>4. ASSUME row' = row, node' = node, run'[Shop].pc # "retired" PROVE NodesGone'
  BY <1>0, <1>1, <1>4 DEF NodesGone
<1>5. ASSUME row' = row, run'[Shop].pc # "idle" => run'[Shop].price = 0 PROVE PricesFlat'
  BY <1>0, <1>1, <1>5 DEF PricesFlat, Busy
<1>6. r.pc # "idle" => r.price = 0 BY <1>1 DEF PricesFlat, Busy
<1>7. r.pc \notin {"retire", "retired"} => AtMostOne(Claims) BY <1>1 DEF OneClaim
<1>8. CASE \E k \in Cart, promo \in BOOLEAN : Ask(k, promo)
  <2>1. /\ row' = row /\ node' = node /\ r.pc = "idle"
        /\ run'[Shop].pc = "live" /\ run'[Shop].price = 0
    BY <1>1, <1>8, AskDoes DEF CanStart, Busy, PricesFlat
  <2> QED BY <1>2, <1>3, <1>4, <1>5, <1>7, <2>1
<1>9. CASE ReadLive
  <2>1. row' = row /\ node' = node /\ r.pc = "live" /\ r \in ShopRun BY <1>9, ReadLiveDoes
  <2>2. run'[Shop].pc = "benefit" /\ run'[Shop].price = r.price
    BY <1>9, <2>1, ReadLiveDoes DEF ShopRun
  <2> QED BY <1>2, <1>3, <1>4, <1>5, <1>6, <1>7, <2>1, <2>2
<1>10. CASE ReadBenefit
  <2>1. row' = row /\ node' = node /\ r.pc = "benefit" /\ r \in ShopRun BY <1>10, ReadBenefitDoes
  <2>2. CASE run'[Shop] = Idle
    <3>1. run'[Shop].pc = "idle" BY <2>2 DEF Idle
    <3> QED BY <1>2, <1>3, <1>4, <1>5, <1>7, <2>1, <3>1
  <2>3. CASE run'[Shop] = [r EXCEPT !.pc = "live", !.promo = TRUE, !.via = TRUE]
    <3>1. run'[Shop].pc = "live" /\ run'[Shop].price = r.price BY <2>1, <2>3 DEF ShopRun
    <3> QED BY <1>2, <1>3, <1>4, <1>5, <1>6, <1>7, <2>1, <3>1
  <2>4. CASE /\ r.promo \/ \A c \in r.same : ~row[c].promo
             /\ \E b \in BonusRead(None, r.same) : run'[Shop] = [r EXCEPT !.pc = "mint", !.bonus = b]
    <3>1. PICK b \in BonusRead(None, r.same) : run'[Shop] = [r EXCEPT !.pc = "mint", !.bonus = b]
      BY <2>4
    <3>2. /\ run'[Shop].pc = "mint" /\ run'[Shop].price = r.price /\ run'[Shop].same = r.same
          /\ run'[Shop].promo = r.promo /\ run'[Shop].bonus = b
      BY <2>1, <3>1 DEF ShopRun
    <3>3. b => BonusFree(None, r.same) BY <3>1, NarrowForbids DEF BonusRead
    <3>4. b => Claims \subseteq r.same
      <4> SUFFICES ASSUME b PROVE Claims \subseteq r.same OBVIOUS
      <4>1. None \notin Draft /\ Busy(Shop) BY <2>1, LoyaltyBenefitAssumption DEF Busy
      <4>2. Claims \subseteq r.same \cup {None} BY <1>0, <1>1, <3>3, <4>1, FreeForMe
      <4>3. None \notin Claims
        BY LoyaltyBenefitAssumption DEF Claims, CodeClaims, DraftClaims
      <4> QED BY <4>2, <4>3
    <3> QED BY <1>2, <1>3, <1>4, <1>5, <1>6, <1>7, <2>1, <2>4, <3>2, <3>4
  <2> QED BY <1>10, <2>2, <2>3, <2>4, ReadBenefitDoes
<1>11. CASE Mint
  <2>1. row' = row /\ r.pc = "mint" /\ r \in ShopRun BY <1>11, MintDoes
  <2>2. CASE node' = node /\ run'[Shop] = Idle
    <3>1. run'[Shop].pc = "idle" BY <2>2 DEF Idle
    <3> QED BY <1>2, <1>3, <1>4, <1>5, <1>7, <2>1, <2>2, <3>1
  <2>3. CASE /\ \A c \in Code : ~Reusable(c)
             /\ \E c \in Code : /\ node[c] = "none" /\ node'[c] = "live" /\ OnlyNode(c)
                                /\ run'[Shop] = [r EXCEPT !.pc = "insert", !.code = c]
    <3>1. PICK c \in Code : /\ node[c] = "none" /\ node'[c] = "live" /\ OnlyNode(c)
                            /\ run'[Shop] = [r EXCEPT !.pc = "insert", !.code = c]
      BY <2>3
    <3>2. /\ run'[Shop].pc = "insert" /\ run'[Shop].price = r.price /\ run'[Shop].same = r.same
          /\ run'[Shop].promo = r.promo /\ run'[Shop].bonus = r.bonus
      BY <2>1, <3>1 DEF ShopRun
    <3>3. r.bonus /\ ~r.promo => Claims = {}
      <4> SUFFICES ASSUME r.bonus, ~r.promo, NEW x \in Claims PROVE FALSE OBVIOUS
      <4>1. x \in r.same /\ ~row[x].promo BY <1>1, <2>1 DEF OneClaim
      <4>2. x \in Code BY <2>1, <4>1 DEF ShopRun
      <4>3. row[x].bonus
        BY <4>2, LoyaltyBenefitAssumption DEF Claims, CodeClaims, DraftClaims
      <4>4. row[x] \in RowRec BY <4>2, OthersTyped
      <4>5. row[x].promo = r.promo /\ row[x].bonus = r.bonus
        BY <2>1, <4>1, <4>3, <4>4 DEF RowRec, ShopRun
      <4>6. row[x].price = r.price BY <1>1, <1>6, <2>1, <4>2 DEF PricesFlat
      <4> QED BY <2>3, <4>1, <4>2, <4>5, <4>6 DEF Reusable
    <3>4. NodesGone' BY <1>0, <1>1, <2>1, <3>1, <3>2 DEF NodesGone, OnlyNode
    <3>5. r.bonus => Claims \subseteq r.same BY <1>1, <2>1 DEF OneClaim
    <3> QED BY <1>2, <1>3, <1>5, <1>6, <1>7, <2>1, <3>2, <3>3, <3>4, <3>5
  <2> QED BY <1>11, <2>2, <2>3, MintDoes
<1>12. CASE Insert
  <2>1. /\ node' = node /\ r.pc = "insert" /\ r \in ShopRun /\ r.code \in Code /\ OnlyRow(r.code)
        /\ row'[r.code] = [status |-> "pending", cart |-> r.cart, price |-> r.price,
                           bonus |-> r.bonus, promo |-> r.promo, late |-> FALSE]
        /\ run'[Shop] = [r EXCEPT !.pc = IF r.promo THEN "retire" ELSE "answer"]
    BY <1>12, InsertDoes
  <2>2. /\ run'[Shop].pc = IF r.promo THEN "retire" ELSE "answer"
        /\ run'[Shop].price = r.price /\ run'[Shop].same = r.same /\ run'[Shop].code = r.code
    BY <2>1 DEF ShopRun
  <2>3. /\ row'[r.code].status = "pending" /\ row'[r.code].price = 0
        /\ row'[r.code].bonus = r.bonus
    BY <1>6, <2>1
  <2>4. PricesFlat' BY <1>0, <1>1, <1>6, <2>1, <2>2, <2>3 DEF PricesFlat, OnlyRow, Busy
  <2>5. NodesGone' BY <1>0, <1>1, <2>1, <2>2, <2>3 DEF NodesGone, OnlyRow
  <2>6. \A d \in Draft : Has(d)' <=> Has(d) BY <1>0, HasSame
  <2>7. ASSUME NEW x \in Claims' PROVE x \in Claims \/ (x = r.code /\ r.bonus)
    BY <1>0, <2>1, <2>3, <2>6, <2>7 DEF Claims, CodeClaims, DraftClaims, Pending, OnlyRow
  <2>8. r.bonus => Claims \subseteq r.same BY <1>1, <2>1 DEF OneClaim
  <2>9. CASE r.promo
    <3>1. run'[Shop].pc = "retire" BY <2>2, <2>9
    <3>2. AtMostOne(Claims') \/ Claims' \subseteq r.same \cup {r.code}
      <4>1. CASE r.bonus BY <2>7, <2>8, <4>1
      <4>2. CASE ~r.bonus
        <5>1. Claims' \subseteq Claims BY <2>7, <4>2
        <5> QED BY <1>7, <2>1, <5>1, AtMostOneOf
      <4> QED BY <4>1, <4>2
    <3> QED BY <1>2, <2>1, <2>2, <2>3, <2>4, <2>5, <3>1, <3>2
  <2>10. CASE ~r.promo
    <3>1. run'[Shop].pc = "answer" BY <2>2, <2>10
    <3>2. AtMostOne(Claims')
      <4>1. CASE r.bonus
        <5>1. Claims = {} BY <1>1, <2>1, <2>10, <4>1 DEF OneClaim
        <5> QED BY <2>7, <5>1 DEF AtMostOne
      <4>2. CASE ~r.bonus
        <5>1. Claims' \subseteq Claims BY <2>7, <4>2
        <5> QED BY <1>7, <2>1, <5>1, AtMostOneOf
      <4> QED BY <4>1, <4>2
    <3> QED BY <1>2, <2>4, <2>5, <3>1, <3>2
  <2> QED BY <2>9, <2>10
<1>13. CASE Retire
  <2>1. row' = row /\ r.pc = "retire" /\ r \in ShopRun BY <1>13, RetireDoes
  <2>2. AtMostOne(Claims) \/ Claims \subseteq r.same \cup {r.code} BY <1>1, <2>1 DEF OneClaim
  <2>3. CASE r.same = {} /\ node' = node /\ run'[Shop] = [r EXCEPT !.pc = "answer"]
    <3>1. run'[Shop].pc = "answer" /\ run'[Shop].price = r.price BY <2>1, <2>3 DEF ShopRun
    <3>2. AtMostOne(Claims) BY <2>2, <2>3 DEF AtMostOne
    <3> QED BY <1>2, <1>3, <1>4, <1>5, <1>6, <2>1, <2>3, <3>1, <3>2
  <2>4. CASE \E c \in r.same :
                /\ run'[Shop] = [r EXCEPT !.pc = "retired", !.same = r.same \ {c}, !.old = c]
                /\ OnlyNode(c) /\ node'[c] = "gone"
    <3>1. PICK c \in r.same :
                /\ run'[Shop] = [r EXCEPT !.pc = "retired", !.same = r.same \ {c}, !.old = c]
                /\ OnlyNode(c) /\ node'[c] = "gone"
      BY <2>4
    <3>2. /\ run'[Shop].pc = "retired" /\ run'[Shop].price = r.price /\ run'[Shop].old = c
          /\ run'[Shop].same = r.same \ {c} /\ run'[Shop].code = r.code
      BY <2>1, <3>1 DEF ShopRun
    <3>3. NodesGone' BY <1>0, <1>1, <2>1, <3>1, <3>2 DEF NodesGone, OnlyNode
    <3>4. AtMostOne(Claims) \/ Claims \subseteq (r.same \ {c}) \cup {r.code, c} BY <2>2
    <3>5. r.code \in Code /\ row[r.code].status # "used" BY <1>1, <2>1 DEF OneClaim, Unused
    <3> QED BY <1>2, <1>3, <1>5, <1>6, <2>1, <3>2, <3>3, <3>4, <3>5
  <2> QED BY <1>13, <2>3, <2>4, RetireDoes, NarrowForbids
<1>14. CASE Retired
  <2>1. /\ node' = node /\ r.pc = "retired" /\ r \in ShopRun /\ r.old \in Code
        /\ OnlyRow(r.old) /\ SameTerms(r.old) /\ row'[r.old].status = "expired"
        /\ run'[Shop] = [r EXCEPT !.pc = "retire"]
    BY <1>14, RetiredDoes
  <2>2. /\ run'[Shop].pc = "retire" /\ run'[Shop].price = r.price /\ run'[Shop].same = r.same
        /\ run'[Shop].code = r.code
    BY <2>1 DEF ShopRun
  <2>3. PricesFlat' BY <1>0, <1>1, <1>6, <2>1, <2>2 DEF PricesFlat, OnlyRow, SameTerms, Busy
  <2>4. NodesGone' BY <1>0, <1>1, <2>1, <2>2 DEF NodesGone, OnlyRow
  <2>5. r.old \notin ordered
    <3>1. row[r.old].status # "used" BY <2>1 DEF ListsUnused, ShopUnused, Unused
    <3> QED BY <1>0, <3>1, AllHeard
  <2>6. \A d \in Draft : Has(d)' <=> Has(d) BY <1>0, HasSame
  <2>7. ASSUME NEW x \in Claims' PROVE x \in Claims /\ x # r.old
    <3>1. CASE x \in CodeClaims'
      <4>1. x # r.old BY <1>0, <2>1, <2>5, <3>1 DEF CodeClaims, Pending
      <4> QED BY <1>0, <2>1, <3>1, <4>1 DEF Claims, CodeClaims, Pending, OnlyRow
    <3>2. CASE x \in DraftClaims'
      BY <1>0, <2>1, <2>6, <3>2, LoyaltyBenefitAssumption DEF Claims, DraftClaims
    <3> QED BY <2>7, <3>1, <3>2 DEF Claims
  <2>8. AtMostOne(Claims') \/ Claims' \subseteq r.same \cup {r.code}
    <3>1. CASE AtMostOne(Claims)
      <4>1. Claims' \subseteq Claims BY <2>7
      <4> QED BY <3>1, <4>1, AtMostOneOf
    <3>2. CASE Claims \subseteq r.same \cup {r.code, r.old} BY <2>7, <3>2
    <3> QED BY <1>1, <2>1, <3>1, <3>2 DEF OneClaim
  <2>9. r.code \in Code /\ row'[r.code].status # "used"
    <3>1. Unused(r.code) BY <1>1, <2>1 DEF OneClaim
    <3> QED BY <2>1, <3>1 DEF Unused, OnlyRow
  <2> QED BY <1>2, <2>2, <2>3, <2>4, <2>8, <2>9
<1>15. CASE Answer
  <2>1. row' = row /\ node' = node /\ r.pc = "answer" /\ run'[Shop].pc = "idle"
    BY <1>15, AnswerDoes DEF Idle
  <2> QED BY <1>2, <1>3, <1>4, <1>5, <1>7, <2>1
<1> QED BY <1>8, <1>9, <1>10, <1>11, <1>12, <1>13, <1>14, <1>15 DEF ShopStep

LEMMA BonusStep ==
  ASSUME RecordsInv, Narrow, BonusInv, [Next]_vars
  PROVE  BonusInv'
<1>1. /\ TypeInv /\ OneBusy /\ ListsUnused /\ SaleFits
      /\ \A d \in Draft : TagsFit(d)
  BY NarrowForbids DEF RecordsInv, CalmInv, SteadyInv, PromptInv
<1>2. CASE UNCHANGED vars
  <2>1. UNCHANGED <<row, node, doc, cart, run, hooks, ordered>> BY <1>2 DEF vars
  <2>2. Claims' \subseteq Claims BY <2>1, DraftsAsk, Shrinks DEF Pending
  <2>3. UnusedKept /\ SalesFirst' /\ NodesGone'
    BY <2>1 DEF UnusedKept, Unused, BonusInv, Flat, SalesFirst, NodesGone, Busy
  <2> QED BY <1>1, <2>1, <2>2, <2>3, BonusOther
<1>3. CASE \E d \in Draft : Staff(d) BY <1>1, <1>3, BonusStaff
<1>4. CASE \E d \in Draft : ChainStart(d) \/ ChainStep(d) BY <1>1, <1>4, BonusChain
<1>5. CASE ShopStep \/ \E k \in Cart, promo \in BOOLEAN : Ask(k, promo)
  BY <1>1, <1>5, BonusShop
<1>6. CASE HookStep \/ \E h \in hooks : HookStart(h) BY <1>1, <1>6, BonusHook
<1>7. CASE SweepStep \/ SweepStart BY <1>1, <1>7, BonusSweep
<1>8. CASE Event BY <1>1, <1>8, BonusEvent
<1>9. Calm /\ \A d \in Draft : ~ChainAgain(d) BY NarrowForbids, SteadyNext
<1> QED BY <1>2, <1>3, <1>4, <1>5, <1>6, <1>7, <1>8, <1>9, CalmNext

BonusAll == RecordsInv /\ (Narrow => BonusInv)

LEMMA BonusAlways == Spec => []BonusAll
<1>1. Init => BonusAll BY RecordsInit, BonusInit DEF BonusAll
<1>2. BonusAll /\ [Next]_vars => BonusAll'
  <2> SUFFICES ASSUME BonusAll, [Next]_vars PROVE BonusAll' OBVIOUS
  <2>1. Narrow' <=> Narrow BY CaseStays DEF Narrow, Only
  <2>2. Narrow => BonusInv' BY BonusStep DEF BonusAll
  <2> QED BY <2>1, <2>2, RecordsStep DEF BonusAll
<1> QED BY <1>1, <1>2, PTL DEF Spec

LEMMA FewOf ==
  ASSUME NEW S, AtMostOne(S)
  PROVE  Cardinality(S) <= 1
<1>1. CASE S = {} BY <1>1, FS_EmptySet
<1>2. CASE S # {}
  <2>1. PICK x \in S : TRUE BY <1>2
  <2>2. S = {x} BY <2>1 DEF AtMostOne
  <2>3. Cardinality({x}) = 1 BY FS_Singleton
  <2> QED BY <2>2, <2>3
<1> QED BY <1>1, <1>2

LEMMA BonusGives == BonusAll => BonusOnce
<1> SUFFICES ASSUME BonusAll, Narrow PROVE Cardinality(Took) <= 1
  BY DEF BonusOnce, Narrow
<1> DEFINE r == run[Shop]
<1>1. /\ TypeInv /\ OneBusy /\ ListsUnused /\ SaleFits /\ Flat /\ OneClaim
      /\ \A d \in Draft : PriceFits(d)
  BY NarrowForbids DEF BonusAll, RecordsInv, CalmInv, PromptInv, BonusInv
<1>2. ordered \subseteq Code /\ Code \cap Draft = {} BY <1>1, CodesApart
<1>3. Took \subseteq Claims
  <2>1. \A c \in ordered : row[c].bonus => c \in Claims BY <1>2 DEF Claims, CodeClaims
  <2>2. ASSUME NEW d \in Draft, Sold(d), doc[d].price = "bonus" PROVE d \in Claims
    <3>1. ~Busy(d) /\ ~doc[d].changed BY <1>1, <2>2 DEF SaleFits, DraftHeard
    <3>2. Right(d) BY <1>1, <3>1 DEF PriceFits
    <3>3. Has(d) /\ doc[d].loyalty.bonus BY <2>2, <3>2 DEF Right, Rate
    <3> QED BY <3>3 DEF Claims, DraftClaims
  <2> QED BY <2>1, <2>2 DEF Took
<1>4. CASE AtMostOne(Claims)
  <2>1. AtMostOne(Took) BY <1>3, <1>4, AtMostOneOf
  <2> QED BY <2>1, FewOf
<1>5. CASE ~AtMostOne(Claims)
  <2>1. /\ r.pc \in {"retire", "retired"} /\ Unused(r.code)
        /\ r.pc = "retire" => Claims \subseteq r.same \cup {r.code}
        /\ r.pc = "retired" => Claims \subseteq r.same \cup {r.code, r.old}
    BY <1>1, <1>5 DEF OneClaim
  <2>2. hooks = {} /\ run[Hook].pc = "idle"
    BY <1>1, <2>1, SlotsApart DEF Flat, SalesFirst, OneBusy, Busy
  <2>3. \A x \in Claims : Unused(x) BY <1>1, <2>1 DEF ListsUnused, ShopUnused
  <2>4. ASSUME NEW x \in Took PROVE FALSE
    <3>1. Unused(x) BY <1>3, <2>3, <2>4
    <3>2. x \in Code /\ row[x].status # "used" BY <3>1 DEF Unused
    <3>3. x \in ordered BY <1>2, <2>4, <3>2 DEF Took
    <3> QED BY <1>1, <2>2, <3>2, <3>3, AllHeard
  <2>5. Took = {} BY <2>4
  <2> QED BY <2>5, FewOf DEF AtMostOne
<1> QED BY <1>4, <1>5

(* The bonus of the month is good for one purchase, on an order or on a    *)
(* sold draft ("so the cart and the counter cannot both take it",          *)
(* ledger.js), as long as it is asked for at one place at a time, the      *)
(* price of a cart stays and sales are heard of before the next request,   *)
(* however often Apply is pressed and webhooks are delivered.              *)
THEOREM BonusOnceHolds == Spec => []BonusOnce
  BY BonusAlways, BonusGives, PTL
=============================================================================
