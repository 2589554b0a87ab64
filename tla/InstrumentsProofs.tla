------------------------- MODULE InstrumentsProofs -------------------------
(***************************************************************************)
(* Vouchers and exchange notes (Instruments), for any number of codes and  *)
(* drafts: types; that the ledger and the drafts agree on what is held     *)
(* where; that the value of an instrument is given once and the ledger     *)
(* knows to whom; that nothing that was spent is handed back.              *)
(***************************************************************************)
EXTENDS Instruments, FiniteSetTheorems, TLAPS

--------------------
(* Types *)

Pcs == {"clear", "untag", "lookFree", "free", "void", "look", "strip", "read", "swap", "release",
        "write", "tag", "issue", "apply", "rule", "lock", "redeem"}
Job == {"panel", "redeem", "note", "free", "void", "convert"}
Req == [pc : Pcs, job : Job, d : Draft, c : Code \cup {None}, x : Code \cup Draft \cup {None},
        tags : TagsType, rule : BOOLEAN]
Asking == {t \in TagsType : t.remove \/ t.apply # {}}
DocType == [state : {"open", "completed", "gone"}, code : Code \cup {None}, tags : TagsType,
            sent : SUBSET Asking]

\* What a request has in hand at each of its calls, by the job it does.
Fits(r) ==
    /\ r.pc \notin {"clear", "untag", "lookFree", "free", "void"} => r.c \in Code
    /\ r.pc \in {"lookFree", "free", "void", "swap", "release"} => r.x \in Code
    /\ r.pc = "strip" => r.x \in Draft
    /\ r.pc \in {"clear", "untag"} => r.job = "panel" \/ (r.job \in {"free", "void"} /\ r.x \in Code)
    /\ r.pc = "untag" => r.x \in Code \cup {None}
    /\ r.pc = "lookFree" => r.job = "panel"
    /\ r.pc = "free" => r.job \in {"panel", "free"}
    /\ r.pc = "void" => r.job = "void"
    /\ r.pc = "read" => r.job = "panel"
    /\ r.pc \in {"look", "strip"} => r.job \in {"panel", "redeem"}
    /\ r.job \in {"free", "void"} => r.c = None
    /\ r.job = "convert" => r.pc \in {"lock", "redeem", "rule"}
    /\ r.pc \in {"lock", "redeem"} => r.job = "convert"
    /\ r.job = "note" => r.pc \in {"swap", "release", "write", "tag", "issue", "apply"}
    /\ r.pc \in {"issue"} => r.job = "note"
    /\ r.pc = "rule" => r.job \in {"redeem", "convert"}

HookFits(h) ==
    /\ h.kind \in {"online", "completed", "deleted"}
    /\ h.kind = "online" => h.d \in Order /\ h.c \in Code
    /\ h.kind # "online" => h.d \in Draft
    /\ h.kind = "completed" => h.tags \in TagsType

Typed ==
    /\ case \in Case
    /\ ledger \in [Code -> RowType]
    /\ \A c \in Code : ledger[c].status = "applied" => ledger[c].draft \in Draft
    /\ doc \in [Draft -> DocType]
    /\ rule \subseteq Code
    /\ run = [s \in Slot |-> run[s]]
    /\ \A s \in Slot : Busy(s) => run[s] \in Req /\ Fits(run[s])
    /\ \A h \in hooks : HookFits(h)

LEMMA TypedIsTypeOK == Typed => TypeOK
<1> SUFFICES ASSUME Typed PROVE TypeOK OBVIOUS
<1>1. \A s \in Slot : Busy(s) =>
          /\ run[s].d \in Draft /\ run[s].c \in Code \cup {None}
          /\ run[s].tags \in TagsType
          /\ run[s].pc \in {"clear", "untag", "lookFree", "free", "void", "swap", "release"}
                => run[s].pc \in {"clear", "untag"} \/ run[s].x \in Code
          /\ run[s].pc = "strip" => run[s].x \in Draft
  BY DEF Typed, Req, Fits
<1>2. \A h \in hooks : h.kind = "online" <=> h.d \in Order
  BY InstrumentsAssumption DEF Typed, HookFits
<1>3. doc \in [Draft -> [state : {"open", "completed", "gone"}, code : Code \cup {None},
                          tags : TagsType, sent : SUBSET TagsType]]
  <2>1. \A d \in Draft : doc[d].sent \subseteq TagsType BY DEF Typed, DocType, Asking
  <2> QED BY <2>1 DEF Typed, DocType
<1> QED BY <1>1, <1>2, <1>3 DEF Typed, TypeOK

LEMMA SlotsApart == Api \in Slot /\ Hook \in Slot /\ Draft \subseteq Slot
  BY DEF Slot

LEMMA NoTagsType == NoTags \in TagsType
  BY DEF NoTags, TagsType

LEMMA InitTyped == Init => Typed
<1> SUFFICES ASSUME Init PROVE Typed OBVIOUS
<1>1. /\ case \in Case /\ ledger = [c \in Code |-> NoRow] /\ rule = {} /\ hooks = {}
      /\ doc = [d \in Draft |-> [state |-> "open", code |-> None, tags |-> NoTags, sent |-> {}]]
      /\ run = [s \in Slot |-> Idle]
  BY DEF Init
<1>2. NoRow \in RowType BY DEF NoRow, RowType, Status
<1>3. [state |-> "open", code |-> None, tags |-> NoTags, sent |-> {}] \in DocType BY NoTagsType DEF DocType
<1>4. \A s \in Slot : ~Busy(s) BY <1>1 DEF Busy, Idle
<1> QED BY <1>1, <1>2, <1>3, <1>4 DEF Typed, NoRow

\* The writers of the ledger and of the drafts keep rows and drafts typed.
LedgerTyped(l) ==
    l \in [Code -> RowType] /\ \A c \in Code : l[c].status = "applied" => l[c].draft \in Draft

LEMMA LedgerWrites ==
  ASSUME Typed, NEW c, NEW d \in Draft
  PROVE  /\ (\E b \in BOOLEAN : UpsertIssued(c, b)) => LedgerTyped(ledger')
         /\ Apply(c, d) => LedgerTyped(ledger')
         /\ (\E o \in Draft \cup Order, e \in {d, None} : Redeem(c, e, o)) => LedgerTyped(ledger')
         /\ Reopen(c) => LedgerTyped(ledger')
         /\ VoidInstrument(c) => LedgerTyped(ledger')
         /\ RevertApplied(d) => LedgerTyped(ledger')
<1> DEFINE T(r) == r \in RowType /\ (r.status = "applied" => r.draft \in Draft)
<1>1. \A k \in Code : T(ledger[k]) BY DEF Typed
<1>2. LedgerTyped(ledger) BY DEF Typed, LedgerTyped
<1>3. ASSUME NEW v, ledger' = [ledger EXCEPT ![c] = v], c \in Code => T(v)
      PROVE  LedgerTyped(ledger')
  BY <1>1, <1>2, <1>3 DEF LedgerTyped
<1>4. ASSUME NEW b \in BOOLEAN, UpsertIssued(c, b) PROVE LedgerTyped(ledger')
  <2>1. CASE ledger[c].status = "none"
    <3>1. ledger' = [ledger EXCEPT ![c] = [ledger[c] EXCEPT !.status = "open", !.rule = b]]
      BY <1>4, <2>1, <1>2 DEF UpsertIssued, LedgerTyped
    <3>2. c \in Code => T([ledger[c] EXCEPT !.status = "open", !.rule = b])
      BY <1>1 DEF RowType, Status
    <3> QED BY <3>1, <3>2, <1>3
  <2>2. CASE ledger[c].status # "none" BY <1>4, <2>2, <1>2 DEF UpsertIssued
  <2> QED BY <2>1, <2>2
<1>5. ASSUME Apply(c, d) PROVE LedgerTyped(ledger')
  <2>1. ledger' = [ledger EXCEPT ![c] = [ledger[c] EXCEPT !.status = "applied", !.draft = d]]
    BY <1>5, <1>2 DEF Apply, LedgerTyped
  <2>2. c \in Code => T([ledger[c] EXCEPT !.status = "applied", !.draft = d])
    BY <1>1 DEF RowType, Status
  <2> QED BY <2>1, <2>2, <1>3
<1>6. ASSUME NEW o \in Draft \cup Order, NEW e \in {d, None}, Redeem(c, e, o) PROVE LedgerTyped(ledger')
  <2> DEFINE v == [ledger[c] EXCEPT !.status = "redeemed", !.order = o,
                                    !.draft = IF e = None THEN @ ELSE e]
  <2>1. ledger' = [ledger EXCEPT ![c] = v]
    BY <1>6, <1>2 DEF Redeem, LedgerTyped
  <2>2. c \in Code => T(v) BY <1>1 DEF RowType, Status
  <2> HIDE DEF v
  <2> QED BY <2>1, <2>2, <1>3
<1>7. ASSUME Reopen(c) PROVE LedgerTyped(ledger')
  <2>1. ledger' = [ledger EXCEPT ![c] = Reopened(ledger[c])]
    BY <1>7, <1>2 DEF Reopen, LedgerTyped
  <2>2. c \in Code => T(Reopened(ledger[c])) BY <1>1 DEF RowType, Status, Reopened
  <2> QED BY <2>1, <2>2, <1>3
<1>8. ASSUME VoidInstrument(c) PROVE LedgerTyped(ledger')
  <2> DEFINE v == [ledger[c] EXCEPT !.status = IF @ = "none" THEN @ ELSE "voided"]
  <2>1. ledger' = [ledger EXCEPT ![c] = v]
    BY <1>8, <1>2 DEF VoidInstrument, LedgerTyped
  <2>2. c \in Code => T(v) BY <1>1 DEF RowType, Status
  <2> HIDE DEF v
  <2> QED BY <2>1, <2>2, <1>3
<1>9. ASSUME RevertApplied(d) PROVE LedgerTyped(ledger')
  <2>1. \A k \in Code : T([ledger[k] EXCEPT !.status = "open", !.draft = None])
    BY <1>1 DEF RowType, Status
  <2> QED BY <1>9, <2>1, <1>1 DEF RevertApplied, LedgerTyped
<1> QED BY <1>4, <1>5, <1>6, <1>7, <1>8, <1>9

DocsTyped(m) == m \in [Draft -> DocType]

LEMMA DocWrites ==
  ASSUME Typed, NEW d \in Draft, NEW c \in Code \cup {None}, NEW t \in TagsType
  PROVE  /\ DocsTyped([doc EXCEPT ![d].code = c])
         /\ DocsTyped([doc EXCEPT ![d].tags = t])
         /\ DocsTyped(Stripped(d))
<1>1. DocsTyped(doc) BY DEF Typed, DocsTyped
<1>2. ASSUME NEW v \in DocType PROVE DocsTyped([doc EXCEPT ![d] = v])
  BY <1>1 DEF DocsTyped
<1>3. doc[d] \in DocType BY DEF Typed
<1>4. /\ [doc EXCEPT ![d].code = c] = [doc EXCEPT ![d] = [doc[d] EXCEPT !.code = c]]
      /\ [doc EXCEPT ![d].tags = t] = [doc EXCEPT ![d] = [doc[d] EXCEPT !.tags = t]]
  BY <1>1 DEF DocsTyped
<1>5. [doc[d] EXCEPT !.code = c] \in DocType /\ [doc[d] EXCEPT !.tags = t] \in DocType
  BY <1>3 DEF DocType
<1>6. DocsTyped(Stripped(d))
  <2> DEFINE v == [doc[d] EXCEPT !.code = None, !.tags.num = {}]
  <2>1. [doc EXCEPT ![d].code = None, ![d].tags.num = {}] = [doc EXCEPT ![d] = v]
    BY <1>1, <1>3 DEF DocsTyped, DocType
  <2>2. v \in DocType BY <1>3 DEF DocType, TagsType
  <2> HIDE DEF v
  <2>3. DocsTyped([doc EXCEPT ![d] = v]) BY <2>2, <1>2
  <2> QED BY <1>1, <2>1, <2>3 DEF Stripped
<1> QED BY <1>2, <1>4, <1>5, <1>6

LEMMA TagWrites ==
  ASSUME Typed, NEW s \in Slot, Busy(s), NEW nums \in SUBSET Code, FinishTags(s, nums)
  PROVE  DocsTyped(doc')
<1>1. run[s].d \in Draft /\ run[s].tags \in TagsType BY DEF Typed, Req
<1>2. [run[s].tags EXCEPT !.num = @ \cup nums,
                          !.apply = IF run[s].job = "panel" THEN {} ELSE @] \in TagsType
  BY <1>1 DEF TagsType
<1> QED BY <1>1, <1>2, DocWrites DEF FinishTags

RunsTyped(rs) ==
    /\ rs = [t \in Slot |-> rs[t]]
    /\ \A t \in Slot : rs[t].pc # "idle" => rs[t] \in Req /\ Fits(rs[t])

\* A request goes on with what it has, or with another code, or ends.
LEMMA RunWrites ==
  ASSUME Typed, NEW s \in Slot
  PROVE  /\ Done(s) => RunsTyped(run')
         /\ \A r \in Req : Fits(r) /\ run' = [run EXCEPT ![s] = r] => RunsTyped(run')
<1>1. RunsTyped(run) BY DEF Typed, RunsTyped, Busy
<1> QED BY <1>1 DEF RunsTyped, Done, Idle

\* A request that goes on to the next call with what it has.
LEMMA GoesOn ==
  ASSUME Typed, NEW s \in Slot, Busy(s), NEW pc \in Pcs, Goto(s, pc),
         Fits([run[s] EXCEPT !.pc = pc])
  PROVE  RunsTyped(run')
<1>1. run' = [run EXCEPT ![s] = [run[s] EXCEPT !.pc = pc]] BY DEF Typed, Goto
<1>2. [run[s] EXCEPT !.pc = pc] \in Req BY DEF Typed, Req
<1> QED BY <1>1, <1>2, RunWrites

LEMMA TypedParts ==
  ASSUME Typed, case' = case, LedgerTyped(ledger'), DocsTyped(doc'), rule' \subseteq Code,
         RunsTyped(run'), \A h \in hooks' : HookFits(h)
  PROVE  Typed'
  BY DEF Typed, LedgerTyped, DocsTyped, RunsTyped, Busy

\* After a removal the request puts on what was asked for, or ends.
LEMMA GoesOnAfterRemove ==
  ASSUME Typed, NEW s \in Slot, run[s].pc \in {"untag", "lookFree", "free"},
         run[s].job \in {"panel", "free"}, NextOfRemove(s)
  PROVE  RunsTyped(run')
<1>1. Busy(s) BY DEF Busy
<1>2. run[s] \in Req /\ Fits(run[s]) BY <1>1 DEF Typed
<1>3. CASE run[s].c = None BY <1>3, RunWrites DEF NextOfRemove
<1>4. CASE run[s].c # None
  <2>1. run[s].job = "panel" BY <1>2, <1>4 DEF Fits
  <2>2. Goto(s, "look") BY <1>4 DEF NextOfRemove
  <2>3. Fits([run[s] EXCEPT !.pc = "look"]) BY <1>2, <1>4, <2>1 DEF Fits, Req
  <2> QED BY <1>1, <2>2, <2>3, GoesOn DEF Pcs
<1> QED BY <1>3, <1>4

LEMMA TakingOffTyped ==
  ASSUME Typed, NEW s \in Slot,
         Clear(s) \/ Untag(s) \/ LookFree(s) \/ Free(s) \/ Void(s)
  PROVE  Typed'
<1> DEFINE r == run[s]
<1>1. Busy(s) BY DEF Clear, Untag, LookFree, Free, Void, Busy
<1>2. r \in Req /\ Fits(r) /\ r.d \in Draft /\ r.tags \in TagsType
  BY <1>1 DEF Typed, Req
<1>3. LedgerTyped(ledger) /\ DocsTyped(doc) /\ RunsTyped(run) /\ rule \subseteq Code
      /\ \A h \in hooks : HookFits(h)
  BY DEF Typed, LedgerTyped, DocsTyped, RunsTyped, Busy
<1>4. CASE Clear(s)
  <2>1. CASE doc[r.d].state = "gone"
    BY <1>3, <1>4, <2>1, RunWrites, TypedParts DEF Clear
  <2>2. CASE doc[r.d].state # "gone"
    <3>1. PICK x : /\ x \in (IF r.job = "panel"
                             THEN IF doc[r.d].code # None THEN {doc[r.d].code}
                                  ELSE IF r.tags.num = {} THEN {None} ELSE r.tags.num
                             ELSE {r.x})
                   /\ run' = [run EXCEPT ![s].pc = "untag", ![s].x = x]
      BY <1>4, <2>2 DEF Clear
    <3>2. x \in Code \cup {None} /\ (r.job # "panel" => x \in Code)
      BY <1>2, <1>3, <1>4, <3>1 DEF Clear, Fits, DocsTyped, DocType, TagsType
    <3> DEFINE n == [r EXCEPT !.pc = "untag", !.x = x]
    <3>3. run' = [run EXCEPT ![s] = n] BY <1>3, <3>1 DEF RunsTyped
    <3>4. n \in Req BY <1>2, <3>2 DEF Req, Pcs
    <3>5. Fits(n) BY <1>2, <1>4, <3>2 DEF Fits, Clear, Req
    <3>6. RunsTyped(run') BY <3>3, <3>4, <3>5, RunWrites
    <3>7. doc' = [doc EXCEPT ![r.d].code = None] /\ UNCHANGED <<case, ledger, rule, hooks>>
      BY <1>4, <2>2 DEF Clear
    <3>8. DocsTyped(doc') BY <1>2, <3>7, DocWrites
    <3> QED BY <1>3, <3>6, <3>7, <3>8, TypedParts
  <2> QED BY <2>1, <2>2
<1>5. CASE Untag(s)
  <2>1. CASE doc[r.d].state = "gone"
    BY <1>3, <1>5, <2>1, RunWrites, TypedParts DEF Untag
  <2>2. CASE doc[r.d].state # "gone"
    <3>1. [r.tags EXCEPT !.num = {}, !.remove = IF r.job = "panel" THEN FALSE ELSE @] \in TagsType
      BY <1>2 DEF TagsType
    <3>2. DocsTyped(doc') /\ UNCHANGED <<case, ledger, rule, hooks>>
      BY <1>2, <1>5, <2>2, <3>1, DocWrites DEF Untag
    <3>3. RunsTyped(run')
      <4>0. r.job \in {"void", "free"} => r.x # None
        BY <1>2, <1>5, InstrumentsAssumption DEF Fits, Untag
      <4>1. CASE r.job = "void"
        <5>1. Goto(s, "void") BY <1>5, <2>2, <4>0, <4>1 DEF Untag
        <5>2. Fits([r EXCEPT !.pc = "void"]) BY <1>2, <1>5, <4>1 DEF Fits, Untag, Req
        <5> QED BY <1>1, <5>1, <5>2, GoesOn DEF Pcs
      <4>2. CASE r.job = "free"
        <5>1. Goto(s, "free") BY <1>5, <2>2, <4>0, <4>2 DEF Untag
        <5>2. Fits([r EXCEPT !.pc = "free"]) BY <1>2, <1>5, <4>2 DEF Fits, Untag, Req
        <5> QED BY <1>1, <5>1, <5>2, GoesOn DEF Pcs
      <4>3. CASE r.job = "panel" /\ r.x = None
        BY <1>5, <2>2, <4>3, GoesOnAfterRemove DEF Untag
      <4>4. CASE r.job = "panel" /\ r.x # None
        <5>1. Goto(s, "lookFree") BY <1>5, <2>2, <4>4 DEF Untag
        <5>2. Fits([r EXCEPT !.pc = "lookFree"]) BY <1>2, <1>5, <4>4 DEF Fits, Untag, Req
        <5> QED BY <1>1, <5>1, <5>2, GoesOn DEF Pcs
      <4> QED BY <1>2, <1>5, <4>1, <4>2, <4>3, <4>4 DEF Fits, Untag
    <3> QED BY <1>3, <3>2, <3>3, TypedParts
  <2> QED BY <2>1, <2>2
<1>6. CASE LookFree(s)
  <2>1. RunsTyped(run')
    <3>1. CASE ledger[r.x].status = "redeemed"
      BY <1>2, <1>6, <3>1, GoesOnAfterRemove DEF LookFree, Fits
    <3>2. CASE ledger[r.x].status # "redeemed"
      <4>1. Goto(s, "free") BY <1>6, <3>2 DEF LookFree
      <4>2. Fits([r EXCEPT !.pc = "free"]) BY <1>2, <1>6 DEF Fits, LookFree, Req
      <4> QED BY <1>1, <4>1, <4>2, GoesOn DEF Pcs
    <3> QED BY <3>1, <3>2
  <2> QED BY <1>3, <1>6, <2>1, TypedParts DEF LookFree
<1>7. CASE Free(s)
  <2>1. RunsTyped(run') BY <1>2, <1>7, GoesOnAfterRemove DEF Free, Fits
  <2> QED BY <1>2, <1>3, <1>7, <2>1, LedgerWrites, TypedParts DEF Free
<1>8. CASE Void(s)
  BY <1>2, <1>3, <1>8, LedgerWrites, RunWrites, TypedParts DEF Void
<1> QED BY <1>4, <1>5, <1>6, <1>7, <1>8

LEMMA PuttingOnTyped ==
  ASSUME Typed, NEW s \in Slot,
         \/ Look(s) \/ Strip(s) \/ Read(s) \/ Swap(s) \/ Release(s)
         \/ WriteCode(s) \/ WriteTags(s) \/ IssueNote(s) \/ ApplyLedger(s) \/ DeletePriceRule(s)
         \/ LockLook(s) \/ RedeemOnOrder(s)
  PROVE  Typed'
<1> DEFINE r == run[s]
<1>1. Busy(s)
  BY DEF Look, Strip, Read, Swap, Release, WriteCode, WriteTags, IssueNote, ApplyLedger,
         DeletePriceRule, LockLook, RedeemOnOrder, Busy
<1>2. r \in Req /\ Fits(r) /\ r.d \in Draft /\ r.tags \in TagsType
  BY <1>1 DEF Typed, Req
<1>3. LedgerTyped(ledger) /\ DocsTyped(doc) /\ RunsTyped(run) /\ rule \subseteq Code
      /\ \A h \in hooks : HookFits(h)
  BY DEF Typed, LedgerTyped, DocsTyped, RunsTyped, Busy
<1>4. ASSUME NEW n \in Req, Fits(n), run' = [run EXCEPT ![s] = n] PROVE RunsTyped(run')
  BY <1>4, RunWrites
<1>5. r.pc \notin {"clear", "untag", "lookFree", "free", "void"} => r.c \in Code
  BY <1>2 DEF Fits
<1>6. ASSUME r.c \in Code PROVE \A nums \in {{}, {r.c}} : FinishTags(s, nums) => DocsTyped(doc')
  BY <1>1, <1>6, TagWrites
<1>7. None \notin Code BY InstrumentsAssumption
<1>11. CASE Look(s)
  <2>1. r.pc = "look" /\ r.job \in {"panel", "redeem"} /\ r.c \in Code
    BY <1>2, <1>5, <1>11 DEF Look, Fits, Req, Job
  <2> DEFINE row == ledger[r.c]
             elsewhere == row.status = "applied" /\ row.draft # r.d
             n == [r EXCEPT !.pc = IF elsewhere THEN "strip" ELSE AfterLook(s),
                            !.x = IF elsewhere THEN row.draft ELSE None, !.rule = row.rule]
  <2>2. CASE Refused(s)
    <3>1. Done(s) /\ UNCHANGED <<case, ledger, rule, hooks>>
          /\ (UNCHANGED doc \/ FinishTags(s, {}))
      BY <1>11, <2>2 DEF Look
    <3> QED BY <1>3, <1>6, <2>1, <3>1, RunWrites, TypedParts
  <2>3. CASE ~Refused(s)
    <3>1. run' = [run EXCEPT ![s] = n] /\ UNCHANGED <<case, ledger, doc, rule, hooks>>
      BY <1>3, <1>11, <2>3 DEF Look, RunsTyped
    <3>2. row \in RowType /\ (elsewhere => row.draft \in Draft) BY <1>3, <2>1 DEF LedgerTyped
    <3>3. n.pc \in Pcs /\ n.x \in Draft \cup {None} /\ n.rule \in BOOLEAN
      BY <1>2, <3>2 DEF Req, Pcs, RowType, AfterLook
    <3>4. n \in Req BY <1>2, <3>3 DEF Req
    <3>5. Fits(n) BY <1>2, <2>1, <3>2 DEF Fits, AfterLook, Req
    <3> HIDE DEF n
    <3> QED BY <1>3, <1>4, <3>1, <3>4, <3>5, TypedParts
  <2> QED BY <2>2, <2>3
<1>12. CASE Strip(s)
  <2> DEFINE n == [r EXCEPT !.pc = AfterLook(s), !.x = None]
  <2>1. r.pc = "strip" /\ r.job \in {"panel", "redeem"} /\ r.c \in Code /\ r.x \in Draft
    BY <1>2, <1>5, <1>12 DEF Strip, Fits, Req, Job
  <2>2. run' = [run EXCEPT ![s] = n] /\ UNCHANGED <<case, ledger, rule, hooks>> /\ doc' = Stripped(r.x)
    BY <1>3, <1>12 DEF Strip, RunsTyped
  <2>3. n \in Req BY <1>2 DEF Req, Pcs, AfterLook
  <2>4. Fits(n) BY <1>2, <2>1 DEF Fits, AfterLook, Req
  <2>5. DocsTyped(doc') BY <1>2, <2>1, <2>2, DocWrites
  <2> HIDE DEF n
  <2> QED BY <1>3, <1>4, <2>2, <2>3, <2>4, <2>5, TypedParts
<1>13. CASE Read(s)
  <2>1. r.pc = "read" /\ r.job = "panel" /\ r.c \in Code BY <1>2, <1>5, <1>13 DEF Read, Fits
  <2>2. UNCHANGED <<case, ledger, rule, hooks>> BY <1>13 DEF Read
  <2>3. CASE doc[r.d].state = "gone" \/ doc[r.d].code = r.c
    <3>1. Done(s) /\ (UNCHANGED doc \/ FinishTags(s, {r.c})) BY <1>7, <1>13, <2>1, <2>3 DEF Read
    <3> QED BY <1>3, <1>6, <2>1, <2>2, <3>1, RunWrites, TypedParts
  <2>4. CASE doc[r.d].state # "gone" /\ doc[r.d].code = None
    <3>1. Goto(s, "write") /\ UNCHANGED doc BY <1>7, <1>13, <2>1, <2>4 DEF Read
    <3>2. Fits([r EXCEPT !.pc = "write"]) BY <1>2, <2>1 DEF Fits, Req
    <3>3. RunsTyped(run') BY <1>1, <3>1, <3>2, GoesOn DEF Pcs
    <3> QED BY <1>3, <2>2, <3>1, <3>3, TypedParts
  <2>5. CASE doc[r.d].state # "gone" /\ doc[r.d].code \notin {r.c, None}
    <3> DEFINE n == [r EXCEPT !.pc = "swap", !.x = doc[r.d].code]
    <3>1. run' = [run EXCEPT ![s] = n] /\ UNCHANGED doc
      BY <1>3, <1>13, <2>5 DEF Read, RunsTyped
    <3>2. doc[r.d].code \in Code BY <1>2, <1>3, <2>5 DEF DocsTyped, DocType
    <3>3. n \in Req BY <1>2, <3>2 DEF Req, Pcs
    <3>4. Fits(n) BY <1>2, <2>1, <3>2 DEF Fits, Req
    <3> HIDE DEF n
    <3> QED BY <1>3, <1>4, <2>2, <3>1, <3>3, <3>4, TypedParts
  <2> QED BY <2>3, <2>4, <2>5
<1>14. CASE Swap(s)
  <2>1. r.pc = "swap" BY <1>14 DEF Swap
  <2>2. UNCHANGED <<case, ledger, rule, hooks>> /\ doc' = Stripped(r.d) BY <1>14 DEF Swap
  <2>3. DocsTyped(doc') BY <1>2, <2>2, DocWrites
  <2>4. Fits([r EXCEPT !.pc = "release"]) BY <1>2, <2>1 DEF Fits, Req
  <2>5. RunsTyped(run')
    <3>1. Done(s) \/ Goto(s, "release") BY <1>14 DEF Swap
    <3> QED BY <1>1, <2>4, <3>1, RunWrites, GoesOn DEF Pcs
  <2> QED BY <1>3, <2>2, <2>3, <2>5, TypedParts
<1>15. CASE Release(s)
  <2> DEFINE n == [r EXCEPT !.pc = IF r.job = "redeem" THEN "look" ELSE "write", !.x = None]
  <2>1. r.pc = "release" /\ r.x \in Code /\ r.c \in Code BY <1>2, <1>15 DEF Release, Fits
  <2>2. UNCHANGED <<case, doc, rule, hooks>> /\ Reopen(r.x) BY <1>15 DEF Release
  <2>3. run' = [run EXCEPT ![s] = n] BY <1>3, <1>15 DEF Release, RunsTyped
  <2>4. n \in Req BY <1>2 DEF Req, Pcs
  <2>5. Fits(n) BY <1>2, <2>1 DEF Fits, Req, Job
  <2>6. LedgerTyped(ledger') BY <1>2, <2>2, LedgerWrites
  <2> HIDE DEF n
  <2> QED BY <1>3, <1>4, <2>2, <2>3, <2>4, <2>5, <2>6, TypedParts
<1>16. CASE WriteCode(s)
  <2>1. r.pc = "write" /\ r.c \in Code BY <1>2, <1>5, <1>16 DEF WriteCode
  <2>2. UNCHANGED <<case, ledger, rule, hooks>> BY <1>16 DEF WriteCode
  <2>3. Fits([r EXCEPT !.pc = "tag"]) BY <1>2, <2>1 DEF Fits, Req
  <2>4. \/ Done(s) /\ doc' = doc
        \/ doc' = [doc EXCEPT ![r.d].code = r.c] /\ Goto(s, "tag")
    BY <1>16 DEF WriteCode
  <2>5. RunsTyped(run') BY <1>1, <2>3, <2>4, RunWrites, GoesOn DEF Pcs
  <2>6. DocsTyped([doc EXCEPT ![r.d].code = r.c]) BY <1>2, <2>1, DocWrites
  <2>7. DocsTyped(doc') BY <1>3, <2>4, <2>6
  <2> QED BY <1>3, <2>2, <2>5, <2>7, TypedParts
<1>17. CASE WriteTags(s)
  <2> DEFINE pc == IF r.job = "note" THEN "issue" ELSE "apply"
  <2>1. r.pc = "tag" /\ r.c \in Code BY <1>2, <1>5, <1>17 DEF WriteTags
  <2>2. UNCHANGED <<case, ledger, rule, hooks>> BY <1>17 DEF WriteTags
  <2>3. Fits([r EXCEPT !.pc = pc]) BY <1>2, <2>1 DEF Fits, Req
  <2>4. \/ Done(s) /\ doc' = doc
        \/ FinishTags(s, {r.c}) /\ Goto(s, pc)
    BY <1>17, Zenon DEF WriteTags
  <2>5. RunsTyped(run') BY <1>1, <2>3, <2>4, RunWrites, GoesOn DEF Pcs
  <2>6. DocsTyped(doc') BY <1>3, <1>6, <2>1, <2>4
  <2> QED BY <1>3, <2>2, <2>5, <2>6, TypedParts
<1>18. CASE IssueNote(s)
  <2>1. r.pc = "issue" BY <1>18 DEF IssueNote
  <2>2. UNCHANGED <<case, doc, rule, hooks>> /\ UpsertIssued(r.c, FALSE) /\ Goto(s, "apply")
    BY <1>18 DEF IssueNote
  <2>3. Fits([r EXCEPT !.pc = "apply"]) BY <1>2, <2>1 DEF Fits, Req
  <2>4. RunsTyped(run') BY <1>1, <2>2, <2>3, GoesOn DEF Pcs
  <2>5. LedgerTyped(ledger') BY <1>2, <2>2, LedgerWrites
  <2> QED BY <1>3, <2>2, <2>4, <2>5, TypedParts
<1>19. CASE ApplyLedger(s)
  <2>1. r.pc = "apply" BY <1>19 DEF ApplyLedger
  <2>2. UNCHANGED <<case, doc, rule, hooks>> /\ Apply(r.c, r.d) BY <1>19 DEF ApplyLedger
  <2>3. RunsTyped(run')
    <3>1. CASE r.job = "redeem" /\ r.rule
      <4>1. Goto(s, "rule") BY <1>19, <3>1 DEF ApplyLedger
      <4>2. Fits([r EXCEPT !.pc = "rule"]) BY <1>2, <2>1, <3>1 DEF Fits, Req
      <4> QED BY <1>1, <4>1, <4>2, GoesOn DEF Pcs
    <3>2. CASE ~(r.job = "redeem" /\ r.rule) BY <1>19, <3>2, RunWrites DEF ApplyLedger
    <3> QED BY <3>1, <3>2
  <2>4. LedgerTyped(ledger') BY <1>2, <2>2, LedgerWrites
  <2> QED BY <1>3, <2>2, <2>3, <2>4, TypedParts
<1>20. CASE DeletePriceRule(s)
  BY <1>3, <1>20, RunWrites, TypedParts DEF DeletePriceRule
<1>21. CASE LockLook(s)
  <2> DEFINE n == [r EXCEPT !.pc = "redeem", !.rule = ledger[r.c].rule]
  <2>1. r.pc = "lock" /\ r.c \in Code BY <1>2, <1>5, <1>21 DEF LockLook
  <2>2. UNCHANGED <<case, ledger, doc, rule, hooks>> /\ (Done(s) \/ run' = [run EXCEPT ![s] = n])
    BY <1>3, <1>21 DEF LockLook, RunsTyped
  <2>3. n \in Req BY <1>2, <1>3, <2>1 DEF Req, Pcs, LedgerTyped, RowType
  <2>4. Fits(n) BY <1>2, <2>1 DEF Fits, Req
  <2> HIDE DEF n
  <2> QED BY <1>3, <1>4, <2>2, <2>3, <2>4, RunWrites, TypedParts
<1>22. CASE RedeemOnOrder(s)
  <2>1. r.pc = "redeem" BY <1>22 DEF RedeemOnOrder
  <2>2. UNCHANGED <<case, doc, rule, hooks>> /\ Redeem(r.c, r.d, r.d) BY <1>22 DEF RedeemOnOrder
  <2>3. Fits([r EXCEPT !.pc = "rule"]) BY <1>2, <2>1 DEF Fits, Req
  <2>4. Done(s) \/ Goto(s, "rule") BY <1>22 DEF RedeemOnOrder
  <2>5. RunsTyped(run') BY <1>1, <2>3, <2>4, RunWrites, GoesOn DEF Pcs
  <2>6. LedgerTyped(ledger') BY <1>2, <2>2, LedgerWrites
  <2> QED BY <1>3, <2>2, <2>5, <2>6, TypedParts
<1> QED BY <1>11, <1>12, <1>13, <1>14, <1>15, <1>16, <1>17, <1>18, <1>19, <1>20, <1>21, <1>22

\* A failed call sends the request on to a call it could have made, or ends it.
LEMMA FailsTyped ==
  ASSUME Typed, NEW s \in Slot, Fails(s)
  PROVE  Typed'
<1> DEFINE r == run[s]
<1>1. Busy(s) /\ UNCHANGED <<case, ledger, rule, hooks>> BY DEF Fails
<1>2. r \in Req /\ Fits(r) BY <1>1 DEF Typed
<1>3. LedgerTyped(ledger) /\ DocsTyped(doc) /\ RunsTyped(run) /\ rule \subseteq Code
      /\ \A h \in hooks : HookFits(h)
  BY DEF Typed, LedgerTyped, DocsTyped, RunsTyped, Busy
<1>4. UNCHANGED doc \/ FinishTags(s, {})
  BY DEF Fails
<1>5. DocsTyped(doc') BY <1>1, <1>3, <1>4, TagWrites
<1> DEFINE n == [r EXCEPT !.pc = AfterLook(s), !.x = None]
<1>6. \/ Done(s)
      \/ r.pc = "strip" /\ run' = [run EXCEPT ![s] = n]
      \/ r.pc = "look" /\ r.job = "redeem" /\ Goto(s, "write")
      \/ r.pc \in {"lookFree", "free", "clear", "untag"} /\ r.job = "panel" /\ NextOfRemove(s)
      \/ r.pc \in {"issue", "apply"} /\ r.job = "redeem" /\ Goto(s, "rule")
  BY <1>3 DEF Fails, RunsTyped
<1>7. RunsTyped(run')
  <2>1. CASE r.pc = "strip" /\ run' = [run EXCEPT ![s] = n]
    <3>1. n \in Req BY <1>2 DEF Req, Pcs, AfterLook
    <3>2. Fits(n) BY <1>2, <2>1 DEF Fits, AfterLook, Req, Job
    <3> HIDE DEF n
    <3> QED BY <2>1, <3>1, <3>2, RunWrites
  <2>2. CASE r.pc = "look" /\ r.job = "redeem" /\ Goto(s, "write")
    <3>1. Fits([r EXCEPT !.pc = "write"]) BY <1>2, <2>2 DEF Fits, Req
    <3> QED BY <1>1, <2>2, <3>1, GoesOn DEF Pcs
  <2>3. CASE r.pc \in {"lookFree", "free", "clear", "untag"} /\ r.job = "panel" /\ NextOfRemove(s)
    <3>1. CASE r.c = None BY <2>3, <3>1, RunWrites DEF NextOfRemove
    <3>2. CASE r.c # None
      <4>1. Goto(s, "look") BY <2>3, <3>2 DEF NextOfRemove
      <4>2. Fits([r EXCEPT !.pc = "look"]) BY <1>2, <2>3, <3>2 DEF Fits, Req
      <4> QED BY <1>1, <4>1, <4>2, GoesOn DEF Pcs
    <3> QED BY <3>1, <3>2
  <2>4. CASE r.pc \in {"issue", "apply"} /\ r.job = "redeem" /\ Goto(s, "rule")
    <3>1. Fits([r EXCEPT !.pc = "rule"]) BY <1>2, <2>4 DEF Fits, Req
    <3> QED BY <1>1, <2>4, <3>1, GoesOn DEF Pcs
  <2> HIDE DEF n
  <2> QED BY <1>6, <2>1, <2>2, <2>3, <2>4, RunWrites
<1> QED BY <1>1, <1>3, <1>5, <1>7, TypedParts

\* An edit of the panel changes the tags of its draft, and may be sent again.
LEMMA EditWrites ==
  ASSUME Typed, NEW d \in Draft, NEW t \in Asking, Edited(d, t)
  PROVE  /\ DocsTyped(doc')
         /\ \A e \in Draft \ {d} : doc'[e] = doc[e]
         /\ doc'[d].state = doc[d].state /\ doc'[d].code = doc[d].code /\ doc'[d].tags = t
<1> DEFINE v == [doc[d] EXCEPT !.tags = t, !.sent = IF Allowed("stale") THEN @ \cup {t} ELSE @]
<1>1. doc \in [Draft -> DocType] /\ doc[d] \in DocType BY DEF Typed
<1>2. v \in DocType /\ v.state = doc[d].state /\ v.code = doc[d].code /\ v.tags = t
  BY <1>1 DEF DocType, Asking
<1>3. doc' = [doc EXCEPT ![d] = v] BY <1>1 DEF Edited
<1> HIDE DEF v
<1> QED BY <1>1, <1>2, <1>3 DEF DocsTyped

\* A pass of the panel's chain is a request, fit for its first call.
LEMMA PassIsFit ==
  ASSUME Typed, NEW d \in Draft, NEW t \in Asking
  PROVE  Pass(d, t) \in Req /\ Fits(Pass(d, t))
<1> DEFINE c == IF t.apply = {} THEN None ELSE CHOOSE k \in t.apply : TRUE
           r == Request("panel", IF t.remove THEN "clear" ELSE "look", d, c, None)
<1>1. t \in TagsType /\ (t.remove \/ t.apply # {}) /\ doc[d].tags \in TagsType
  BY DEF Asking, Typed, DocType
<1>2. t.apply # {} => c \in t.apply OBVIOUS
<1>3. c \in Code \cup {None} /\ (~t.remove => c \in Code) BY <1>1, <1>2 DEF TagsType
<1>4. Pass(d, t) = [r EXCEPT !.tags = t] BY DEF Pass
<1> HIDE DEF c
<1>5. r \in Req BY <1>1, <1>3 DEF Request, Req, Pcs, Job, TagsType
<1>6. Fits(r) BY <1>1, <1>3 DEF Request, Fits, TagsType
<1> HIDE DEF r
<1>7. [r EXCEPT !.tags = t] \in Req BY <1>1, <1>5 DEF Req
<1>8. Fits([r EXCEPT !.tags = t]) BY <1>5, <1>6 DEF Fits, Req
<1> QED BY <1>4, <1>7, <1>8

\* What staff, customers and Shopify do, and the requests that begin.
LEMMA OthersTyped ==
  ASSUME Typed,
         \/ \E c \in Code : Issue(c)
         \/ \E d \in Draft : AskRemove(d) \/ Complete(d) \/ Delete(d) \/ ChainStart(d) \/ ChainAgain(d)
         \/ \E d \in Draft, c \in Code : AskApply(d, c) \/ PostRedeem(d, c)
         \/ \E d \in Draft, job \in {"free", "void"} : PostVoid(d, job)
         \/ \E c \in Code, o \in Order : BuyOnline(c, o)
         \/ \E h \in hooks : Handle(h)
         \/ Restart
  PROVE  Typed'
<1>1. LedgerTyped(ledger) /\ DocsTyped(doc) /\ RunsTyped(run) /\ rule \subseteq Code
      /\ \A h \in hooks : HookFits(h)
  BY DEF Typed, LedgerTyped, DocsTyped, RunsTyped, Busy
<1>2. \A d \in Draft : doc[d] \in DocType BY DEF Typed
<1>3. ASSUME NEW d \in Draft, NEW v \in DocType PROVE DocsTyped([doc EXCEPT ![d] = v])
  BY <1>1 DEF DocsTyped
<1>4. ASSUME NEW h, hooks' \subseteq hooks \cup {h}, HookFits(h) PROVE \A k \in hooks' : HookFits(k)
  BY <1>1, <1>4
<1>5. ASSUME NEW s \in Slot, NEW r \in Req, Fits(r), run' = [run EXCEPT ![s] = r] PROVE RunsTyped(run')
  BY <1>5, RunWrites
<1>11. ASSUME NEW c \in Code, Issue(c) PROVE Typed'
  <2>1. UNCHANGED <<case, doc, run, hooks>> /\ UpsertIssued(c, TRUE) /\ rule' \subseteq Code
    BY <1>1, <1>11 DEF Issue
  <2>2. LedgerTyped(ledger')
    <3>1. CASE Draft = {}
      <4>1. \A k \in Code : ledger[k].status # "applied" BY <1>1, <3>1 DEF LedgerTyped
      <4>2. \A k \in Code : ledger'[k] \in RowType /\ ledger'[k].status # "applied"
        BY <1>1, <2>1, <4>1 DEF LedgerTyped, UpsertIssued, RowType, Status
      <4> QED BY <1>1, <2>1, <4>2 DEF LedgerTyped, UpsertIssued
    <3>2. CASE Draft # {} BY <2>1, <3>2, LedgerWrites
    <3> QED BY <3>1, <3>2
  <2> QED BY <1>1, <2>1, <2>2, TypedParts
<1>12. ASSUME NEW d \in Draft, AskRemove(d) PROVE Typed'
  <2>1. [doc[d].tags EXCEPT !.remove = TRUE] \in Asking BY <1>2 DEF DocType, TagsType, Asking
  <2>2. DocsTyped(doc') BY <1>12, <2>1, EditWrites DEF AskRemove
  <2> QED BY <1>1, <1>12, <2>2, TypedParts DEF AskRemove
<1>13. ASSUME NEW d \in Draft, NEW c \in Code, AskApply(d, c) PROVE Typed'
  <2>1. [doc[d].tags EXCEPT !.apply = {c}] \in Asking BY <1>2 DEF DocType, TagsType, Asking
  <2>2. DocsTyped(doc') BY <1>13, <2>1, EditWrites DEF AskApply
  <2> QED BY <1>1, <1>13, <2>2, TypedParts DEF AskApply
<1>14. ASSUME NEW d \in Draft, Complete(d) PROVE Typed'
  <2> DEFINE h == [kind |-> "completed", d |-> d, tags |-> doc[d].tags]
  <2>1. [doc[d] EXCEPT !.state = "completed"] \in DocType BY <1>2 DEF DocType
  <2>2. /\ doc' = [doc EXCEPT ![d] = [doc[d] EXCEPT !.state = "completed"]]
        /\ UNCHANGED <<case, ledger, rule, run>> /\ hooks' = hooks \cup {h}
    BY <1>1, <1>14 DEF Complete, DocsTyped
  <2>3. DocsTyped(doc') BY <1>3, <2>1, <2>2
  <2>4. HookFits(h) BY <1>2 DEF HookFits, DocType
  <2> HIDE DEF h
  <2>5. \A k \in hooks' : HookFits(k) BY <1>4, <2>2, <2>4
  <2> QED BY <1>1, <2>2, <2>3, <2>5, TypedParts
<1>15. ASSUME NEW d \in Draft, Delete(d) PROVE Typed'
  <2> DEFINE h == [kind |-> "deleted", d |-> d]
             v == [doc[d] EXCEPT !.state = "gone", !.code = None, !.tags = NoTags]
  <2>1. v \in DocType BY <1>2, NoTagsType DEF DocType
  <2>2. /\ doc' = [doc EXCEPT ![d] = v]
        /\ UNCHANGED <<case, ledger, rule, run>> /\ hooks' = hooks \cup {h}
    BY <1>1, <1>15 DEF Delete, DocsTyped
  <2>3. DocsTyped(doc') BY <1>3, <2>1, <2>2
  <2>4. HookFits(h) BY DEF HookFits
  <2> HIDE DEF h
  <2>5. \A k \in hooks' : HookFits(k) BY <1>4, <2>2, <2>4
  <2> QED BY <1>1, <2>2, <2>3, <2>5, TypedParts
<1>16. ASSUME NEW c \in Code, NEW o \in Order, BuyOnline(c, o) PROVE Typed'
  <2> DEFINE h == [kind |-> "online", d |-> o, c |-> c]
  <2>1. UNCHANGED <<case, ledger, doc, run>> /\ rule' \subseteq Code /\ hooks' = hooks \cup {h}
    BY <1>1, <1>16 DEF BuyOnline
  <2>2. HookFits(h) BY DEF HookFits
  <2> HIDE DEF h
  <2>3. \A k \in hooks' : HookFits(k) BY <1>4, <2>1, <2>2
  <2> QED BY <1>1, <2>1, <2>3, TypedParts
<1>17. ASSUME NEW d \in Draft, ChainStart(d) \/ ChainAgain(d) PROVE Typed'
  <2>1. PICK t \in Asking : run' = [run EXCEPT ![d] = Pass(d, t)]
    <3>1. CASE ChainStart(d) BY <1>2, <3>1 DEF ChainStart, Triggered, DocType, Asking
    <3>2. CASE ChainAgain(d) BY <1>2, <3>2 DEF ChainAgain, DocType
    <3> QED BY <1>17, <3>1, <3>2
  <2>2. UNCHANGED <<case, ledger, doc, rule, hooks>> BY <1>17 DEF ChainStart, ChainAgain
  <2>3. RunsTyped(run') BY <1>5, <2>1, PassIsFit, SlotsApart
  <2> QED BY <1>1, <2>2, <2>3, TypedParts
<1>18. ASSUME NEW d \in Draft, NEW c \in Code, PostRedeem(d, c) PROVE Typed'
  <2> DEFINE job == IF Voucher THEN "redeem" ELSE "note"
             first == IF Voucher THEN "look" ELSE "write"
             r == Request(job, IF doc[d].code = None THEN first ELSE "swap", d, c, doc[d].code)
  <2>1. run' = [run EXCEPT ![Api] = r] /\ UNCHANGED <<case, ledger, doc, rule, hooks>>
    BY <1>18 DEF PostRedeem
  <2>2. doc[d].code \in Code \cup {None} /\ doc[d].tags \in TagsType BY <1>2 DEF DocType
  <2>3. r \in Req BY <2>2 DEF Request, Req, Pcs, Job
  <2>4. Fits(r) BY <2>2 DEF Request, Fits
  <2> HIDE DEF r
  <2>5. RunsTyped(run') BY <1>5, <2>1, <2>3, <2>4, SlotsApart
  <2> QED BY <1>1, <2>1, <2>5, TypedParts
<1>19. ASSUME NEW d \in Draft, NEW job \in {"free", "void"}, PostVoid(d, job) PROVE Typed'
  <2> DEFINE r == Request(job, "clear", d, None, doc[d].code)
  <2>1. run' = [run EXCEPT ![Api] = r] /\ UNCHANGED <<case, ledger, doc, rule, hooks>>
    BY <1>19 DEF PostVoid
  <2>2. doc[d].code \in Code /\ doc[d].tags \in TagsType BY <1>2, <1>19 DEF DocType, PostVoid
  <2>3. r \in Req BY <2>2 DEF Request, Req, Pcs, Job
  <2>4. Fits(r) BY <2>2 DEF Request, Fits
  <2> HIDE DEF r
  <2>5. RunsTyped(run') BY <1>5, <2>1, <2>3, <2>4, SlotsApart
  <2> QED BY <1>1, <2>1, <2>5, TypedParts
<1>20. ASSUME NEW h \in hooks, Handle(h) PROVE Typed'
  <2>1. HookFits(h) /\ hooks' \subseteq hooks
    BY <1>1, <1>20 DEF Handle, HandleDeleted, HandleOnline, HandleCompleted, Delivered
  <2>2. \A k \in hooks' : HookFits(k) BY <1>1, <2>1
  <2>3. CASE HandleDeleted(h)
    <3>1. h.d \in Draft /\ RevertApplied(h.d) /\ UNCHANGED <<case, doc, rule, run>>
      BY <2>1, <2>3 DEF HandleDeleted, HookFits
    <3>2. LedgerTyped(ledger') BY <3>1, LedgerWrites
    <3> QED BY <1>1, <2>2, <3>1, <3>2, TypedParts
  <2>4. CASE HandleOnline(h)
    <3>1. h.c \in Code /\ h.d \in Order /\ UNCHANGED <<case, doc, rule, run>>
          /\ (Redeem(h.c, None, h.d) \/ UNCHANGED ledger)
      BY <2>1, <2>4 DEF HandleOnline, HookFits
    <3>2. LedgerTyped(ledger')
      <4>1. CASE Redeem(h.c, None, h.d)
        <5> DEFINE v == [ledger[h.c] EXCEPT !.status = "redeemed", !.order = h.d]
        <5>1. ledger' = [ledger EXCEPT ![h.c] = [ledger[h.c] EXCEPT !.status = "redeemed", !.order = h.d, !.draft = @]]
          BY <1>1, <3>1, <4>1 DEF Redeem, LedgerTyped
        <5>2. ledger[h.c] \in RowType BY <1>1, <3>1 DEF LedgerTyped
        <5>3. [ledger[h.c] EXCEPT !.status = "redeemed", !.order = h.d, !.draft = @] = v
          BY <5>2 DEF RowType
        <5>4. v \in RowType /\ v.status = "redeemed" BY <3>1, <5>2 DEF RowType, Status
        <5> HIDE DEF v
        <5> QED BY <1>1, <5>1, <5>3, <5>4 DEF LedgerTyped
      <4> QED BY <1>1, <3>1, <4>1
    <3> QED BY <1>1, <2>2, <3>1, <3>2, TypedParts
  <2>5. CASE HandleCompleted(h)
    <3>1. h.d \in Draft /\ h.tags \in TagsType /\ UNCHANGED <<case, ledger, doc, rule>>
      BY <2>1, <2>5 DEF HandleCompleted, HookFits
    <3>2. CASE h.tags.num = {}
      BY <1>1, <2>2, <2>5, <3>1, <3>2, TypedParts DEF HandleCompleted
    <3>3. CASE h.tags.num # {}
      <4>1. PICK c \in h.tags.num : run' = [run EXCEPT ![Hook] = Request("convert", "lock", h.d, c, None)]
        BY <2>5, <3>3 DEF HandleCompleted
      <4> DEFINE r == Request("convert", "lock", h.d, c, None)
      <4>2. c \in Code BY <3>1, <4>1 DEF TagsType
      <4>3. doc[h.d].tags \in TagsType BY <1>2, <3>1 DEF DocType
      <4>4. r \in Req BY <3>1, <4>2, <4>3 DEF Request, Req, Pcs, Job
      <4>5. Fits(r) BY <4>2 DEF Request, Fits
      <4> HIDE DEF r
      <4>6. RunsTyped(run') BY <1>5, <4>1, <4>4, <4>5, SlotsApart DEF r
      <4> QED BY <1>1, <2>2, <3>1, <4>6, TypedParts
    <3> QED BY <3>2, <3>3
  <2> QED BY <1>20, <2>3, <2>4, <2>5 DEF Handle
<1>21. CASE Restart
  <2>1. run' = [s \in Slot |-> Idle] /\ UNCHANGED <<case, ledger, doc, rule, hooks>> BY <1>21 DEF Restart
  <2>2. RunsTyped(run') BY <2>1 DEF RunsTyped, Idle
  <2> QED BY <1>1, <2>1, <2>2, TypedParts
<1> QED BY <1>11, <1>12, <1>13, <1>14, <1>15, <1>16, <1>17, <1>18, <1>19, <1>20, <1>21

LEMMA NextTyped == Typed /\ [Next]_vars => Typed'
<1> SUFFICES ASSUME Typed, [Next]_vars PROVE Typed' OBVIOUS
<1>1. CASE UNCHANGED vars BY <1>1 DEF vars, Typed, Busy
<1>2. CASE \E s \in Slot : Step(s)
  BY <1>2, TakingOffTyped, PuttingOnTyped DEF Step
<1>3. CASE \E s \in Slot : Fails(s) BY <1>3, FailsTyped
<1> QED BY <1>1, <1>2, <1>3, OthersTyped DEF Next

\* Rows, drafts, requests and webhooks are what the code reads and writes,
\* whatever fails and overlaps.
THEOREM TypeCorrect == Spec => []TypeOK
<1>1. Spec => []Typed BY InitTyped, NextTyped, PTL DEF Spec
<1> QED BY <1>1, TypedIsTypeOK, PTL

--------------------
(* One request at a time *)

NoOverlap == ~Allowed("overlap")

OneBusy == \A s, t \in Slot : Busy(s) /\ Busy(t) => s = t

Open(d) == doc[d].state = "open"

\* Nobody holds the code.
Loose(c) == \A e \in Draft : Open(e) /\ doc[e].code # None => doc[e].code # c

\* A request is about to put its code on its draft, which it took off the
\* draft that had it.
Moving(r) ==
    \/ r.pc \in {"read", "write", "tag", "issue", "apply"}
    \/ r.pc \in {"swap", "release"} /\ r.job # "redeem"

HooksRight ==
    \A h \in hooks : /\ h.kind = "deleted" => doc[h.d].state = "gone"
                     /\ h.kind = "completed" => ~Open(h.d)

NeverBoth == \A d \in Draft : doc[d].tags.remove => doc[d].tags.apply = {}

Blank ==
    \A d \in Draft : Open(d) /\ doc[d].code = None =>
        doc[d].tags.num = {} \/ \E s \in Slot : run[s].pc = "untag" /\ run[s].d = d

Alone ==
    \A d, e \in Draft : Open(d) /\ Open(e) /\ d # e /\ doc[d].code # None => doc[d].code # doc[e].code

Reserved ==
    \A d \in Draft : Open(d) /\ doc[d].code # None =>
        LET row == ledger[doc[d].code] IN
        \/ row.status = "applied" /\ row.draft = d
        \/ row.status = "redeemed" /\ (row.draft \in {d, None} \/ ~Open(row.draft))
        \/ \E s \in Slot : /\ run[s].pc \in {"tag", "issue", "apply"}
                           /\ run[s].d = d /\ run[s].c = doc[d].code

OnDraft ==
    \A c \in Code : ledger[c].status = "applied" =>
        LET d == ledger[c].draft IN
        \/ doc[d].code = c
        \/ \E h \in hooks : h.kind = "deleted" /\ h.d = d
        \/ \E s \in Slot : Busy(s) /\ (\/ Moving(run[s]) /\ run[s].c = c
                                       \/ run[s].pc \in {"untag", "lookFree", "free", "void", "release"}
                                          /\ run[s].x = c)

Coupled(r) ==
    /\ r.job # "convert" <=> Open(r.d)
    /\ r.tags.remove => r.tags.apply = {}
    /\ r.job = "panel" /\ r.pc \in {"clear", "untag", "lookFree", "free"} => r.c = None
    /\ r.job = "panel" /\ r.pc \in {"clear", "look", "strip", "read"} => r.tags = doc[r.d].tags
    /\ r.pc = "clear" /\ r.job # "panel" => doc[r.d].code = r.x
    /\ r.pc \in {"untag", "lookFree", "free", "void", "release"} => Loose(r.x)
    /\ r.pc = "swap" => doc[r.d].code = r.x
    /\ r.pc \in {"write", "release"} \/ (r.pc \in {"look", "strip"} /\ r.job = "redeem")
          => doc[r.d].code = None
    /\ r.pc = "strip" => ledger[r.c].status = "applied" /\ ledger[r.c].draft = r.x /\ r.x # r.d
    /\ Moving(r) => \A e \in Draft \ {r.d} : Open(e) => doc[e].code # r.c
    /\ r.pc \in {"tag", "issue", "apply"} => doc[r.d].code = r.c

Holds ==
    /\ HooksRight /\ NeverBoth /\ Blank /\ Alone /\ Reserved /\ OnDraft
    /\ \A s \in Slot : Busy(s) => Coupled(run[s])

\* What the panel is about to free, or to write to the ledger, was not
\* redeemed.
Spares(r) ==
    r.job = "panel" =>
        /\ r.pc = "free" => ledger[r.x].status # "redeemed"
        /\ r.pc \in {"strip", "read", "swap", "release", "write", "tag", "apply"} =>
              ledger[r.c].status # "redeemed"

Unspent == \A s \in Slot : Busy(s) => Spares(run[s])

HoldsInv ==
    /\ Typed
    /\ NoOverlap => OneBusy /\ Unspent
    /\ Calm => Holds

\* While requests run one at a time, the others are idle and stay so.
LEMMA OneStays ==
  ASSUME Typed, OneBusy, NEW s \in Slot, Busy(s), NEW v, run' = [run EXCEPT ![s] = v]
  PROVE  /\ run'[s] = v
         /\ \A t \in Slot \ {s} : run[t].pc = "idle" /\ run'[t].pc = "idle"
         /\ OneBusy'
<1>1. \A t \in Slot \ {s} : run[t].pc = "idle" BY DEF OneBusy, Busy
<1>2. run'[s] = v /\ \A t \in Slot \ {s} : run'[t] = run[t] BY DEF Typed
<1> QED BY <1>1, <1>2 DEF OneBusy, Busy

LEMMA ClearHolds ==
  ASSUME Typed, OneBusy, Holds, NEW s \in Slot, Clear(s)
  PROVE  Holds'
<1> DEFINE r == run[s]
<1>1. Busy(s) /\ r.pc = "clear" BY DEF Clear, Busy
<1>2. r \in Req /\ Fits(r) /\ Coupled(r) /\ r.d \in Draft /\ Open(r.d)
  BY <1>1 DEF Typed, Holds, Req, Fits, Coupled
<1>3. PICK x : /\ x \in (IF r.job = "panel"
                         THEN IF doc[r.d].code # None THEN {doc[r.d].code}
                              ELSE IF r.tags.num = {} THEN {None} ELSE r.tags.num
                         ELSE {r.x})
               /\ run' = [run EXCEPT ![s].pc = "untag", ![s].x = x]
  BY <1>2 DEF Clear, Open
<1> DEFINE n == [r EXCEPT !.pc = "untag", !.x = x]
<1>4. run' = [run EXCEPT ![s] = n] BY <1>3 DEF Typed
<1>5. n.pc = "untag" /\ n.x = x /\ n.job = r.job /\ n.d = r.d /\ n.c = r.c /\ n.tags = r.tags
  BY <1>2 DEF Req
<1> HIDE DEF n
<1>6. run'[s] = n /\ \A t \in Slot \ {s} : run[t].pc = "idle" /\ run'[t].pc = "idle"
  BY <1>1, <1>4, OneStays
<1>7. doc' = [doc EXCEPT ![r.d].code = None] /\ UNCHANGED <<ledger, hooks>>
  BY <1>2 DEF Clear, Open
<1>8. /\ \A e \in Draft : doc'[e].state = doc[e].state /\ doc'[e].tags = doc[e].tags
      /\ doc'[r.d].code = None /\ \A e \in Draft \ {r.d} : doc'[e].code = doc[e].code
  BY <1>2, <1>7 DEF Typed, DocType
<1>9. /\ doc[r.d].code # None => x = doc[r.d].code
      /\ doc[r.d].code = None => x = None
  <2>1. CASE r.job = "panel"
    <3>1. r.tags = doc[r.d].tags BY <1>1, <1>2, <2>1 DEF Coupled
    <3>2. doc[r.d].code = None => r.tags.num = {}
      BY <1>1, <1>2, <1>6, <3>1 DEF Holds, Blank
    <3> QED BY <1>3, <2>1, <3>2
  <2>2. CASE r.job # "panel" BY <1>1, <1>2, <1>3, <2>2 DEF Coupled
  <2> QED BY <2>1, <2>2
<1>11. HooksRight' BY <1>7, <1>8 DEF Typed, Holds, HooksRight, HookFits, Open
<1>12. NeverBoth' BY <1>8 DEF Holds, NeverBoth
<1>13. Blank' BY <1>1, <1>5, <1>6, <1>8 DEF Holds, Blank, Open
<1>14. Alone' BY <1>8 DEF Holds, Alone, Open
<1>15. Reserved' BY <1>1, <1>5, <1>6, <1>7, <1>8 DEF Holds, Reserved, Open
<1>16. OnDraft' BY <1>1, <1>5, <1>6, <1>7, <1>8, <1>9 DEF Typed, Holds, OnDraft, Moving, Busy
<1>17. Loose(x)' BY <1>8, <1>9, <1>2 DEF Holds, Alone, Loose, Open
<1>18. Coupled(run[s])' BY <1>1, <1>2, <1>5, <1>6, <1>8, <1>17 DEF Coupled, Moving, Open
<1> QED BY <1>6, <1>11, <1>12, <1>13, <1>14, <1>15, <1>16, <1>18 DEF Holds, Busy

LEMMA GotoFacts ==
  ASSUME Typed, OneBusy, NEW s \in Slot, Busy(s), NEW pc, Goto(s, pc)
  PROVE  /\ run'[s].pc = pc /\ run'[s].job = run[s].job /\ run'[s].d = run[s].d
         /\ run'[s].c = run[s].c /\ run'[s].x = run[s].x /\ run'[s].tags = run[s].tags
         /\ \A t \in Slot \ {s} : run[t].pc = "idle" /\ run'[t].pc = "idle"
         /\ OneBusy'
<1>1. run' = [run EXCEPT ![s] = [run[s] EXCEPT !.pc = pc]] BY DEF Typed, Goto
<1>2. run[s] \in Req BY DEF Typed
<1> DEFINE v == [run[s] EXCEPT !.pc = pc]
<1>3. /\ v.pc = pc /\ v.job = run[s].job /\ v.d = run[s].d /\ v.c = run[s].c
      /\ v.x = run[s].x /\ v.tags = run[s].tags
  BY <1>2 DEF Req
<1> HIDE DEF v
<1>4. run' = [run EXCEPT ![s] = v] BY <1>1 DEF v
<1> QED BY <1>3, <1>4, OneStays

LEMMA DoneFacts ==
  ASSUME Typed, OneBusy, NEW s \in Slot, Busy(s), Done(s)
  PROVE  /\ \A t \in Slot : run'[t].pc = "idle"
         /\ \A t \in Slot \ {s} : run[t].pc = "idle"
         /\ OneBusy'
<1>1. run' = [run EXCEPT ![s] = Idle] BY DEF Typed, Done
<1>2. run'[s] = Idle /\ \A t \in Slot \ {s} : run[t].pc = "idle" /\ run'[t].pc = "idle"
  BY <1>1, OneStays
<1>3. \A t \in Slot : run'[t].pc = "idle" /\ (t # s => run[t].pc = "idle")
  BY <1>2 DEF Idle
<1> QED BY <1>3 DEF OneBusy, Busy

\* A reservation outlives a call that leaves the ledger and the codes alone.
LEMMA ReservedFrame ==
  ASSUME Typed, Reserved, UNCHANGED ledger,
         \A e \in Draft : doc'[e].state = doc[e].state /\ doc'[e].code = doc[e].code,
         \A t \in Slot : run[t].pc \in {"tag", "issue", "apply"} =>
            run'[t].pc \in {"tag", "issue", "apply"} /\ run'[t].d = run[t].d /\ run'[t].c = run[t].c
  PROVE  Reserved'
<1> SUFFICES ASSUME NEW d \in Draft, doc'[d].state = "open", doc'[d].code # None
             PROVE  (\/ ledger[doc[d].code].status = "applied" /\ ledger[doc[d].code].draft = d
                     \/ /\ ledger[doc[d].code].status = "redeemed"
                        /\ \/ ledger[doc[d].code].draft \in {d, None}
                           \/ doc'[ledger[doc[d].code].draft].state # "open"
                     \/ \E t \in Slot : /\ run'[t].pc \in {"tag", "issue", "apply"}
                                        /\ run'[t].d = d /\ run'[t].c = doc[d].code)
  BY DEF Reserved, Open
<1> DEFINE row == ledger[doc[d].code]
<1>1. Open(d) /\ doc[d].code # None BY DEF Open
<1>2. row.draft \in Draft \cup {None} BY <1>1 DEF Typed, DocType, RowType
<1>3. row.draft \in Draft => (~Open(row.draft) => doc'[row.draft].state # "open") BY DEF Open
<1>4. \/ row.status = "applied" /\ row.draft = d
      \/ row.status = "redeemed" /\ (row.draft \in {d, None} \/ ~Open(row.draft))
      \/ \E t \in Slot : run[t].pc \in {"tag", "issue", "apply"} /\ run[t].d = d /\ run[t].c = doc[d].code
  BY <1>1 DEF Reserved
<1>5. CASE \E t \in Slot : run[t].pc \in {"tag", "issue", "apply"} /\ run[t].d = d /\ run[t].c = doc[d].code
  BY <1>5
<1> QED BY <1>2, <1>3, <1>4, <1>5

LEMMA UntagHolds ==
  ASSUME Typed, OneBusy, Holds, NEW s \in Slot, Untag(s)
  PROVE  Holds'
<1> DEFINE r == run[s]
<1>1. Busy(s) /\ r.pc = "untag" BY DEF Untag, Busy
<1>2. r \in Req /\ Fits(r) /\ Coupled(r) /\ r.d \in Draft /\ Open(r.d)
  BY <1>1 DEF Typed, Holds, Req, Fits, Coupled
<1>3. \E pc \in {"void", "free", "lookFree"} : Goto(s, pc) \/ (r.x = None /\ Done(s))
  <2>1. r.job = "panel" => r.c = None BY <1>1, <1>2 DEF Coupled
  <2>2. r.job \in {"void", "free"} => r.x # None
    BY <1>1, <1>2, InstrumentsAssumption DEF Fits
  <2>3. r.job \in {"panel", "void", "free"} BY <1>1, <1>2 DEF Fits
  <2>4. CASE r.job = "void"
    <3>1. Goto(s, "void") BY <1>2, <2>2, <2>4 DEF Untag, Open
    <3> QED BY <3>1
  <2>5. CASE r.job = "free"
    <3>1. Goto(s, "free") BY <1>2, <2>2, <2>5 DEF Untag, Open
    <3> QED BY <3>1
  <2>6. CASE r.job = "panel" /\ r.x = None
    <3>1. NextOfRemove(s) BY <1>2, <2>6 DEF Untag, Open
    <3> QED BY <2>1, <2>6, <3>1 DEF NextOfRemove
  <2>7. CASE r.job = "panel" /\ r.x # None
    <3>1. Goto(s, "lookFree") BY <1>2, <2>7 DEF Untag, Open
    <3> QED BY <3>1
  <2> QED BY <2>3, <2>4, <2>5, <2>6, <2>7
<1>4. PICK pc \in {"void", "free", "lookFree"} : Goto(s, pc) \/ (r.x = None /\ Done(s)) BY <1>3
<1>5. /\ \A t \in Slot \ {s} : run[t].pc = "idle" /\ run'[t].pc = "idle"
      /\ \/ /\ run'[s].pc = pc /\ run'[s].job = r.job /\ run'[s].d = r.d
            /\ run'[s].c = r.c /\ run'[s].x = r.x /\ run'[s].tags = r.tags
         \/ r.x = None /\ run'[s].pc = "idle"
  BY <1>1, <1>4, GotoFacts, DoneFacts
<1> DEFINE t == [r.tags EXCEPT !.num = {}, !.remove = IF r.job = "panel" THEN FALSE ELSE @]
<1>6. doc' = [doc EXCEPT ![r.d].tags = t] /\ UNCHANGED <<ledger, hooks>>
  BY <1>2 DEF Untag, Open
<1>7. t.num = {} /\ (t.remove => t.apply = {}) BY <1>2 DEF Req, TagsType, Coupled
<1> HIDE DEF t
<1>8. /\ \A e \in Draft : doc'[e].state = doc[e].state /\ doc'[e].code = doc[e].code
      /\ doc'[r.d].tags = t /\ \A e \in Draft \ {r.d} : doc'[e].tags = doc[e].tags
  BY <1>2, <1>6 DEF Typed, DocType
<1>9. pc # "idle" OBVIOUS
<1>11. HooksRight' BY <1>6, <1>8 DEF Typed, Holds, HooksRight, HookFits, Open
<1>12. NeverBoth' BY <1>7, <1>8 DEF Holds, NeverBoth
<1>13. Blank' BY <1>1, <1>5, <1>7, <1>8 DEF Holds, Blank, Open
<1>14. Alone' BY <1>8 DEF Holds, Alone, Open
<1>15. Reserved'
  <2>1. \A u \in Slot : run[u].pc \notin {"tag", "issue", "apply"} BY <1>1, <1>5
  <2> QED BY <1>6, <1>8, <2>1, ReservedFrame DEF Holds
<1>16. OnDraft'
  BY <1>1, <1>5, <1>6, <1>8, <1>9, InstrumentsAssumption DEF Typed, Holds, OnDraft, Moving, Busy
<1>17. \A u \in Slot : Busy(u)' => Coupled(run[u])'
  BY <1>1, <1>2, <1>5, <1>8 DEF Coupled, Moving, Open, Loose, Busy
<1> QED BY <1>11, <1>12, <1>13, <1>14, <1>15, <1>16, <1>17 DEF Holds

\* Freeing and voiding come after the code is off the draft.
LEMMA FreeHolds ==
  ASSUME Typed, OneBusy, Holds, NEW s \in Slot, LookFree(s) \/ Free(s) \/ Void(s)
  PROVE  Holds'
<1> DEFINE r == run[s]
<1>1. Busy(s) /\ r.pc \in {"lookFree", "free", "void"} BY DEF LookFree, Free, Void, Busy
<1>2. r \in Req /\ Fits(r) /\ Coupled(r) /\ r.x \in Code /\ r.c = None
  BY <1>1 DEF Typed, Holds, Fits, Coupled
<1>3. UNCHANGED <<doc, hooks>> BY DEF LookFree, Free, Void
<1>4. NextOfRemove(s) => Done(s) BY <1>2 DEF NextOfRemove
<1>5. \/ r.pc = "lookFree" /\ Goto(s, "free") /\ UNCHANGED ledger
      \/ r.pc = "lookFree" /\ Done(s) /\ ledger[r.x].status = "redeemed" /\ UNCHANGED ledger
      \/ Done(s) /\ (Reopen(r.x) \/ VoidInstrument(r.x))
  BY <1>4 DEF LookFree, Free, Void
<1>6. /\ \A c \in Code \ {r.x} : ledger'[c] = ledger[c]
      /\ \/ run'[s].pc = "free" /\ UNCHANGED ledger
         \/ run'[s].pc = "idle" /\ ledger'[r.x].status # "applied"
      /\ run'[s].pc = "free" => /\ run'[s].job = r.job /\ run'[s].d = r.d /\ run'[s].c = r.c
                                /\ run'[s].x = r.x /\ run'[s].tags = r.tags
      /\ \A t \in Slot \ {s} : run[t].pc = "idle" /\ run'[t].pc = "idle"
  <2>1. CASE Goto(s, "free") /\ UNCHANGED ledger BY <1>1, <2>1, GotoFacts
  <2>2. CASE Done(s) /\ ledger[r.x].status = "redeemed" /\ UNCHANGED ledger
    BY <1>1, <2>2, DoneFacts
  <2>3. CASE Done(s) /\ (Reopen(r.x) \/ VoidInstrument(r.x))
    <3>1. \A t \in Slot : run'[t].pc = "idle" /\ (t # s => run[t].pc = "idle") BY <1>1, <2>3, DoneFacts
    <3>2. /\ \A c \in Code \ {r.x} : ledger'[c] = ledger[c]
          /\ ledger'[r.x].status # "applied"
      <4>1. ledger[r.x] \in RowType BY <1>2 DEF Typed
      <4>2. CASE Reopen(r.x)
        <5>1. ledger' = [ledger EXCEPT ![r.x] = Reopened(ledger[r.x])] BY <4>2 DEF Typed, Reopen
        <5>2. Reopened(ledger[r.x]).status # "applied" BY <4>1 DEF Reopened, RowType
        <5> QED BY <1>2, <5>1, <5>2 DEF Typed
      <4>3. CASE VoidInstrument(r.x)
        <5> DEFINE v == [ledger[r.x] EXCEPT !.status = IF @ = "none" THEN @ ELSE "voided"]
        <5>1. ledger' = [ledger EXCEPT ![r.x] = v] BY <4>3 DEF Typed, VoidInstrument
        <5>2. v.status # "applied" BY <4>1 DEF RowType
        <5> HIDE DEF v
        <5> QED BY <1>2, <5>1, <5>2 DEF Typed
      <4> QED BY <2>3, <4>2, <4>3
    <3> QED BY <3>1, <3>2
  <2> QED BY <1>5, <2>1, <2>2, <2>3
<1>7. Loose(r.x) BY <1>1, <1>2 DEF Coupled
<1>11. HooksRight' /\ NeverBoth' /\ Alone' BY <1>3 DEF Holds, HooksRight, NeverBoth, Alone, Open
<1>13. Blank' BY <1>1, <1>3, <1>6 DEF Holds, Blank, Open
<1>15. Reserved' BY <1>1, <1>3, <1>6, <1>7 DEF Typed, DocType, Holds, Reserved, Loose, Open
<1>16. OnDraft' BY <1>1, <1>2, <1>3, <1>6 DEF Holds, OnDraft, Moving, Busy
<1>17. \A u \in Slot : Busy(u)' => Coupled(run[u])'
  BY <1>1, <1>2, <1>3, <1>6, <1>7 DEF Coupled, Moving, Open, Loose, Busy
<1> QED BY <1>11, <1>13, <1>15, <1>16, <1>17 DEF Holds

LEMMA LookHolds ==
  ASSUME Typed, OneBusy, Holds, NEW s \in Slot, Look(s)
  PROVE  Holds'
<1> DEFINE r == run[s]
           row == ledger[r.c]
           elsewhere == row.status = "applied" /\ row.draft # r.d
           n == [r EXCEPT !.pc = IF elsewhere THEN "strip" ELSE AfterLook(s),
                          !.x = IF elsewhere THEN row.draft ELSE None, !.rule = row.rule]
<1>1. Busy(s) /\ r.pc = "look" BY DEF Look, Busy
<1>2. r \in Req /\ Fits(r) /\ Coupled(r) /\ r.d \in Draft /\ Open(r.d) /\ r.c \in Code
      /\ r.job \in {"panel", "redeem"}
  BY <1>1 DEF Typed, Holds, Req, Fits, Coupled
<1>3. UNCHANGED <<ledger, hooks>> BY DEF Look
<1>4. CASE Refused(s)
  <2>1. Done(s) /\ ((r.job = "panel" /\ FinishTags(s, {})) \/ UNCHANGED doc)
    BY <1>4 DEF Look
  <2>2. \A t \in Slot : run'[t].pc = "idle" /\ (t # s => run[t].pc = "idle") BY <1>1, <2>1, DoneFacts
  <2> DEFINE t == [r.tags EXCEPT !.num = @ \cup {}, !.apply = IF r.job = "panel" THEN {} ELSE @]
  <2>3. r.job = "panel" => t.num = doc[r.d].tags.num /\ t.apply = {}
    BY <1>1, <1>2 DEF Coupled, Req, TagsType
  <2>4. UNCHANGED doc \/ (r.job = "panel" /\ doc' = [doc EXCEPT ![r.d].tags = t])
    BY <2>1 DEF FinishTags
  <2> HIDE DEF t
  <2>5. /\ \A e \in Draft : doc'[e].state = doc[e].state /\ doc'[e].code = doc[e].code
        /\ \A e \in Draft : \/ doc'[e].tags = doc[e].tags
                            \/ doc'[e].tags.num = doc[e].tags.num /\ doc'[e].tags.apply = {}
    <3>1. CASE UNCHANGED doc BY <3>1
    <3>2. CASE r.job = "panel" /\ doc' = [doc EXCEPT ![r.d].tags = t]
      BY <1>2, <2>3, <3>2 DEF Typed, DocType
    <3> QED BY <2>4, <3>1, <3>2
  <2>11. HooksRight' BY <1>3, <2>5 DEF Typed, Holds, HooksRight, HookFits, Open
  <2>12. NeverBoth' BY <2>5 DEF Holds, NeverBoth
  <2>13. Blank' BY <1>1, <2>2, <2>5 DEF Holds, Blank, Open
  <2>14. Alone' BY <2>5 DEF Holds, Alone, Open
  <2>15. Reserved' BY <1>1, <1>3, <2>2, <2>5 DEF Typed, DocType, RowType, Holds, Reserved, Open
  <2>16. OnDraft' BY <1>1, <1>3, <2>2, <2>5 DEF Typed, Holds, OnDraft, Moving, Busy
  <2> QED BY <2>2, <2>11, <2>12, <2>13, <2>14, <2>15, <2>16 DEF Holds, Busy
<1>5. CASE ~Refused(s)
  <2>1. run' = [run EXCEPT ![s] = n] /\ UNCHANGED doc
    BY <1>5 DEF Typed, Look
  <2>2. /\ n.pc = IF elsewhere THEN "strip" ELSE AfterLook(s)
        /\ n.x = IF elsewhere THEN row.draft ELSE None
        /\ n.job = r.job /\ n.d = r.d /\ n.c = r.c /\ n.tags = r.tags
    BY <1>2 DEF Req
  <2> HIDE DEF n
  <2>3. run'[s] = n /\ \A t \in Slot \ {s} : run[t].pc = "idle" /\ run'[t].pc = "idle"
    BY <1>1, <2>1, OneStays
  <2>4. ~elsewhere => \A e \in Draft \ {r.d} : Open(e) => doc[e].code # r.c
    <3> SUFFICES ASSUME ~elsewhere, NEW e \in Draft \ {r.d}, Open(e), doc[e].code = r.c PROVE FALSE
      OBVIOUS
    <3>1. ~\E t \in Slot : run[t].pc \in {"tag", "issue", "apply"} BY <1>1, <2>3
    <3>2. \/ row.status = "applied" /\ row.draft = e
          \/ row.status = "redeemed" /\ (row.draft \in {e, None} \/ ~Open(row.draft))
      BY <1>2, <3>1, InstrumentsAssumption DEF Holds, Reserved
    <3> QED BY <1>2, <1>5, <3>2, InstrumentsAssumption DEF Refused
  <2>11. HooksRight' /\ NeverBoth' /\ Alone' BY <1>3, <2>1 DEF Holds, HooksRight, NeverBoth, Alone, Open
  <2>13. Blank' BY <1>1, <2>1, <2>3 DEF Holds, Blank, Open
  <2>15. Reserved' BY <1>1, <1>3, <2>1, <2>3 DEF Holds, Reserved, Open
  <2>16. OnDraft' BY <1>1, <1>3, <2>1, <2>3 DEF Holds, OnDraft, Moving, Busy
  <2>17. Coupled(run[s])'
    BY <1>1, <1>2, <1>3, <2>1, <2>2, <2>3, <2>4 DEF Coupled, Moving, Open, AfterLook
  <2> QED BY <2>3, <2>11, <2>13, <2>15, <2>16, <2>17 DEF Holds, Busy
<1> QED BY <1>4, <1>5

\* What a draft is stripped of is the code the request takes elsewhere.
LEMMA StrippedFacts ==
  ASSUME Typed, NEW d \in Draft, doc' = Stripped(d)
  PROVE  /\ \A e \in Draft : doc'[e].state = doc[e].state
         /\ \A e \in Draft \ {d} : doc'[e] = doc[e]
         /\ ~Open(d) => doc'[d] = doc[d]
         /\ Open(d) => /\ doc'[d].code = None /\ doc'[d].tags.num = {}
                       /\ doc'[d].tags.apply = doc[d].tags.apply
                       /\ doc'[d].tags.remove = doc[d].tags.remove
<1>1. CASE Open(d)
  <2> DEFINE v == [doc[d] EXCEPT !.code = None, !.tags.num = {}]
  <2>1. doc' = [doc EXCEPT ![d] = v] BY <1>1 DEF Stripped, Open, Typed, DocType
  <2>2. /\ v.state = doc[d].state /\ v.code = None /\ v.tags.num = {}
        /\ v.tags.apply = doc[d].tags.apply /\ v.tags.remove = doc[d].tags.remove
    BY DEF Typed, DocType, TagsType
  <2> HIDE DEF v
  <2>3. doc'[d] = v /\ \A e \in Draft \ {d} : doc'[e] = doc[e] BY <2>1 DEF Typed
  <2> QED BY <1>1, <2>2, <2>3
<1>2. CASE ~Open(d) BY <1>2 DEF Stripped, Open
<1> QED BY <1>1, <1>2

LEMMA StripHolds ==
  ASSUME Typed, OneBusy, Holds, NEW s \in Slot, Strip(s)
  PROVE  Holds'
<1> DEFINE r == run[s]
           n == [r EXCEPT !.pc = AfterLook(s), !.x = None]
<1>1. Busy(s) /\ r.pc = "strip" BY DEF Strip, Busy
<1>2. /\ r \in Req /\ Fits(r) /\ Coupled(r) /\ r.d \in Draft /\ Open(r.d) /\ r.c \in Code
      /\ r.job \in {"panel", "redeem"} /\ r.x \in Draft \ {r.d}
      /\ ledger[r.c].status = "applied" /\ ledger[r.c].draft = r.x
  BY <1>1 DEF Typed, Holds, Req, Fits, Coupled
<1>3. UNCHANGED <<ledger, hooks>> /\ doc' = Stripped(r.x) BY DEF Strip
<1>4. run' = [run EXCEPT ![s] = n] BY DEF Typed, Strip
<1>5. n.pc = AfterLook(s) /\ n.job = r.job /\ n.d = r.d /\ n.c = r.c /\ n.tags = r.tags
  BY <1>2 DEF Req
<1> HIDE DEF n
<1>6. run'[s] = n /\ \A t \in Slot \ {s} : run[t].pc = "idle" /\ run'[t].pc = "idle"
  BY <1>1, <1>4, OneStays
<1>7. /\ \A e \in Draft : doc'[e].state = doc[e].state
      /\ \A e \in Draft \ {r.x} : doc'[e] = doc[e]
      /\ ~Open(r.x) => doc'[r.x] = doc[r.x]
      /\ Open(r.x) => /\ doc'[r.x].code = None /\ doc'[r.x].tags.num = {}
                      /\ doc'[r.x].tags.apply = doc[r.x].tags.apply
                      /\ doc'[r.x].tags.remove = doc[r.x].tags.remove
  BY <1>2, <1>3, StrippedFacts
<1>8. \A c \in Code : ledger[c].status = "applied" =>
         \/ doc[ledger[c].draft].code = c
         \/ \E h \in hooks : h.kind = "deleted" /\ h.d = ledger[c].draft
  BY <1>1, <1>6 DEF Holds, OnDraft, Moving
<1>9. \A c \in Code : ledger[c].status = "applied" /\ ledger[c].draft = r.x /\ Open(r.x) => c = r.c
  BY <1>2, <1>8 DEF Holds, HooksRight, Open
<1>10. \A e \in Draft \ {r.d} : Open(e)' => doc'[e].code # r.c
  <2> SUFFICES ASSUME NEW e \in Draft \ {r.d}, Open(e), doc'[e].code = r.c PROVE FALSE
    BY <1>7 DEF Open
  <2>1. r.c # None BY <1>2, InstrumentsAssumption
  <2>2. e # r.x /\ doc[e].code = r.c BY <1>7, <2>1
  <2> QED BY <1>1, <1>2, <1>6, <2>1, <2>2 DEF Holds, Reserved
<1>11. HooksRight' BY <1>3, <1>7 DEF Typed, Holds, HooksRight, HookFits, Open
<1>12. NeverBoth' BY <1>7 DEF Holds, NeverBoth
<1>13. Blank' BY <1>1, <1>6, <1>7 DEF Holds, Blank, Open
<1>14. Alone' BY <1>7 DEF Holds, Alone, Open
<1>15. Reserved' BY <1>1, <1>3, <1>6, <1>7 DEF Typed, DocType, RowType, Holds, Reserved, Open
<1>16. OnDraft'
  <2> SUFFICES ASSUME NEW c \in Code, ledger[c].status = "applied"
               PROVE  \/ doc'[ledger[c].draft].code = c
                      \/ \E h \in hooks : h.kind = "deleted" /\ h.d = ledger[c].draft
                      \/ c = r.c
    BY <1>1, <1>2, <1>3, <1>5, <1>6 DEF OnDraft, Moving, Busy, AfterLook
  <2>1. ledger[c].draft \in Draft BY DEF Typed
  <2> QED BY <1>7, <1>8, <1>9, <2>1
<1>17. Coupled(run[s])'
  BY <1>1, <1>2, <1>3, <1>5, <1>6, <1>7, <1>10 DEF Coupled, Moving, Open, AfterLook
<1> QED BY <1>6, <1>11, <1>12, <1>13, <1>14, <1>15, <1>16, <1>17 DEF Holds, Busy

LEMMA ReadHolds ==
  ASSUME Typed, OneBusy, Holds, NEW s \in Slot, Read(s)
  PROVE  Holds'
<1> DEFINE r == run[s]
<1>1. Busy(s) /\ r.pc = "read" BY DEF Read, Busy
<1>2. /\ r \in Req /\ Fits(r) /\ Coupled(r) /\ r.d \in Draft /\ Open(r.d) /\ r.c \in Code
      /\ r.job = "panel" /\ r.tags = doc[r.d].tags
      /\ \A e \in Draft \ {r.d} : Open(e) => doc[e].code # r.c
  BY <1>1 DEF Typed, Holds, Req, Fits, Coupled, Moving
<1>3. UNCHANGED <<ledger, hooks>> BY DEF Read
<1>4. None \notin Code BY InstrumentsAssumption
<1>5. CASE doc[r.d].code = r.c
  <2>1. Done(s) /\ FinishTags(s, {r.c}) BY <1>2, <1>4, <1>5 DEF Read, Open
  <2>2. \A t \in Slot : run'[t].pc = "idle" /\ (t # s => run[t].pc = "idle") BY <1>1, <2>1, DoneFacts
  <2> DEFINE t == [r.tags EXCEPT !.num = @ \cup {r.c}, !.apply = IF r.job = "panel" THEN {} ELSE @]
  <2>3. t.apply = {} BY <1>2 DEF Req, TagsType
  <2>4. doc' = [doc EXCEPT ![r.d].tags = t] BY <2>1 DEF FinishTags
  <2> HIDE DEF t
  <2>5. /\ \A e \in Draft : doc'[e].state = doc[e].state /\ doc'[e].code = doc[e].code
        /\ doc'[r.d].tags.apply = {} /\ \A e \in Draft \ {r.d} : doc'[e].tags = doc[e].tags
    BY <1>2, <2>3, <2>4 DEF Typed, DocType
  <2>6. ledger[r.c].status = "applied" => ledger[r.c].draft = r.d
    BY <1>1, <1>2, <1>4, <1>5, <2>2 DEF Holds, Reserved
  <2>11. HooksRight' BY <1>3, <2>5 DEF Typed, Holds, HooksRight, HookFits, Open
  <2>12. NeverBoth' BY <2>5 DEF Holds, NeverBoth
  <2>13. Blank' BY <1>1, <1>2, <1>4, <1>5, <2>2, <2>5 DEF Holds, Blank, Open
  <2>14. Alone' BY <2>5 DEF Holds, Alone, Open
  <2>15. Reserved' BY <1>1, <1>3, <2>2, <2>5 DEF Typed, DocType, RowType, Holds, Reserved, Open
  <2>16. OnDraft' BY <1>1, <1>3, <1>5, <2>2, <2>5, <2>6 DEF Typed, Holds, OnDraft, Moving, Busy
  <2> QED BY <2>2, <2>11, <2>12, <2>13, <2>14, <2>15, <2>16 DEF Holds, Busy
<1>6. CASE doc[r.d].code # r.c
  <2> DEFINE n == [r EXCEPT !.pc = "swap", !.x = doc[r.d].code]
  <2>1. /\ doc' = doc
        /\ \/ doc[r.d].code = None /\ Goto(s, "write")
           \/ doc[r.d].code # None /\ run' = [run EXCEPT ![s] = n]
    BY <1>2, <1>6 DEF Read, Open, Typed
  <2>2. /\ n.pc = "swap" /\ n.x = doc[r.d].code /\ n.job = r.job /\ n.d = r.d /\ n.c = r.c
        /\ n.tags = r.tags
    BY <1>2 DEF Req
  <2> HIDE DEF n
  <2>3. /\ \/ run'[s].pc = "write" /\ doc[r.d].code = None
           \/ run'[s].pc = "swap" /\ run'[s].x = doc[r.d].code
        /\ run'[s].job = r.job /\ run'[s].d = r.d /\ run'[s].c = r.c /\ run'[s].tags = r.tags
        /\ \A t \in Slot \ {s} : run[t].pc = "idle" /\ run'[t].pc = "idle"
    <3>1. CASE doc[r.d].code = None /\ Goto(s, "write") BY <1>1, <3>1, GotoFacts
    <3>2. CASE run' = [run EXCEPT ![s] = n]
      <4>1. run'[s] = n /\ \A t \in Slot \ {s} : run[t].pc = "idle" /\ run'[t].pc = "idle"
        BY <1>1, <3>2, OneStays
      <4> QED BY <2>2, <4>1
    <3> QED BY <2>1, <3>1, <3>2
  <2>11. HooksRight' /\ NeverBoth' /\ Alone' BY <1>3, <2>1 DEF Holds, HooksRight, NeverBoth, Alone, Open
  <2>13. Blank' BY <1>1, <2>1, <2>3 DEF Holds, Blank, Open
  <2>15. Reserved' BY <1>1, <1>3, <2>1, <2>3 DEF Holds, Reserved, Open
  <2>16. OnDraft' BY <1>1, <1>2, <1>3, <2>1, <2>3 DEF Holds, OnDraft, Moving, Busy
  <2>17. Coupled(run[s])' BY <1>1, <1>2, <1>3, <2>1, <2>3 DEF Coupled, Moving, Open
  <2> QED BY <2>3, <2>11, <2>13, <2>15, <2>16, <2>17 DEF Holds, Busy
<1> QED BY <1>5, <1>6

LEMMA SwapHolds ==
  ASSUME Typed, OneBusy, Holds, NEW s \in Slot, Swap(s)
  PROVE  Holds'
<1> DEFINE r == run[s]
<1>1. Busy(s) /\ r.pc = "swap" BY DEF Swap, Busy
<1>2. /\ r \in Req /\ Fits(r) /\ Coupled(r) /\ r.d \in Draft /\ Open(r.d) /\ r.c \in Code
      /\ r.x \in Code /\ doc[r.d].code = r.x
  BY <1>1 DEF Typed, Holds, Req, Fits, Coupled
<1>3. UNCHANGED <<ledger, hooks>> /\ doc' = Stripped(r.d) BY DEF Swap
<1>4. Goto(s, "release") BY <1>2 DEF Swap, Open
<1>5. /\ run'[s].pc = "release" /\ run'[s].job = r.job /\ run'[s].d = r.d /\ run'[s].c = r.c
      /\ run'[s].x = r.x /\ run'[s].tags = r.tags
      /\ \A t \in Slot \ {s} : run[t].pc = "idle" /\ run'[t].pc = "idle"
  BY <1>1, <1>4, GotoFacts
<1>6. /\ \A e \in Draft : doc'[e].state = doc[e].state
      /\ \A e \in Draft \ {r.d} : doc'[e] = doc[e]
      /\ doc'[r.d].code = None /\ doc'[r.d].tags.num = {}
      /\ doc'[r.d].tags.apply = doc[r.d].tags.apply /\ doc'[r.d].tags.remove = doc[r.d].tags.remove
  BY <1>2, <1>3, StrippedFacts
<1>7. None \notin Code BY InstrumentsAssumption
<1>11. HooksRight' BY <1>3, <1>6 DEF Typed, Holds, HooksRight, HookFits, Open
<1>12. NeverBoth' BY <1>6 DEF Holds, NeverBoth
<1>13. Blank' BY <1>1, <1>5, <1>6 DEF Holds, Blank, Open
<1>14. Alone' BY <1>6 DEF Holds, Alone, Open
<1>15. Reserved' BY <1>1, <1>3, <1>5, <1>6 DEF Typed, DocType, RowType, Holds, Reserved, Open
<1>16. OnDraft'
  BY <1>1, <1>2, <1>3, <1>5, <1>6 DEF Typed, Holds, OnDraft, Moving, Busy
<1>17. Loose(r.x)'
  <2> SUFFICES ASSUME NEW e \in Draft, Open(e), doc'[e].code # None PROVE doc'[e].code # r.x
    BY <1>5, <1>6 DEF Loose, Open
  <2> QED BY <1>2, <1>6, <1>7 DEF Holds, Alone
<1>18. Coupled(run[s])' BY <1>1, <1>2, <1>3, <1>5, <1>6, <1>7, <1>17 DEF Coupled, Moving, Open, Loose
<1> QED BY <1>5, <1>11, <1>12, <1>13, <1>14, <1>15, <1>16, <1>18 DEF Holds, Busy

LEMMA ReleaseHolds ==
  ASSUME Typed, OneBusy, Holds, NEW s \in Slot, Release(s)
  PROVE  Holds'
<1> DEFINE r == run[s]
           n == [r EXCEPT !.pc = IF r.job = "redeem" THEN "look" ELSE "write", !.x = None]
<1>1. Busy(s) /\ r.pc = "release" BY DEF Release, Busy
<1>2. /\ r \in Req /\ Fits(r) /\ Coupled(r) /\ r.d \in Draft /\ r.c \in Code
      /\ r.x \in Code /\ Loose(r.x) /\ r.job \in {"panel", "redeem", "note"}
  BY <1>1, InstrumentsAssumption DEF Typed, Holds, Req, Fits, Coupled, Job
<1>3. UNCHANGED <<doc, hooks>> /\ Reopen(r.x) BY DEF Release
<1>4. run' = [run EXCEPT ![s] = n] BY DEF Typed, Release
<1>5. /\ n.pc = IF r.job = "redeem" THEN "look" ELSE "write"
      /\ n.job = r.job /\ n.d = r.d /\ n.c = r.c /\ n.tags = r.tags
  BY <1>2 DEF Req
<1> HIDE DEF n
<1>6. run'[s] = n /\ \A t \in Slot \ {s} : run[t].pc = "idle" /\ run'[t].pc = "idle"
  BY <1>1, <1>4, OneStays
<1>7. /\ \A c \in Code \ {r.x} : ledger'[c] = ledger[c]
      /\ ledger'[r.x].status # "applied"
  <2>1. ledger' = [ledger EXCEPT ![r.x] = Reopened(ledger[r.x])] BY <1>3 DEF Typed, Reopen
  <2>2. Reopened(ledger[r.x]).status # "applied" BY <1>2 DEF Typed, Reopened, RowType
  <2> QED BY <1>2, <2>1, <2>2 DEF Typed
<1>11. HooksRight' /\ NeverBoth' /\ Alone' BY <1>3 DEF Holds, HooksRight, NeverBoth, Alone, Open
<1>13. Blank' BY <1>1, <1>3, <1>6 DEF Holds, Blank, Open
<1>15. Reserved'
  <2>1. \A e \in Draft : doc[e].code \in Code \cup {None} BY DEF Typed, DocType
  <2> QED BY <1>1, <1>2, <1>3, <1>6, <1>7, <2>1 DEF Holds, Reserved, Loose, Open
<1>16. OnDraft' BY <1>1, <1>2, <1>3, <1>5, <1>6, <1>7 DEF Holds, OnDraft, Moving, Busy
<1>17. Coupled(run[s])' BY <1>1, <1>2, <1>3, <1>5, <1>6 DEF Coupled, Moving, Open
<1> QED BY <1>6, <1>11, <1>13, <1>15, <1>16, <1>17 DEF Holds, Busy

LEMMA WriteCodeHolds ==
  ASSUME Typed, OneBusy, Holds, NEW s \in Slot, WriteCode(s)
  PROVE  Holds'
<1> DEFINE r == run[s]
<1>1. Busy(s) /\ r.pc = "write" BY DEF WriteCode, Busy
<1>2. /\ r \in Req /\ Fits(r) /\ Coupled(r) /\ r.d \in Draft /\ Open(r.d) /\ r.c \in Code
      /\ doc[r.d].code = None /\ \A e \in Draft \ {r.d} : Open(e) => doc[e].code # r.c
  BY <1>1 DEF Typed, Holds, Req, Fits, Coupled, Moving
<1>3. UNCHANGED <<ledger, hooks>> /\ doc' = [doc EXCEPT ![r.d].code = r.c] /\ Goto(s, "tag")
  BY <1>2 DEF WriteCode, Open
<1>4. /\ run'[s].pc = "tag" /\ run'[s].job = r.job /\ run'[s].d = r.d /\ run'[s].c = r.c
      /\ run'[s].tags = r.tags
      /\ \A t \in Slot \ {s} : run[t].pc = "idle" /\ run'[t].pc = "idle"
  BY <1>1, <1>3, GotoFacts
<1>5. /\ \A e \in Draft : doc'[e].state = doc[e].state /\ doc'[e].tags = doc[e].tags
      /\ doc'[r.d].code = r.c /\ \A e \in Draft \ {r.d} : doc'[e].code = doc[e].code
  BY <1>2, <1>3 DEF Typed, DocType
<1>6. None \notin Code BY InstrumentsAssumption
<1>11. HooksRight' BY <1>3, <1>5 DEF Typed, Holds, HooksRight, HookFits, Open
<1>12. NeverBoth' BY <1>5 DEF Holds, NeverBoth
<1>13. Blank' BY <1>1, <1>2, <1>4, <1>5, <1>6 DEF Holds, Blank, Open
<1>14. Alone' BY <1>2, <1>5 DEF Holds, Alone, Open
<1>15. Reserved'
  <2>1. \A e \in Draft : doc[e].code \in Code \cup {None} BY DEF Typed, DocType
  <2>2. \A c \in Code : ledger[c].draft \in Draft \cup {None} BY DEF Typed, RowType
  <2> QED BY <1>1, <1>2, <1>3, <1>4, <1>5, <2>1, <2>2 DEF Holds, Reserved, Open
<1>16. OnDraft' BY <1>1, <1>2, <1>3, <1>4, <1>5, <1>6 DEF Typed, Holds, OnDraft, Moving, Busy
<1>17. Coupled(run[s])' BY <1>1, <1>2, <1>3, <1>4, <1>5 DEF Coupled, Moving, Open
<1> QED BY <1>4, <1>11, <1>12, <1>13, <1>14, <1>15, <1>16, <1>17 DEF Holds, Busy

LEMMA WriteTagsHolds ==
  ASSUME Typed, OneBusy, Holds, NEW s \in Slot, WriteTags(s)
  PROVE  Holds'
<1> DEFINE r == run[s]
           pc == IF r.job = "note" THEN "issue" ELSE "apply"
           t == [r.tags EXCEPT !.num = @ \cup {r.c}, !.apply = IF r.job = "panel" THEN {} ELSE @]
<1>1. Busy(s) /\ r.pc = "tag" BY DEF WriteTags, Busy
<1>2. /\ r \in Req /\ Fits(r) /\ Coupled(r) /\ r.d \in Draft /\ Open(r.d) /\ r.c \in Code
      /\ doc[r.d].code = r.c
  BY <1>1 DEF Typed, Holds, Req, Fits, Coupled
<1>3. UNCHANGED <<ledger, hooks>> /\ doc' = [doc EXCEPT ![r.d].tags = t] /\ Goto(s, pc)
  BY <1>2 DEF WriteTags, FinishTags, Open
<1>4. t.remove => t.apply = {} BY <1>2 DEF Req, TagsType, Coupled
<1> HIDE DEF t
<1>5. /\ run'[s].pc \in {"issue", "apply"} /\ run'[s].job = r.job /\ run'[s].d = r.d
      /\ run'[s].c = r.c /\ run'[s].tags = r.tags
      /\ \A u \in Slot \ {s} : run[u].pc = "idle" /\ run'[u].pc = "idle"
  BY <1>1, <1>3, GotoFacts
<1>6. /\ \A e \in Draft : doc'[e].state = doc[e].state /\ doc'[e].code = doc[e].code
      /\ doc'[r.d].tags = t /\ \A e \in Draft \ {r.d} : doc'[e].tags = doc[e].tags
  BY <1>2, <1>3 DEF Typed, DocType
<1>7. None \notin Code BY InstrumentsAssumption
<1>11. HooksRight' BY <1>3, <1>6 DEF Typed, Holds, HooksRight, HookFits, Open
<1>12. NeverBoth' BY <1>4, <1>6 DEF Holds, NeverBoth
<1>13. Blank' BY <1>1, <1>2, <1>5, <1>6, <1>7 DEF Holds, Blank, Open
<1>14. Alone' BY <1>6 DEF Holds, Alone, Open
<1>15. Reserved'
  <2>1. \A u \in Slot : run[u].pc \in {"tag", "issue", "apply"} =>
            run'[u].pc \in {"tag", "issue", "apply"} /\ run'[u].d = run[u].d /\ run'[u].c = run[u].c
    BY <1>1, <1>5
  <2> QED BY <1>3, <1>6, <2>1, ReservedFrame DEF Holds
<1>16. OnDraft' BY <1>1, <1>2, <1>3, <1>5, <1>6 DEF Typed, Holds, OnDraft, Moving, Busy
<1>17. Coupled(run[s])' BY <1>1, <1>2, <1>3, <1>5, <1>6 DEF Coupled, Moving, Open
<1> QED BY <1>5, <1>11, <1>12, <1>13, <1>14, <1>15, <1>16, <1>17 DEF Holds, Busy

LEMMA LedgerStepHolds ==
  ASSUME Typed, OneBusy, Holds, NEW s \in Slot, IssueNote(s) \/ ApplyLedger(s)
  PROVE  Holds'
<1> DEFINE r == run[s]
<1>1. Busy(s) /\ r.pc \in {"issue", "apply"} BY DEF IssueNote, ApplyLedger, Busy
<1>2. /\ r \in Req /\ Fits(r) /\ Coupled(r) /\ r.d \in Draft /\ Open(r.d) /\ r.c \in Code
      /\ doc[r.d].code = r.c /\ \A e \in Draft \ {r.d} : Open(e) => doc[e].code # r.c
  BY <1>1 DEF Typed, Holds, Req, Fits, Coupled, Moving
<1>3. UNCHANGED <<doc, hooks>> BY DEF IssueNote, ApplyLedger
<1>4. ledger[r.c] \in RowType BY <1>2 DEF Typed
<1>5. CASE IssueNote(s)
  <2>1. Goto(s, "apply") /\ UpsertIssued(r.c, FALSE) /\ r.pc = "issue" BY <1>5 DEF IssueNote
  <2>2. /\ run'[s].pc = "apply" /\ run'[s].job = r.job /\ run'[s].d = r.d /\ run'[s].c = r.c
        /\ run'[s].tags = r.tags
        /\ \A t \in Slot \ {s} : run[t].pc = "idle" /\ run'[t].pc = "idle"
    BY <1>1, <2>1, GotoFacts
  <2>3. /\ \A c \in Code \ {r.c} : ledger'[c] = ledger[c]
        /\ \A c \in Code : ledger'[c].status = "applied" => ledger'[c] = ledger[c]
    <3>1. CASE ledger[r.c].status = "none"
      <4> DEFINE v == [ledger[r.c] EXCEPT !.status = "open", !.rule = FALSE]
      <4>1. ledger' = [ledger EXCEPT ![r.c] = v] BY <2>1, <3>1 DEF UpsertIssued, Typed
      <4>2. v.status = "open" BY <1>4 DEF RowType
      <4> HIDE DEF v
      <4> QED BY <1>2, <4>1, <4>2 DEF Typed
    <3>2. CASE ledger[r.c].status # "none" BY <2>1, <3>2 DEF UpsertIssued
    <3> QED BY <3>1, <3>2
  <2>11. HooksRight' /\ NeverBoth' /\ Alone' BY <1>3 DEF Holds, HooksRight, NeverBoth, Alone, Open
  <2>13. Blank' BY <1>1, <1>3, <2>2 DEF Holds, Blank, Open
  <2>15. Reserved' BY <1>1, <1>2, <1>3, <2>2, <2>3 DEF Typed, DocType, Holds, Reserved, Open
  <2>16. OnDraft' BY <1>1, <1>2, <1>3, <2>2, <2>3 DEF Holds, OnDraft, Moving, Busy
  <2>17. Coupled(run[s])' BY <1>1, <1>2, <1>3, <2>2 DEF Coupled, Moving, Open
  <2> QED BY <2>2, <2>11, <2>13, <2>15, <2>16, <2>17 DEF Holds, Busy
<1>6. CASE ApplyLedger(s)
  <2> DEFINE v == [ledger[r.c] EXCEPT !.status = "applied", !.draft = r.d]
  <2>1. Apply(r.c, r.d) /\ (Goto(s, "rule") \/ Done(s)) BY <1>6 DEF ApplyLedger
  <2>2. ledger' = [ledger EXCEPT ![r.c] = v] BY <2>1 DEF Apply, Typed
  <2>3. v.status = "applied" /\ v.draft = r.d BY <1>4 DEF RowType
  <2> HIDE DEF v
  <2>4. /\ ledger'[r.c].status = "applied" /\ ledger'[r.c].draft = r.d
        /\ \A c \in Code \ {r.c} : ledger'[c] = ledger[c]
    BY <1>2, <2>2, <2>3 DEF Typed
  <2>5. /\ \/ run'[s].pc = "idle"
           \/ /\ run'[s].pc = "rule" /\ run'[s].job = r.job /\ run'[s].d = r.d /\ run'[s].c = r.c
              /\ run'[s].tags = r.tags
        /\ \A t \in Slot \ {s} : run[t].pc = "idle" /\ run'[t].pc = "idle"
    BY <1>1, <2>1, GotoFacts, DoneFacts
  <2>11. HooksRight' /\ NeverBoth' /\ Alone' BY <1>3 DEF Holds, HooksRight, NeverBoth, Alone, Open
  <2>13. Blank' BY <1>1, <1>3, <2>5 DEF Holds, Blank, Open
  <2>15. Reserved' BY <1>1, <1>2, <1>3, <2>4, <2>5 DEF Typed, DocType, Holds, Reserved, Open
  <2>16. OnDraft' BY <1>1, <1>2, <1>3, <2>4, <2>5 DEF Holds, OnDraft, Moving, Busy
  <2>17. Busy(s)' => Coupled(run[s])' BY <1>1, <1>2, <1>3, <2>5 DEF Coupled, Moving, Open, Busy
  <2> QED BY <2>5, <2>11, <2>13, <2>15, <2>16, <2>17 DEF Holds, Busy
<1> QED BY <1>5, <1>6

\* A conversion redeems the code of an order, which holds nothing any more.
LEMMA ConvertHolds ==
  ASSUME Typed, OneBusy, Holds, NEW s \in Slot,
         DeletePriceRule(s) \/ LockLook(s) \/ RedeemOnOrder(s)
  PROVE  Holds'
<1> DEFINE r == run[s]
           n == [r EXCEPT !.pc = "redeem", !.rule = ledger[r.c].rule]
<1>1. Busy(s) /\ r.pc \in {"rule", "lock", "redeem"} BY DEF DeletePriceRule, LockLook, RedeemOnOrder, Busy
<1>2. /\ r \in Req /\ Fits(r) /\ Coupled(r) /\ r.d \in Draft /\ r.c \in Code
      /\ r.pc # "rule" => r.job = "convert" /\ ~Open(r.d)
  BY <1>1 DEF Typed, Holds, Req, Fits, Coupled
<1>3. UNCHANGED <<doc, hooks>> BY DEF DeletePriceRule, LockLook, RedeemOnOrder
<1>4. \/ Done(s) \/ Goto(s, "rule")
      \/ r.pc = "lock" /\ run' = [run EXCEPT ![s] = n]
  BY DEF Typed, DeletePriceRule, LockLook, RedeemOnOrder
<1>5. n.pc = "redeem" /\ n.job = r.job /\ n.d = r.d /\ n.c = r.c /\ n.tags = r.tags
  BY <1>2 DEF Req
<1> HIDE DEF n
<1>6. /\ \/ run'[s].pc = "idle"
         \/ /\ run'[s].pc \in {"rule", "redeem"} /\ run'[s].job = r.job /\ run'[s].d = r.d
            /\ run'[s].c = r.c /\ run'[s].tags = r.tags
      /\ \A t \in Slot \ {s} : run[t].pc = "idle" /\ run'[t].pc = "idle"
  <2>1. CASE Done(s) BY <1>1, <2>1, DoneFacts
  <2>2. CASE Goto(s, "rule") BY <1>1, <2>2, GotoFacts
  <2>3. CASE run' = [run EXCEPT ![s] = n]
    <3>1. run'[s] = n /\ \A t \in Slot \ {s} : run[t].pc = "idle" /\ run'[t].pc = "idle"
      BY <1>1, <2>3, OneStays
    <3> QED BY <1>5, <3>1
  <2> QED BY <1>4, <2>1, <2>2, <2>3
<1>7. /\ \A c \in Code \ {r.c} : ledger'[c] = ledger[c]
      /\ \/ ledger'[r.c] = ledger[r.c]
         \/ ledger'[r.c].status = "redeemed" /\ ledger'[r.c].draft = r.d /\ ~Open(r.d)
  <2>1. CASE UNCHANGED ledger BY <2>1
  <2>2. CASE RedeemOnOrder(s)
    <3> DEFINE v == [ledger[r.c] EXCEPT !.status = "redeemed", !.order = r.d, !.draft = r.d]
    <3>1. r.d # None BY <1>2, InstrumentsAssumption
    <3>2. ledger' = [ledger EXCEPT ![r.c] = v] BY <2>2, <3>1 DEF RedeemOnOrder, Redeem, Typed
    <3>3. v.status = "redeemed" /\ v.draft = r.d
      <4>1. ledger[r.c] \in RowType BY <1>2 DEF Typed
      <4> QED BY <4>1 DEF RowType
    <3> HIDE DEF v
    <3>4. ~Open(r.d) BY <1>2, <2>2 DEF RedeemOnOrder
    <3> QED BY <1>2, <3>2, <3>3, <3>4 DEF Typed
  <2> QED BY <2>1, <2>2 DEF DeletePriceRule, LockLook
<1>11. HooksRight' /\ NeverBoth' /\ Alone' BY <1>3 DEF Holds, HooksRight, NeverBoth, Alone, Open
<1>13. Blank' BY <1>1, <1>3, <1>6 DEF Holds, Blank, Open
<1>15. Reserved' BY <1>1, <1>2, <1>3, <1>6, <1>7 DEF Typed, DocType, Holds, Reserved, Open
<1>16. OnDraft' BY <1>1, <1>2, <1>3, <1>6, <1>7 DEF Holds, OnDraft, Moving, Busy
<1>17. Busy(s)' => Coupled(run[s])' BY <1>1, <1>2, <1>3, <1>6 DEF Coupled, Moving, Open, Busy
<1> QED BY <1>6, <1>11, <1>13, <1>15, <1>16, <1>17 DEF Holds, Busy

LEMMA StepHolds ==
  ASSUME Typed, OneBusy, Holds, NEW s \in Slot, Step(s)
  PROVE  Holds'
  BY ClearHolds, UntagHolds, FreeHolds, LookHolds, StripHolds, ReadHolds, SwapHolds, ReleaseHolds,
     WriteCodeHolds, WriteTagsHolds, LedgerStepHolds, ConvertHolds DEF Step

LEMMA InitHolds == Init => OneBusy /\ Unspent /\ Holds
<1> SUFFICES ASSUME Init PROVE OneBusy /\ Unspent /\ Holds OBVIOUS
<1>1. /\ ledger = [c \in Code |-> NoRow] /\ hooks = {}
      /\ doc = [d \in Draft |-> [state |-> "open", code |-> None, tags |-> NoTags, sent |-> {}]]
      /\ run = [s \in Slot |-> Idle]
  BY DEF Init
<1>2. \A s \in Slot : ~Busy(s) BY <1>1 DEF Busy, Idle
<1>3. \A d \in Draft : doc[d].code = None /\ doc[d].tags = NoTags BY <1>1
<1>4. \A c \in Code : ledger[c].status = "none" BY <1>1 DEF NoRow
<1>5. HooksRight /\ NeverBoth /\ Blank /\ Alone /\ Reserved /\ OnDraft
  BY <1>1, <1>3, <1>4 DEF HooksRight, NeverBoth, Blank, Alone, Reserved, OnDraft, NoTags
<1> QED BY <1>2, <1>5 DEF OneBusy, Unspent, Holds

LEMMA CalmFacts ==
  Calm => /\ ~Allowed("both") /\ ~Allowed("converted") /\ ~Allowed("fault") /\ ~Allowed("overlap")
          /\ ~Allowed("stale")
  BY DEF Calm, Only, Allowed

\* Staff touch a draft that no request works on.
LEMMA TouchHolds ==
  ASSUME Typed, Holds, NEW d \in Draft, Open(d), UNCHANGED <<ledger, run>>,
         \A s \in Slot : Busy(s) => d \notin {run[s].d, run[s].x},
         \A e \in Draft \ {d} : doc'[e] = doc[e],
         doc'[d].state = "open" => doc'[d].code = doc[d].code /\ doc'[d].tags.num = doc[d].tags.num,
         doc'[d].code # doc[d].code => \E h \in hooks' : h.kind = "deleted" /\ h.d = d,
         doc'[d].tags.remove => doc'[d].tags.apply = {},
         hooks \subseteq hooks', HooksRight'
  PROVE  Holds'
<1>1. \A e \in Draft : Open(e)' => Open(e) /\ doc'[e].code = doc[e].code
                                   /\ doc'[e].tags.num = doc[e].tags.num
  BY DEF Open
<1>2. NeverBoth' BY DEF Holds, NeverBoth
<1>3. Blank' BY <1>1 DEF Holds, Blank
<1>4. Alone' BY <1>1 DEF Holds, Alone
<1>5. Reserved' BY <1>1 DEF Typed, DocType, RowType, Holds, Reserved, Open
<1>6. OnDraft'
  <2> SUFFICES ASSUME NEW c \in Code, ledger[c].status = "applied"
               PROVE  \/ doc'[ledger[c].draft].code = c
                      \/ \E h \in hooks' : h.kind = "deleted" /\ h.d = ledger[c].draft
                      \/ \E s \in Slot :
                            /\ Busy(s)
                            /\ \/ Moving(run[s]) /\ run[s].c = c
                               \/ run[s].pc \in {"untag", "lookFree", "free", "void", "release"}
                                  /\ run[s].x = c
    BY DEF OnDraft, Moving, Busy
  <2>1. ledger[c].draft \in Draft BY DEF Typed
  <2> QED BY <2>1 DEF Holds, OnDraft
<1>7. \A s \in Slot : Busy(s) => Coupled(run[s])'
  <2> SUFFICES ASSUME NEW s \in Slot, Busy(s) PROVE Coupled(run[s])' OBVIOUS
  <2>1. Coupled(run[s]) /\ run[s] \in Req /\ run[s].d \in Draft BY DEF Holds, Typed, Req
  <2>2. run'[s] = run[s] /\ run[s].d # d /\ doc'[run[s].d] = doc[run[s].d] BY <2>1
  <2>3. Open(run[s].d) <=> doc'[run[s].d].state = "open" BY <2>2 DEF Open
  <2>4. ASSUME NEW c, Loose(c) PROVE Loose(c)' BY <1>1, <2>4 DEF Loose
  <2> QED BY <1>1, <2>1, <2>2, <2>3, <2>4 DEF Coupled, Moving, Open
<1> QED BY <1>2, <1>3, <1>4, <1>5, <1>6, <1>7 DEF Holds, Busy

\* A request begins where none is under way.
LEMMA StartHolds ==
  ASSUME Typed, Holds, Quiet, NEW s \in Slot, NEW r, Coupled(r), run' = [run EXCEPT ![s] = r],
         UNCHANGED <<ledger, doc>>, hooks' \subseteq hooks,
         \A h \in hooks : h.kind = "deleted" => h \in hooks'
  PROVE  Holds'
<1>1. run'[s] = r /\ \A t \in Slot \ {s} : run'[t].pc = "idle"
  BY DEF Typed, Quiet, Busy
<1>2. \A t \in Slot : run[t].pc = "idle" BY DEF Quiet, Busy
<1>3. HooksRight' /\ NeverBoth' /\ Alone' BY DEF Holds, HooksRight, NeverBoth, Alone, Open
<1>4. Blank' BY <1>2 DEF Holds, Blank, Open
<1>5. Reserved' BY <1>2 DEF Holds, Reserved, Open
<1>6. OnDraft' BY <1>2 DEF Holds, OnDraft, Busy
<1>7. Coupled(run[s])' BY <1>1 DEF Coupled, Moving, Open, Loose
<1> QED BY <1>1, <1>3, <1>4, <1>5, <1>6, <1>7 DEF Holds, Busy

\* What staff and customers do, and the sales and deletions that follow.
LEMMA StaffHolds ==
  ASSUME Typed, OneBusy, Holds, Calm,
         \/ \E d \in Draft : AskRemove(d) \/ Complete(d) \/ Delete(d)
         \/ \E d \in Draft, c \in Code : AskApply(d, c)
  PROVE  Holds'
<1>1. PICK d \in Draft : AskRemove(d) \/ Complete(d) \/ Delete(d) \/ \E c \in Code : AskApply(d, c)
  OBVIOUS
<1>2. Open(d) /\ Untouched(d) /\ UNCHANGED <<ledger, run>>
  BY <1>1 DEF AskRemove, Complete, Delete, AskApply, Open
<1>3. \A s \in Slot : Busy(s) => d \notin {run[s].d, run[s].x}
  BY <1>2, CalmFacts DEF Untouched, Quiet
<1>4. doc[d] \in DocType /\ doc \in [Draft -> DocType] BY DEF Typed
<1>5. \A h \in hooks : h.kind \in {"deleted", "completed"} => h.d \in Draft \ {d}
  BY <1>2 DEF Typed, HookFits, Holds, HooksRight, Open
<1>6. CASE AskRemove(d) \/ \E c \in Code : AskApply(d, c)
  <2>1. PICK v \in Asking : Edited(d, v) /\ v.num = doc[d].tags.num /\ (v.remove => v.apply = {})
    <3>1. CASE AskRemove(d)
      <4> DEFINE v == [doc[d].tags EXCEPT !.remove = TRUE]
      <4>1. v \in Asking /\ v.num = doc[d].tags.num /\ v.apply = {}
        BY <1>4, <3>1 DEF AskRemove, DocType, TagsType, Asking
      <4>2. Edited(d, v) BY <3>1 DEF AskRemove
      <4> HIDE DEF v
      <4> QED BY <4>1, <4>2
    <3>2. CASE \E c \in Code : AskApply(d, c)
      <4>1. PICK c \in Code : AskApply(d, c) BY <3>2
      <4> DEFINE v == [doc[d].tags EXCEPT !.apply = {c}]
      <4>2. ~doc[d].tags.remove BY <4>1, CalmFacts DEF AskApply
      <4>3. v \in Asking /\ v.num = doc[d].tags.num /\ ~v.remove
        BY <1>4, <4>2 DEF DocType, TagsType, Asking
      <4>4. Edited(d, v) BY <4>1 DEF AskApply
      <4> HIDE DEF v
      <4> QED BY <4>3, <4>4
    <3> QED BY <1>6, <3>1, <3>2
  <2>3. /\ \A e \in Draft \ {d} : doc'[e] = doc[e]
        /\ doc'[d].state = doc[d].state /\ doc'[d].code = doc[d].code /\ doc'[d].tags = v
    BY <2>1, EditWrites
  <2>4. hooks' = hooks BY <1>6 DEF AskRemove, AskApply
  <2>5. HooksRight' BY <1>5, <2>3, <2>4 DEF Holds, HooksRight, Open
  <2> QED BY <1>2, <1>3, <2>1, <2>3, <2>4, <2>5, TouchHolds
<1>7. CASE Complete(d)
  <2> DEFINE h == [kind |-> "completed", d |-> d, tags |-> doc[d].tags]
  <2>1. /\ doc' = [doc EXCEPT ![d] = [doc[d] EXCEPT !.state = "completed"]]
        /\ hooks' = hooks \cup {h}
    BY <1>4, <1>7 DEF Complete
  <2>2. h.kind = "completed" /\ h.d = d OBVIOUS
  <2> HIDE DEF h
  <2>3. /\ \A e \in Draft \ {d} : doc'[e] = doc[e]
        /\ doc'[d].state = "completed" /\ doc'[d].code = doc[d].code /\ doc'[d].tags = doc[d].tags
    BY <1>4, <2>1 DEF DocType
  <2>4. HooksRight' BY <1>5, <2>1, <2>2, <2>3 DEF Holds, HooksRight, Open
  <2>5. doc'[d].tags.remove => doc'[d].tags.apply = {} BY <2>3 DEF Holds, NeverBoth
  <2> QED BY <1>2, <1>3, <2>1, <2>3, <2>4, <2>5, TouchHolds
<1>8. CASE Delete(d)
  <2> DEFINE h == [kind |-> "deleted", d |-> d]
             v == [doc[d] EXCEPT !.state = "gone", !.code = None, !.tags = NoTags]
  <2>1. doc' = [doc EXCEPT ![d] = v] /\ hooks' = hooks \cup {h}
    BY <1>4, <1>8 DEF Delete
  <2>2. h.kind = "deleted" /\ h.d = d OBVIOUS
  <2>3. v.state = "gone" /\ ~v.tags.remove BY <1>4 DEF NoTags, DocType
  <2> HIDE DEF h, v
  <2>4. /\ \A e \in Draft \ {d} : doc'[e] = doc[e]
        /\ doc'[d] = v
    BY <1>4, <2>1
  <2>5. HooksRight' BY <1>5, <2>1, <2>2, <2>3, <2>4 DEF Holds, HooksRight, Open
  <2> QED BY <1>2, <1>3, <2>1, <2>2, <2>3, <2>4, <2>5, TouchHolds
<1> QED BY <1>1, <1>6, <1>7, <1>8

LEMMA RequestHolds ==
  ASSUME Typed, Holds, Calm,
         \/ \E d \in Draft : ChainStart(d)
         \/ \E d \in Draft, c \in Code : PostRedeem(d, c)
         \/ \E d \in Draft, job \in {"free", "void"} : PostVoid(d, job)
         \/ \E h \in hooks : HandleCompleted(h)
  PROVE  Holds'
<1>1. Quiet /\ UNCHANGED <<ledger, doc>>
  BY CalmFacts DEF ChainStart, PostRedeem, PostVoid, HandleCompleted, CanStart
<1>3. \A d \in Draft : doc[d].tags.remove => doc[d].tags.apply = {} BY DEF Holds, NeverBoth
<1>11. ASSUME NEW d \in Draft, ChainStart(d) PROVE Holds'
  <2> DEFINE t == doc[d].tags
             c == IF t.apply = {} THEN None ELSE CHOOSE k \in t.apply : TRUE
             r == Pass(d, t)
  <2>1. run' = [run EXCEPT ![d] = r] /\ UNCHANGED hooks /\ Open(d)
    BY <1>11 DEF ChainStart, Open
  <2>2. t.remove => c = None BY <1>3
  <2>3. /\ r.pc = (IF t.remove THEN "clear" ELSE "look") /\ r.job = "panel" /\ r.d = d /\ r.c = c
        /\ r.tags = t
    BY DEF Pass, Request
  <2> HIDE DEF c
  <2> HIDE DEF r
  <2>4. Coupled(r) BY <1>3, <2>1, <2>2, <2>3 DEF Coupled, Moving
  <2> QED BY <1>1, <2>1, <2>4, StartHolds, SlotsApart
<1>12. ASSUME NEW d \in Draft, NEW c \in Code, PostRedeem(d, c) PROVE Holds'
  <2> DEFINE job == IF Voucher THEN "redeem" ELSE "note"
             first == IF Voucher THEN "look" ELSE "write"
             r == Request(job, IF doc[d].code = None THEN first ELSE "swap", d, c, doc[d].code)
  <2>1. run' = [run EXCEPT ![Api] = r] /\ UNCHANGED hooks /\ Open(d)
        /\ (~Voucher => \A e \in Draft : doc[e].code # c)
    BY <1>12, CalmFacts DEF PostRedeem, Open
  <2>2. /\ r.pc = (IF doc[d].code = None THEN first ELSE "swap") /\ r.job = job /\ r.d = d /\ r.c = c
        /\ r.x = doc[d].code /\ r.tags = doc[d].tags
    BY DEF Request
  <2> HIDE DEF r
  <2>3. Coupled(r) BY <1>3, <2>1, <2>2 DEF Coupled, Moving
  <2> QED BY <1>1, <2>1, <2>3, StartHolds, SlotsApart
<1>13. ASSUME NEW d \in Draft, NEW job \in {"free", "void"}, PostVoid(d, job) PROVE Holds'
  <2> DEFINE r == Request(job, "clear", d, None, doc[d].code)
  <2>1. run' = [run EXCEPT ![Api] = r] /\ UNCHANGED hooks /\ Open(d)
    BY <1>13 DEF PostVoid, Open
  <2>2. r.pc = "clear" /\ r.job = job /\ r.d = d /\ r.x = doc[d].code /\ r.tags = doc[d].tags
    BY DEF Request
  <2> HIDE DEF r
  <2>3. Coupled(r) BY <1>3, <2>1, <2>2 DEF Coupled, Moving
  <2> QED BY <1>1, <2>1, <2>3, StartHolds, SlotsApart
<1>14. ASSUME NEW h \in hooks, HandleCompleted(h) PROVE Holds'
  <2>1. h.kind = "completed" /\ h.d \in Draft /\ ~Open(h.d)
        /\ hooks' \subseteq hooks /\ \A k \in hooks : k.kind = "deleted" => k \in hooks'
    BY <1>14 DEF HandleCompleted, Delivered, Typed, HookFits, Holds, HooksRight
  <2>2. CASE UNCHANGED run
    <3>1. HooksRight' /\ NeverBoth' /\ Blank' /\ Alone' /\ Reserved' /\ OnDraft'
      BY <1>1, <2>1, <2>2 DEF Holds, HooksRight, NeverBoth, Blank, Alone, Reserved, OnDraft,
         Open, Busy, Moving
    <3>2. \A s \in Slot : ~Busy(s)' BY <1>1, <2>2 DEF Quiet, Busy
    <3> QED BY <3>1, <3>2 DEF Holds, Busy
  <2>3. CASE \E c \in h.tags.num : run' = [run EXCEPT ![Hook] = Request("convert", "lock", h.d, c, None)]
    <3>1. PICK c : run' = [run EXCEPT ![Hook] = Request("convert", "lock", h.d, c, None)] BY <2>3
    <3> DEFINE r == Request("convert", "lock", h.d, c, None)
    <3>2. r.pc = "lock" /\ r.job = "convert" /\ r.d = h.d /\ r.tags = doc[h.d].tags
      BY <2>1 DEF Request
    <3>3. run' = [run EXCEPT ![Hook] = r] BY <3>1
    <3> HIDE DEF r
    <3>4. Coupled(r) BY <1>3, <2>1, <3>2 DEF Coupled, Moving
    <3> QED BY <1>1, <2>1, <3>3, <3>4, StartHolds, SlotsApart
  <2> QED BY <1>14, <2>2, <2>3 DEF HandleCompleted
<1> QED BY <1>11, <1>12, <1>13, <1>14

\* What the ledger is told of an issue, a deletion and an online sale.
LEMMA ToldHolds ==
  ASSUME Typed, Holds, Calm,
         \/ \E c \in Code : Issue(c)
         \/ \E c \in Code, o \in Order : BuyOnline(c, o)
         \/ \E h \in hooks : HandleDeleted(h) \/ HandleOnline(h)
  PROVE  Holds'
<1>1. UNCHANGED <<doc, run>> BY DEF Issue, BuyOnline, HandleDeleted, HandleOnline
<1>2. NeverBoth' /\ Blank' /\ Alone' BY <1>1 DEF Holds, NeverBoth, Blank, Alone, Open
<1>3. \A d \in Draft : doc[d] \in DocType BY DEF Typed
<1>4. \A s \in Slot : Busy(s) => run[s] \in Req /\ Fits(run[s]) /\ Coupled(run[s])
  BY DEF Typed, Holds
<1>11. ASSUME NEW c \in Code, Issue(c) PROVE Holds'
  <2>1. hooks' = hooks /\ UpsertIssued(c, TRUE) BY <1>11 DEF Issue
  <2>2. \A k \in Code : /\ ledger[k].status # "none" => ledger'[k] = ledger[k]
                        /\ ledger'[k].status = "applied" => ledger[k].status = "applied"
    <3>1. CASE ledger[c].status = "none"
      <4> DEFINE v == [ledger[c] EXCEPT !.status = "open", !.rule = TRUE]
      <4>1. ledger' = [ledger EXCEPT ![c] = v] BY <2>1, <3>1 DEF UpsertIssued, Typed
      <4>2. v.status = "open"
        <5>1. ledger[c] \in RowType BY DEF Typed
        <5> QED BY <5>1 DEF RowType
      <4> HIDE DEF v
      <4> QED BY <3>1, <4>1, <4>2 DEF Typed
    <3>2. CASE ledger[c].status # "none" BY <2>1, <3>2 DEF UpsertIssued
    <3> QED BY <3>1, <3>2
  <2>3. HooksRight' BY <1>1, <2>1 DEF Holds, HooksRight, Open
  <2>4. Reserved' BY <1>1, <1>3, <2>2 DEF Holds, Reserved, Open, DocType
  <2>5. OnDraft' BY <1>1, <2>1, <2>2 DEF Holds, OnDraft, Moving, Busy
  <2>6. \A s \in Slot : Busy(s)' => Coupled(run[s])'
    BY <1>1, <1>4, <2>2 DEF Coupled, Moving, Open, Loose, Busy, Fits
  <2> QED BY <1>2, <2>3, <2>4, <2>5, <2>6 DEF Holds
<1>12. ASSUME NEW c \in Code, NEW o \in Order, BuyOnline(c, o) PROVE Holds'
  <2> DEFINE h == [kind |-> "online", d |-> o, c |-> c]
  <2>1. hooks' = hooks \cup {h} /\ ledger' = ledger BY <1>12 DEF BuyOnline
  <2>2. h.kind = "online" OBVIOUS
  <2> HIDE DEF h
  <2>3. HooksRight' BY <1>1, <2>1, <2>2 DEF Holds, HooksRight, Open
  <2>4. Reserved' BY <1>1, <2>1 DEF Holds, Reserved, Open
  <2>5. OnDraft' BY <1>1, <2>1 DEF Holds, OnDraft, Moving, Busy
  <2>6. \A s \in Slot : Busy(s)' => Coupled(run[s])'
    BY <1>1, <1>4, <2>1 DEF Coupled, Moving, Open, Loose, Busy
  <2> QED BY <1>2, <2>3, <2>4, <2>5, <2>6 DEF Holds
<1>13. ASSUME NEW h \in hooks, HandleDeleted(h) PROVE Holds'
  <2>1. /\ Quiet /\ h.d \in Draft /\ doc[h.d].state = "gone" /\ RevertApplied(h.d)
        /\ hooks' \subseteq hooks /\ \A k \in hooks : k # h => k \in hooks'
    BY <1>13, CalmFacts DEF HandleDeleted, CanStart, Delivered, Typed, HookFits, Holds, HooksRight
  <2>2. \A c \in Code : IF ledger[c].status = "applied" /\ ledger[c].draft = h.d
                        THEN ledger'[c].status = "open" ELSE ledger'[c] = ledger[c]
    <3> SUFFICES ASSUME NEW c \in Code
                 PROVE IF ledger[c].status = "applied" /\ ledger[c].draft = h.d
                       THEN ledger'[c].status = "open" ELSE ledger'[c] = ledger[c]
      OBVIOUS
    <3>1. ledger[c] \in RowType BY DEF Typed
    <3>2. [ledger[c] EXCEPT !.status = "open", !.draft = None].status = "open" BY <3>1 DEF RowType
    <3> QED BY <2>1, <3>2 DEF RevertApplied
  <2>3. HooksRight' BY <1>1, <2>1 DEF Holds, HooksRight, Open
  <2>4. Reserved' BY <1>1, <1>3, <2>1, <2>2 DEF Holds, Reserved, Open, DocType, Quiet, Busy
  <2>5. OnDraft' BY <1>1, <2>1, <2>2 DEF Holds, OnDraft, Quiet, Busy
  <2>6. \A s \in Slot : ~Busy(s)' BY <1>1, <2>1 DEF Quiet, Busy
  <2> QED BY <1>2, <2>3, <2>4, <2>5, <2>6 DEF Holds
<1>14. ASSUME NEW h \in hooks, HandleOnline(h) PROVE Holds'
  <2>1. /\ Quiet /\ h.c \in Code /\ Redeem(h.c, None, h.d) /\ h.kind = "online"
        /\ hooks' = hooks \ {h}
    BY <1>14, CalmFacts DEF HandleOnline, CanStart, Typed, HookFits
  <2> DEFINE v == [ledger[h.c] EXCEPT !.status = "redeemed", !.order = h.d, !.draft = @]
  <2>2. ledger' = [ledger EXCEPT ![h.c] = v] BY <2>1 DEF Redeem, Typed
  <2>3. v.status = "redeemed" /\ v.draft = ledger[h.c].draft
    <3>1. ledger[h.c] \in RowType BY <2>1 DEF Typed
    <3> QED BY <3>1 DEF RowType
  <2> HIDE DEF v
  <2>4. /\ \A c \in Code \ {h.c} : ledger'[c] = ledger[c]
        /\ ledger'[h.c].status = "redeemed" /\ ledger'[h.c].draft = ledger[h.c].draft
    BY <2>1, <2>2, <2>3 DEF Typed
  <2>5. HooksRight' BY <1>1, <2>1 DEF Holds, HooksRight, Open
  <2>6. Reserved' BY <1>1, <1>3, <2>1, <2>4 DEF Holds, Reserved, Open, DocType, Quiet, Busy
  <2>7. OnDraft' BY <1>1, <2>1, <2>4 DEF Holds, OnDraft, Quiet, Busy
  <2>8. \A s \in Slot : ~Busy(s)' BY <1>1, <2>1 DEF Quiet, Busy
  <2> QED BY <1>2, <2>5, <2>6, <2>7, <2>8 DEF Holds
<1> QED BY <1>11, <1>12, <1>13, <1>14

LEMMA CaseStays == [Next]_vars => case' = case
<1> SUFFICES ASSUME [Next]_vars PROVE case' = case OBVIOUS
<1>1. ASSUME NEW s \in Slot, Step(s) PROVE case' = case
  BY <1>1 DEF Step, Clear, Untag, LookFree, Free, Void, Look, Strip, Read, Swap, Release,
     WriteCode, WriteTags, IssueNote, ApplyLedger, DeletePriceRule, LockLook, RedeemOnOrder
<1>2. ASSUME NEW s \in Slot, Fails(s) PROVE case' = case BY <1>2 DEF Fails
<1>3. ASSUME NEW h \in hooks, Handle(h) PROVE case' = case
  BY <1>3 DEF Handle, HandleDeleted, HandleOnline, HandleCompleted
<1>4. ASSUME NEW d \in Draft, AskRemove(d) \/ Complete(d) \/ Delete(d) \/ ChainStart(d) \/ ChainAgain(d)
      PROVE  case' = case
  BY <1>4 DEF AskRemove, Complete, Delete, ChainStart, ChainAgain
<1>5. ASSUME NEW d \in Draft, NEW c \in Code, AskApply(d, c) \/ PostRedeem(d, c) PROVE case' = case
  BY <1>5 DEF AskApply, PostRedeem
<1> QED BY <1>1, <1>2, <1>3, <1>4, <1>5 DEF Next, vars, Issue, PostVoid, BuyOnline, Restart

\* A call is one request's: the others stay where they are, and it goes on
\* with its job and its code, if at all.
LEMMA OthersStay ==
  ASSUME Typed, NEW s \in Slot, Step(s) \/ Fails(s)
  PROVE  /\ Busy(s)
         /\ \A t \in Slot \ {s} : run'[t] = run[t]
         /\ run'[s].pc # "idle" => run'[s].job = run[s].job /\ run'[s].c = run[s].c
<1> DEFINE Stay == /\ \A t \in Slot \ {s} : run'[t] = run[t]
                   /\ run'[s].pc # "idle" => run'[s].job = run[s].job /\ run'[s].c = run[s].c
<1> SUFFICES Busy(s) /\ Stay OBVIOUS
<1>1. Busy(s)
  BY DEF Step, Clear, Untag, LookFree, Free, Void, Look, Strip, Read, Swap, Release, WriteCode,
     WriteTags, IssueNote, ApplyLedger, DeletePriceRule, LockLook, RedeemOnOrder, Fails, Busy
<1>2. run[s] \in Req BY <1>1 DEF Typed
<1>3. ASSUME NEW v, run' = [run EXCEPT ![s] = v],
             v.pc # "idle" => v.job = run[s].job /\ v.c = run[s].c
      PROVE  Stay
  BY <1>3 DEF Typed
<1>4. ASSUME NEW pc, Goto(s, pc) PROVE Stay
  <2> DEFINE v == [run[s] EXCEPT !.pc = pc]
  <2>1. v.job = run[s].job /\ v.c = run[s].c BY <1>2 DEF Req
  <2>2. run' = [run EXCEPT ![s] = v] BY <1>4 DEF Typed, Goto
  <2> HIDE DEF v, Stay
  <2> QED BY <1>3, <2>1, <2>2
<1>5. ASSUME NEW pc, NEW x, run' = [run EXCEPT ![s].pc = pc, ![s].x = x] PROVE Stay
  <2> DEFINE v == [run[s] EXCEPT !.pc = pc, !.x = x]
  <2>1. v.job = run[s].job /\ v.c = run[s].c BY <1>2 DEF Req
  <2>2. run' = [run EXCEPT ![s] = v] BY <1>5 DEF Typed
  <2> HIDE DEF v, Stay
  <2> QED BY <1>3, <2>1, <2>2
<1>6. Done(s) => Stay BY DEF Done, Idle, Typed
<1> HIDE DEF Stay
<1>7. NextOfRemove(s) => Stay BY <1>4, <1>6 DEF NextOfRemove
<1>11. CASE Clear(s) \/ Untag(s) \/ LookFree(s) \/ Free(s) \/ Void(s)
  BY <1>1, <1>4, <1>5, <1>6, <1>7, <1>11 DEF Clear, Untag, LookFree, Free, Void
<1>12. CASE Look(s)
  <2> DEFINE row == ledger[run[s].c]
             elsewhere == row.status = "applied" /\ row.draft # run[s].d
             v == [run[s] EXCEPT !.pc = IF elsewhere THEN "strip" ELSE AfterLook(s),
                                 !.x = IF elsewhere THEN row.draft ELSE None, !.rule = row.rule]
  <2>1. Done(s) \/ run' = [run EXCEPT ![s] = v] BY <1>12 DEF Look, Typed
  <2>2. v.job = run[s].job /\ v.c = run[s].c BY <1>2 DEF Req
  <2> HIDE DEF v
  <2> QED BY <1>1, <1>3, <1>6, <2>1, <2>2
<1>13. CASE Strip(s) \/ Swap(s) \/ Release(s) BY <1>1, <1>4, <1>5, <1>6, <1>13 DEF Strip, Swap, Release
<1>14. CASE Read(s) BY <1>1, <1>4, <1>5, <1>6, <1>14 DEF Read
<1>15. CASE WriteCode(s) \/ WriteTags(s) \/ IssueNote(s) \/ ApplyLedger(s) \/ DeletePriceRule(s)
            \/ RedeemOnOrder(s)
  BY <1>1, <1>4, <1>6, <1>15 DEF WriteCode, WriteTags, IssueNote, ApplyLedger, DeletePriceRule,
     RedeemOnOrder
<1>16. CASE LockLook(s)
  <2> DEFINE v == [run[s] EXCEPT !.pc = "redeem", !.rule = ledger[run[s].c].rule]
  <2>1. Done(s) \/ run' = [run EXCEPT ![s] = v] BY <1>16 DEF LockLook, Typed
  <2>2. v.job = run[s].job /\ v.c = run[s].c BY <1>2 DEF Req
  <2> HIDE DEF v
  <2> QED BY <1>1, <1>3, <1>6, <2>1, <2>2
<1>17. CASE Fails(s) BY <1>1, <1>4, <1>5, <1>6, <1>7, <1>17 DEF Fails
<1> QED BY <1>11, <1>12, <1>13, <1>14, <1>15, <1>16, <1>17 DEF Step

LEMMA OneBusyStays ==
  ASSUME Typed, NoOverlap, OneBusy, [Next]_vars
  PROVE  OneBusy'
<1>1. ASSUME NEW s \in Slot, Step(s) \/ Fails(s) PROVE OneBusy'
  BY <1>1, OthersStay DEF OneBusy, Busy
<1>2. ASSUME UNCHANGED run PROVE OneBusy' BY <1>2 DEF OneBusy, Busy
<1>3. ASSUME NEW s \in Slot, NEW r, Quiet, run' = [run EXCEPT ![s] = r] PROVE OneBusy'
  BY <1>3 DEF Typed, Quiet, OneBusy, Busy
<1>4. ASSUME NEW h \in hooks, Handle(h) PROVE OneBusy'
  <2>1. UNCHANGED run \/ (Quiet /\ \E r : run' = [run EXCEPT ![Hook] = r])
    BY <1>4 DEF Handle, HandleDeleted, HandleOnline, HandleCompleted, CanStart, NoOverlap
  <2> QED BY <1>2, <1>3, <2>1, SlotsApart
<1>5. ASSUME NEW d \in Draft, ChainStart(d) \/ ChainAgain(d) PROVE OneBusy'
  BY <1>3, <1>5, SlotsApart DEF ChainStart, ChainAgain, CanStart, NoOverlap
<1>6. ASSUME NEW d \in Draft, NEW c \in Code, PostRedeem(d, c) PROVE OneBusy'
  BY <1>3, <1>6, SlotsApart DEF PostRedeem, CanStart, NoOverlap
<1>7. ASSUME NEW d \in Draft, NEW job \in {"free", "void"}, PostVoid(d, job) PROVE OneBusy'
  BY <1>3, <1>7, SlotsApart DEF PostVoid, CanStart, NoOverlap
<1>8. CASE Restart BY <1>8 DEF Restart, OneBusy, Busy, Idle
<1>9. ASSUME NEW d \in Draft, AskRemove(d) \/ Complete(d) \/ Delete(d) \/ \E c \in Code : AskApply(d, c)
      PROVE  OneBusy'
  BY <1>2, <1>9 DEF AskRemove, Complete, Delete, AskApply
<1> QED BY <1>1, <1>2, <1>4, <1>5, <1>6, <1>7, <1>8, <1>9 DEF Next, vars, Issue, BuyOnline

\* What was redeemed is so still, whatever becomes of the other codes.
Kept == \A c \in Code : ledger[c].status = "redeemed" => ledger'[c].status = "redeemed"

\* A call of the panel's request frees only what is not redeemed, and looked
\* before; the release of a swapped code never looks.
LEMMA PanelSpares ==
  ASSUME Typed, OneBusy, Unspent, NEW s \in Slot, Step(s) \/ Fails(s), run[s].job = "panel"
  PROVE  Spares(run[s])' /\ (run[s].pc # "release" => Kept)
<1> DEFINE r == run[s]
<1>1. Busy(s) /\ r \in Req /\ Fits(r) /\ Spares(r) BY OthersStay DEF Typed, Unspent
<1>2. run'[s].pc # "idle" => run'[s].job = "panel" /\ run'[s].c = r.c BY OthersStay
<1>3. \A pc : Goto(s, pc) => run'[s].pc = pc /\ run'[s].x = r.x BY <1>1, GotoFacts
<1>4. Done(s) => run'[s].pc = "idle" BY <1>1, DoneFacts
<1>5. NextOfRemove(s) => run'[s].pc \in {"idle", "look"} BY <1>3, <1>4 DEF NextOfRemove
<1>6. ASSUME run'[s].pc \notin {"free", "strip", "read", "swap", "release", "write", "tag", "apply"}
      PROVE  Spares(run[s])'
  BY <1>6 DEF Spares
<1>7. ASSUME ledger' = ledger, r.pc \in {"strip", "read", "swap", "release", "write", "tag", "apply"},
             run'[s].pc # "free"
      PROVE  Spares(run[s])'
  BY <1>1, <1>2, <1>7 DEF Spares
<1>8. ledger' = ledger => Kept BY DEF Kept
<1>9. \A pc, x : run' = [run EXCEPT ![s].pc = pc, ![s].x = x] => run'[s].pc = pc
  BY <1>1 DEF Typed, Req
<1>10. ASSUME NEW x \in Code, Reopen(x)
       PROVE  /\ ledger[x].status # "redeemed" => Kept
              /\ \A c \in Code : ledger[c].status # "redeemed" => ledger'[c].status # "redeemed"
  <2>1. ledger' = [ledger EXCEPT ![x] = Reopened(ledger[x])] BY <1>10 DEF Typed, Reopen
  <2>2. Reopened(ledger[x]).status # "redeemed" BY DEF Typed, Reopened, RowType
  <2> QED BY <2>1, <2>2 DEF Typed, Kept
<1>11. CASE Clear(s) \/ Untag(s)
  <2>1. ledger' = ledger BY <1>11 DEF Clear, Untag
  <2>2. run'[s].pc \in {"idle", "untag", "look", "lookFree"}
    <3>1. CASE Clear(s) BY <1>4, <1>9, <3>1 DEF Clear
    <3>2. CASE Untag(s) BY <1>3, <1>4, <1>5, <3>2 DEF Untag
    <3> QED BY <1>11, <3>1, <3>2
  <2> QED BY <1>6, <1>8, <2>1, <2>2
<1>12. CASE LookFree(s)
  <2>1. ledger' = ledger BY <1>12 DEF LookFree
  <2>2. CASE NextOfRemove(s) BY <1>5, <1>6, <1>8, <2>1, <2>2
  <2>3. CASE Goto(s, "free") /\ ledger[r.x].status # "redeemed"
    BY <1>3, <1>8, <2>1, <2>3 DEF Spares
  <2> QED BY <1>12, <2>2, <2>3 DEF LookFree
<1>13. CASE Free(s)
  <2>1. Reopen(r.x) /\ NextOfRemove(s) /\ r.pc = "free" BY <1>13 DEF Free
  <2>2. r.x \in Code /\ ledger[r.x].status # "redeemed" BY <1>1, <2>1 DEF Fits, Spares
  <2> QED BY <1>5, <1>6, <1>10, <2>1, <2>2
<1>14. CASE Look(s)
  <2>1. ledger' = ledger BY <1>14 DEF Look
  <2>2. CASE Refused(s) BY <1>4, <1>6, <1>8, <1>14, <2>1, <2>2 DEF Look
  <2>3. CASE ~Refused(s)
    <3>1. ledger[r.c].status # "redeemed" BY <2>3 DEF Refused
    <3> DEFINE elsewhere == ledger[r.c].status = "applied" /\ ledger[r.c].draft # r.d
               n == [r EXCEPT !.pc = IF elsewhere THEN "strip" ELSE AfterLook(s),
                              !.x = IF elsewhere THEN ledger[r.c].draft ELSE None,
                              !.rule = ledger[r.c].rule]
    <3>2. run' = [run EXCEPT ![s] = n] BY <1>14, <2>3 DEF Look, Typed
    <3>3. n.pc \in {"strip", "read"} BY <1>1 DEF AfterLook, Req
    <3> HIDE DEF n
    <3>4. run'[s].pc \in {"strip", "read"} BY <3>2, <3>3 DEF Typed
    <3> QED BY <1>2, <1>8, <2>1, <3>1, <3>4 DEF Spares
  <2> QED BY <2>2, <2>3
<1>15. CASE Strip(s) \/ Read(s) \/ Swap(s) \/ WriteCode(s) \/ WriteTags(s)
  <2>1. ledger' = ledger /\ r.pc \in {"strip", "read", "swap", "write", "tag"}
    BY <1>15 DEF Strip, Read, Swap, WriteCode, WriteTags
  <2>2. run'[s].pc # "free"
    <3>1. CASE Strip(s) BY <1>9, <3>1 DEF Strip, AfterLook
    <3>2. CASE Read(s) BY <1>3, <1>4, <1>9, <3>2 DEF Read
    <3>3. CASE Swap(s) \/ WriteCode(s) \/ WriteTags(s)
      BY <1>3, <1>4, <3>3 DEF Swap, WriteCode, WriteTags
    <3> QED BY <1>15, <3>1, <3>2, <3>3
  <2> QED BY <1>7, <1>8, <2>1, <2>2
<1>16. CASE Release(s)
  <2>1. /\ r.pc = "release" /\ r.x \in Code /\ r.c \in Code /\ Reopen(r.x)
        /\ run'[s].pc \in {"look", "write"}
    BY <1>1, <1>9, <1>16 DEF Release, Fits
  <2>2. ledger'[r.c].status # "redeemed" BY <1>1, <1>10, <2>1 DEF Spares
  <2> QED BY <1>2, <2>1, <2>2 DEF Spares
<1>17. CASE ApplyLedger(s)
  <2>1. r.pc = "apply" /\ Apply(r.c, r.d) /\ Done(s) BY <1>17 DEF ApplyLedger
  <2>2. r.c \in Code /\ ledger[r.c].status # "redeemed" BY <1>1, <2>1 DEF Fits, Spares
  <2>3. Kept BY <2>1, <2>2 DEF Typed, Apply, Kept
  <2> QED BY <1>4, <1>6, <2>1, <2>3
<1>18. CASE Void(s) \/ IssueNote(s) \/ DeletePriceRule(s) \/ LockLook(s) \/ RedeemOnOrder(s)
  BY <1>1, <1>18 DEF Void, IssueNote, DeletePriceRule, LockLook, RedeemOnOrder, Fits
<1>19. CASE Fails(s)
  <2>1. ledger' = ledger BY <1>19 DEF Fails
  <2>2. CASE r.pc = "strip" /\ run' = [run EXCEPT ![s].pc = AfterLook(s), ![s].x = None]
    BY <1>7, <1>8, <1>9, <2>1, <2>2 DEF AfterLook
  <2>3. CASE NextOfRemove(s) \/ Done(s) BY <1>4, <1>5, <1>6, <1>8, <2>1, <2>3
  <2>4. NextOfRemove(s) \/ Done(s)
        \/ (r.pc = "strip" /\ run' = [run EXCEPT ![s].pc = AfterLook(s), ![s].x = None])
    BY <1>19 DEF Fails
  <2> QED BY <2>2, <2>3, <2>4
<1> QED BY <1>11, <1>12, <1>13, <1>14, <1>15, <1>16, <1>17, <1>18, <1>19 DEF Step

LEMMA UnspentStays ==
  ASSUME Typed, NoOverlap, OneBusy, Unspent, [Next]_vars
  PROVE  Unspent'
<1>1. ASSUME NEW s \in Slot, Step(s) \/ Fails(s) PROVE Unspent'
  <2>1. \A t \in Slot \ {s} : ~Busy(t)' BY <1>1, OthersStay DEF OneBusy, Busy
  <2>2. Busy(s)' => Spares(run[s])'
    <3>1. CASE run[s].job = "panel" BY <1>1, <3>1, PanelSpares
    <3>2. CASE run[s].job # "panel" BY <1>1, <3>2, OthersStay DEF Spares, Busy
    <3> QED BY <3>1, <3>2
  <2> QED BY <2>1, <2>2 DEF Unspent
<1>2. ASSUME UNCHANGED <<run, ledger>> PROVE Unspent' BY <1>2 DEF Unspent, Spares, Busy
<1>3. ASSUME NEW s \in Slot, NEW r, Quiet, r.pc \in {"clear", "look"} \/ r.job # "panel",
             run' = [run EXCEPT ![s] = r]
      PROVE  Unspent'
  <2>1. run'[s] = r /\ \A t \in Slot \ {s} : ~Busy(t)' BY <1>3 DEF Typed, Quiet, Busy
  <2>2. Spares(run[s])' BY <1>3, <2>1 DEF Spares
  <2> QED BY <2>1, <2>2 DEF Unspent
<1>4. ASSUME NEW h \in hooks, Handle(h) PROVE Unspent'
  <2>1. Quiet BY <1>4 DEF Handle, HandleDeleted, HandleOnline, HandleCompleted, CanStart, NoOverlap
  <2>2. CASE UNCHANGED run BY <2>1, <2>2 DEF Unspent, Quiet, Busy
  <2>3. CASE \E c \in h.tags.num : run' = [run EXCEPT ![Hook] = Request("convert", "lock", h.d, c, None)]
    <3>1. PICK c : run' = [run EXCEPT ![Hook] = Request("convert", "lock", h.d, c, None)] BY <2>3
    <3>2. Request("convert", "lock", h.d, c, None).job = "convert" BY DEF Request
    <3> QED BY <1>3, <2>1, <3>1, <3>2, SlotsApart
  <2> QED BY <1>4, <2>2, <2>3 DEF Handle, HandleDeleted, HandleOnline, HandleCompleted
<1>5. ASSUME NEW d \in Draft, ChainStart(d) \/ ChainAgain(d) PROVE Unspent'
  <2>1. PICK t : Quiet /\ run' = [run EXCEPT ![d] = Pass(d, t)]
    BY <1>5 DEF ChainStart, ChainAgain, CanStart, NoOverlap
  <2>2. Pass(d, t).pc \in {"clear", "look"} BY DEF Pass, Request
  <2> QED BY <1>3, <2>1, <2>2, SlotsApart
<1>6. ASSUME NEW d \in Draft, NEW c \in Code, PostRedeem(d, c) PROVE Unspent'
  <2> DEFINE job == IF Voucher THEN "redeem" ELSE "note"
             first == IF Voucher THEN "look" ELSE "write"
             r == Request(job, IF doc[d].code = None THEN first ELSE "swap", d, c, doc[d].code)
  <2>1. Quiet /\ run' = [run EXCEPT ![Api] = r] BY <1>6 DEF PostRedeem, CanStart, NoOverlap
  <2>2. r.job # "panel" BY DEF Request
  <2> HIDE DEF r
  <2> QED BY <1>3, <2>1, <2>2, SlotsApart
<1>7. ASSUME NEW d \in Draft, NEW job \in {"free", "void"}, PostVoid(d, job) PROVE Unspent'
  <2> DEFINE r == Request(job, "clear", d, None, doc[d].code)
  <2>1. Quiet /\ run' = [run EXCEPT ![Api] = r] BY <1>7 DEF PostVoid, CanStart, NoOverlap
  <2>2. r.job # "panel" BY DEF Request
  <2> HIDE DEF r
  <2> QED BY <1>3, <2>1, <2>2, SlotsApart
<1>8. CASE Restart BY <1>8 DEF Restart, Unspent, Busy, Idle
<1>9. ASSUME NEW d \in Draft, AskRemove(d) \/ Complete(d) \/ Delete(d) \/ \E c \in Code : AskApply(d, c)
      PROVE  Unspent'
  BY <1>2, <1>9 DEF AskRemove, Complete, Delete, AskApply
<1>10. ASSUME NEW c \in Code, Issue(c) PROVE Unspent'
  <2>1. UNCHANGED run /\ UpsertIssued(c, TRUE) BY <1>10 DEF Issue
  <2>2. \A k \in Code : ledger'[k].status = "redeemed" => ledger[k].status = "redeemed"
    BY <2>1 DEF UpsertIssued, Typed, RowType
  <2>3. \A s \in Slot : Busy(s) => run[s] \in Req /\ Fits(run[s]) BY DEF Typed
  <2> QED BY <2>1, <2>2, <2>3 DEF Unspent, Spares, Busy, Fits
<1> QED BY <1>1, <1>2, <1>4, <1>5, <1>6, <1>7, <1>8, <1>9, <1>10 DEF Next, vars, BuyOnline

LEMMA HoldsInvStays == HoldsInv /\ [Next]_vars => HoldsInv'
<1> SUFFICES ASSUME HoldsInv, [Next]_vars PROVE HoldsInv' OBVIOUS
<1>1. Typed /\ Typed' /\ case' = case BY NextTyped, CaseStays DEF HoldsInv
<1>2. (NoOverlap' <=> NoOverlap) /\ (Calm' <=> Calm) BY <1>1 DEF NoOverlap, Allowed, Calm, Only
<1>3. NoOverlap => OneBusy' /\ Unspent' BY <1>1, OneBusyStays, UnspentStays DEF HoldsInv
<1>4. ASSUME Calm PROVE Holds'
  <2>1. OneBusy /\ Holds /\ ~Allowed("fault") BY <1>4, CalmFacts DEF HoldsInv, NoOverlap
  <2>2. CASE UNCHANGED vars
    <3>1. HooksRight' /\ NeverBoth' /\ Blank' /\ Alone' /\ Reserved' /\ OnDraft'
      BY <2>1, <2>2 DEF vars, Holds, HooksRight, NeverBoth, Blank, Alone, Reserved, OnDraft,
         Open, Busy, Moving
    <3>2. \A s \in Slot : Busy(s)' => Coupled(run[s])'
      BY <2>1, <2>2 DEF vars, Holds, Coupled, Moving, Open, Loose, Busy
    <3> QED BY <3>1, <3>2 DEF Holds
  <2>3. CASE \E s \in Slot : Step(s) BY <1>1, <2>1, <2>3, StepHolds
  <2>4. CASE (\E s \in Slot : Fails(s)) \/ Restart \/ \E d \in Draft : ChainAgain(d)
    BY <1>4, <2>1, <2>4, CalmFacts DEF Fails, Restart, ChainAgain
  <2>5. CASE \/ \E d \in Draft : AskRemove(d) \/ Complete(d) \/ Delete(d)
             \/ \E d \in Draft, c \in Code : AskApply(d, c)
    BY <1>1, <1>4, <2>1, <2>5, StaffHolds
  <2>6. CASE \/ \E d \in Draft : ChainStart(d)
             \/ \E d \in Draft, c \in Code : PostRedeem(d, c)
             \/ \E d \in Draft, job \in {"free", "void"} : PostVoid(d, job)
             \/ \E h \in hooks : HandleCompleted(h)
    BY <1>1, <1>4, <2>1, <2>6, RequestHolds
  <2>7. CASE \/ \E c \in Code : Issue(c)
             \/ \E c \in Code, o \in Order : BuyOnline(c, o)
             \/ \E h \in hooks : HandleDeleted(h) \/ HandleOnline(h)
    BY <1>1, <1>4, <2>1, <2>7, ToldHolds
  <2> QED BY <2>2, <2>3, <2>4, <2>5, <2>6, <2>7 DEF Next, Handle
<1> QED BY <1>1, <1>2, <1>3, <1>4 DEF HoldsInv

LEMMA HoldsInvAlways == Spec => []HoldsInv
<1>1. Init => HoldsInv BY InitTyped, InitHolds DEF HoldsInv
<1> QED BY <1>1, HoldsInvStays, PTL DEF Spec

LEMMA HoldsInvAgrees == HoldsInv => HoldsAgree
<1> SUFFICES ASSUME HoldsInv PROVE HoldsAgree OBVIOUS
<1>1. Typed BY DEF HoldsInv
<1>2. HeldOnce BY DEF HoldsInv, Holds, Alone, HeldOnce, Open
<1>3. HeldIsApplied
  <2> SUFFICES ASSUME Calm, Quiet, NEW d \in Draft, Open(d), doc[d].code # None
               PROVE  LET row == ledger[doc[d].code] IN
                      row.status = "redeemed" \/ (row.status = "applied" /\ row.draft = d)
    BY DEF HeldIsApplied, Open
  <2>1. \A s \in Slot : run[s].pc = "idle" BY DEF Quiet, Busy
  <2> QED BY <2>1 DEF HoldsInv, Holds, Reserved
<1>4. AppliedIsHeld
  <2> SUFFICES ASSUME Calm, Quiet, NEW c \in Code, ledger[c].status = "applied"
               PROVE  LET d == ledger[c].draft IN
                      doc[d].code = c \/ \E h \in hooks : h.kind = "deleted" /\ h.d = d
    BY DEF AppliedIsHeld
  <2> QED BY DEF HoldsInv, Holds, OnDraft, Quiet
<1> QED BY <1>1, <1>2, <1>3, <1>4, TypedIsTypeOK DEF HoldsAgree

\* While requests run one at a time and none fails, a code is on one open
\* draft at most, what a draft holds the ledger reserves for it, and what the
\* ledger reserves a draft holds: whatever codes are swapped, however late the
\* webhooks of sales and deletions come and how often, and whatever is used
\* online meanwhile.  Updates of a draft are handled while they are true (Calm).
THEOREM HoldsAgreeHolds == Spec => []HoldsAgree
<1> QED BY HoldsInvAlways, HoldsInvAgrees, PTL

\* The panel hands nothing back that was redeemed, whatever calls fail and
\* wherever the process restarts, as long as requests do not overlap.
THEOREM PanelKeepsRedeemedHolds == Spec => PanelKeepsRedeemed
<1> DEFINE P == Only(Trouble \ {"overlap"}) =>
         \A s \in Slot : Busy(s) /\ run[s].job = "panel" /\ run[s].pc # "release" /\ run'[s] # run[s] =>
            \A c \in Code : ledger[c].status = "redeemed" => ledger'[c].status = "redeemed"
<1>1. HoldsInv /\ [Next]_vars => [P]_vars
  <2> SUFFICES ASSUME HoldsInv, Next, Only(Trouble \ {"overlap"}), NEW s \in Slot,
                      Busy(s), run[s].job = "panel", run[s].pc # "release", run'[s] # run[s]
               PROVE  Kept
    BY DEF Kept
  <2>1. NoOverlap BY DEF Only, NoOverlap, Allowed
  <2>2. Typed /\ OneBusy /\ Unspent /\ ~Quiet BY <2>1 DEF HoldsInv, Quiet
  <2>3. CASE \E t \in Slot : Step(t) \/ Fails(t)
    <3>1. PICK t \in Slot : Step(t) \/ Fails(t) BY <2>3
    <3>2. t = s BY <2>2, <3>1, OthersStay
    <3> QED BY <2>2, <3>1, <3>2, PanelSpares
  <2>4. CASE Restart BY <2>4 DEF Restart, Kept
  <2>5. CASE \E h \in hooks : Handle(h)
    BY <2>1, <2>2, <2>5 DEF Handle, HandleDeleted, HandleOnline, HandleCompleted, CanStart, NoOverlap
  <2>6. CASE \/ \E d \in Draft : ChainStart(d) \/ ChainAgain(d)
             \/ \E d \in Draft, c \in Code : PostRedeem(d, c)
             \/ \E d \in Draft, job \in {"free", "void"} : PostVoid(d, job)
    BY <2>1, <2>2, <2>6 DEF ChainStart, ChainAgain, PostRedeem, PostVoid, CanStart, NoOverlap
  <2>7. CASE \/ \E c \in Code : Issue(c)
             \/ \E c \in Code, o \in Order : BuyOnline(c, o)
             \/ \E d \in Draft : AskRemove(d) \/ Complete(d) \/ Delete(d)
             \/ \E d \in Draft, c \in Code : AskApply(d, c)
    BY <2>7 DEF Issue, BuyOnline, AskRemove, Complete, Delete, AskApply
  <2> QED BY <2>3, <2>4, <2>5, <2>6, <2>7 DEF Next
<1>2. [][P]_vars => PanelKeepsRedeemed BY DEF PanelKeepsRedeemed
<1> QED BY <1>1, <1>2, HoldsInvAlways, PTL DEF Spec

--------------------
(* Sales that are heard of promptly *)

Prompt == Only({"again"})

\* A sale on its way to the ledger, or there.
Settling(c, o) ==
    \/ ledger[c].status = "redeemed" /\ ledger[c].order = o
    \/ /\ ledger[c].status = "open" /\ c \notin rule
       /\ \E h \in hooks : h.kind = "online" /\ h.d = o /\ h.c = c
    \/ /\ ledger[c].status = "applied" /\ ledger[c].draft = o /\ doc[o].state = "completed"
       /\ \/ \E h \in hooks : h.kind = "completed" /\ h.d = o /\ h.tags.num = {c}
          \/ run[Hook].pc \in {"lock", "redeem"} /\ run[Hook].d = o /\ run[Hook].c = c

Sales ==
    \A c \in Code : \/ deducted[c] = {} /\ ledger[c].status # "redeemed"
                    \/ \E o \in deducted[c] : deducted[c] = {o} /\ Loose(c) /\ Settling(c, o)

Rows ==
    \A c \in Code :
        /\ ledger[c].status \in {"none", "open"} => ledger[c].draft = None
        /\ ledger[c].status = "redeemed" => ledger[c].draft = None \/ ~Open(ledger[c].draft)
        /\ c \in rule => ledger[c].rule /\ ledger[c].status # "none"
        /\ c \in rule /\ ledger[c].status = "redeemed" =>
              \E s \in Slot : run[s].pc = "rule" /\ run[s].c = c

HooksSold ==
    \A h \in hooks :
        /\ h.kind = "online" => deducted[h.c] = {h.d}
        /\ h.kind = "completed" /\ h.tags.num # {} =>
              \E c \in Code : h.tags.num = {c} /\ deducted[c] = {h.d}
        /\ h.kind # "deleted" => \A s \in Slot : Busy(s) => run[s].job = "convert"

\* The tag of an open draft names what the draft holds.
Tagged ==
    \A d \in Draft : Open(d) =>
        \/ doc[d].tags.num = IF doc[d].code = None THEN {} ELSE {doc[d].code}
        \/ \E s \in Slot : run[s].pc \in {"untag", "tag"} /\ run[s].d = d

\* Staff ask for a code where there is none.
Asked ==
    \A d \in Draft : Open(d) =>
        doc[d].tags.apply = {} \/ \E c \in Code : /\ doc[d].tags.apply = {c}
                                                  /\ doc[d].code \in {None, c}

Straight(r) ==
    /\ r.pc \notin {"swap", "release"}
    /\ r.pc \in {"clear", "untag"} => r.tags.apply = {} \/ \E c \in Code : r.tags.apply = {c}
    /\ r.pc = "untag" => doc[r.d].code = None
    /\ r.job \in {"panel", "redeem", "note"} /\ r.pc \in {"look", "strip", "read", "write", "tag"} =>
          /\ r.tags.num \subseteq {r.c}
          /\ IF r.job = "panel" THEN doc[r.d].tags.apply = {r.c}
             ELSE r.tags.apply = {} /\ doc[r.d].tags.apply = {}
    /\ r.job # "convert" /\ r.pc \in {"strip", "read", "write", "tag", "issue", "apply"} =>
          deducted[r.c] = {}
    /\ r.pc \in {"untag", "lookFree", "free", "void"} /\ r.x # None => deducted[r.x] = {}
    /\ r.pc \in {"lock", "redeem"} => deducted[r.c] = {r.d}
    /\ r.pc = "redeem" => r.rule = ledger[r.c].rule

Live ==
    /\ Sales /\ Rows /\ HooksSold /\ Tagged /\ Asked
    /\ \A s \in Slot : Busy(s) => Straight(run[s])

Given == deducted = [c \in Code |-> deducted[c]]

LiveInv == HoldsInv /\ Given /\ (Prompt => Live)

LEMMA PromptFacts == Prompt => Calm /\ \A t \in Trouble \ {"again"} : ~Allowed(t)
  BY DEF Prompt, Calm, Only, Allowed

\* What is on an open draft was not sold, and while a request puts a code on
\* or takes one off no sale is waiting.
LEMMA NoneWaits ==
  ASSUME Typed, OneBusy, Live, NEW s \in Slot, Busy(s), run[s].job # "convert"
  PROVE  /\ \A h \in hooks : h.kind = "deleted"
         /\ \A c \in Code : deducted[c] # {} =>
               \E o : deducted[c] = {o} /\ Loose(c)
                      /\ ledger[c].status = "redeemed" /\ ledger[c].order = o
         /\ \A d \in Draft : Open(d) /\ doc[d].code # None => deducted[doc[d].code] = {}
<1>1. \A h \in hooks : h.kind = "deleted" BY DEF Live, HooksSold
<1>2. run[Hook].pc \notin {"lock", "redeem"}
  <2> SUFFICES ASSUME run[Hook].pc \in {"lock", "redeem"} PROVE FALSE OBVIOUS
  <2>1. Busy(Hook) BY DEF Busy
  <2>2. run[Hook].job = "convert" BY <2>1, SlotsApart DEF Typed, Fits
  <2> QED BY <2>1, <2>2, SlotsApart DEF OneBusy
<1>3. \A c \in Code : deducted[c] # {} =>
               \E o : deducted[c] = {o} /\ Loose(c)
                      /\ ledger[c].status = "redeemed" /\ ledger[c].order = o
  <2> SUFFICES ASSUME NEW c \in Code, deducted[c] # {}
               PROVE  \E o : deducted[c] = {o} /\ Loose(c)
                             /\ ledger[c].status = "redeemed" /\ ledger[c].order = o
    OBVIOUS
  <2>1. PICK o \in deducted[c] : deducted[c] = {o} /\ Loose(c) /\ Settling(c, o)
    BY DEF Live, Sales
  <2> QED BY <1>1, <1>2, <2>1 DEF Settling
<1>4. \A d \in Draft : Open(d) /\ doc[d].code # None => deducted[doc[d].code] = {}
  BY <1>3 DEF Typed, DocType, Loose
<1> QED BY <1>1, <1>3, <1>4

\* A call of a request that puts a code on or takes one off.
LEMMA LiveFrame ==
  ASSUME Typed, OneBusy, Live, NEW s \in Slot, Busy(s), run[s].job # "convert",
         \A t \in Slot \ {s} : run'[t] = run[t],
         UNCHANGED <<hooks, deducted>>,
         \/ rule' = rule /\ run[s].pc # "rule"
         \/ rule' = rule \ {run[s].c} /\ ledger' = ledger,
         \A c \in Code : \/ ledger'[c] = ledger[c]
                         \/ /\ deducted[c] = {} /\ ledger'[c].status # "redeemed"
                            /\ ledger'[c].status \in {"none", "open"} => ledger'[c].draft = None
                            /\ c \in rule => ledger'[c].rule /\ ledger'[c].status # "none",
         \A d \in Draft : /\ doc'[d].state = doc[d].state
                          /\ \/ doc'[d].code \in {None, doc[d].code}
                             \/ deducted[doc'[d].code] = {},
         Tagged', Asked', Busy(s)' => Straight(run[s])'
  PROVE  Live' /\ Kept
<1>1. \A h \in hooks : h.kind = "deleted" BY NoneWaits
<1>2. \A c \in Code : deducted[c] # {} =>
               \E o : deducted[c] = {o} /\ Loose(c)
                      /\ ledger[c].status = "redeemed" /\ ledger[c].order = o
  BY NoneWaits
<1>3. \A c \in Code : deducted[c] = {} => ledger[c].status # "redeemed" BY DEF Live, Sales
<1>4. \A c \in Code : deducted[c] # {} => Loose(c)'
  <2> SUFFICES ASSUME NEW c \in Code, deducted[c] # {}, NEW e \in Draft, Open(e)', doc'[e].code # None
               PROVE  doc'[e].code # c
    BY DEF Loose, Open
  <2>1. Open(e) BY DEF Open
  <2> QED BY <1>2, <2>1 DEF Loose
<1>5. Sales'
  <2> SUFFICES ASSUME NEW c \in Code
               PROVE  \/ deducted[c] = {} /\ ledger'[c].status # "redeemed"
                      \/ \E o \in deducted[c] : deducted[c] = {o} /\ Loose(c)' /\ Settling(c, o)'
    BY DEF Sales, Loose, Settling
  <2>1. CASE deducted[c] = {} BY <1>3, <2>1
  <2>2. CASE deducted[c] # {}
    <3>1. PICK o : deducted[c] = {o} /\ ledger[c].status = "redeemed" /\ ledger[c].order = o
      BY <1>2, <2>2
    <3>2. ledger'[c] = ledger[c] BY <2>2
    <3>3. Settling(c, o)' BY <3>1, <3>2 DEF Settling
    <3> QED BY <1>4, <2>2, <3>1, <3>3
  <2> QED BY <2>1, <2>2
<1>6. Rows'
  <2> SUFFICES ASSUME NEW c \in Code
               PROVE  /\ ledger'[c].status \in {"none", "open"} => ledger'[c].draft = None
                      /\ ledger'[c].status = "redeemed" =>
                            ledger'[c].draft = None \/ doc'[ledger'[c].draft].state # "open"
                      /\ c \in rule' => ledger'[c].rule /\ ledger'[c].status # "none"
                      /\ c \in rule' => ledger'[c].status # "redeemed"
    BY DEF Rows, Open
  <2>1. \A d \in Draft : doc'[d].state = "open" => Open(d) BY DEF Open
  <2>2. ledger[c].draft \in Draft \cup {None} BY DEF Typed, RowType
  <2>3. c \in rule' => c \in rule OBVIOUS
  <2>4. c \in rule' /\ ledger[c].status = "redeemed" => FALSE
    <3>1. c \in rule /\ ledger[c].status = "redeemed" => \E t \in Slot : run[t].pc = "rule" /\ run[t].c = c
      BY DEF Live, Rows
    <3>2. \A t \in Slot : run[t].pc = "rule" => t = s BY DEF OneBusy, Busy
    <3> QED BY <3>1, <3>2
  <2>5. CASE ledger'[c] = ledger[c] BY <2>1, <2>2, <2>3, <2>4, <2>5 DEF Live, Rows
  <2>6. CASE ledger'[c] # ledger[c] BY <2>3, <2>6
  <2> QED BY <2>5, <2>6
<1>7. HooksSold' BY <1>1 DEF HooksSold
<1>8. \A t \in Slot : Busy(t)' => Straight(run[t])'
  BY DEF OneBusy, Busy
<1>9. Kept BY <1>3 DEF Kept
<1> QED BY <1>5, <1>6, <1>7, <1>8, <1>9 DEF Live, Busy

LEMMA TakingOffLive ==
  ASSUME Typed, OneBusy, Holds, Live, NEW s \in Slot,
         Clear(s) \/ Untag(s) \/ LookFree(s) \/ Free(s) \/ Void(s)
  PROVE  Live' /\ Kept
<1> DEFINE r == run[s]
<1>1. Busy(s) /\ r.pc \in {"clear", "untag", "lookFree", "free", "void"}
  BY DEF Clear, Untag, LookFree, Free, Void, Busy
<1>2. r \in Req /\ Fits(r) /\ Coupled(r) /\ Straight(r) /\ r.d \in Draft /\ r.job # "convert" /\ Open(r.d)
  BY <1>1 DEF Typed, Holds, Live, Req, Fits, Coupled
<1>3. \A t \in Slot \ {s} : run'[t] = run[t] /\ run[t].pc = "idle"
  <2>1. Step(s) BY DEF Step
  <2>2. \A t \in Slot \ {s} : run'[t] = run[t] BY <2>1, OthersStay
  <2>3. \A t \in Slot \ {s} : run[t].pc = "idle" BY <1>1 DEF OneBusy, Busy
  <2> QED BY <2>2, <2>3
<1>4. UNCHANGED <<rule, hooks, deducted>> BY DEF Clear, Untag, LookFree, Free, Void
<1>5. \A d \in Draft : Open(d) /\ doc[d].code # None => deducted[doc[d].code] = {}
  BY <1>1, <1>2, NoneWaits
<1>6. None \notin Code BY InstrumentsAssumption
<1>7. r.job = "panel" => r.c = None BY <1>1, <1>2 DEF Coupled, Fits
<1>11. CASE Clear(s)
  <2>1. PICK x : /\ x \in (IF r.job = "panel"
                           THEN IF doc[r.d].code # None THEN {doc[r.d].code}
                                ELSE IF r.tags.num = {} THEN {None} ELSE r.tags.num
                           ELSE {r.x})
                 /\ run' = [run EXCEPT ![s].pc = "untag", ![s].x = x]
    BY <1>2, <1>11 DEF Clear, Open
  <2> DEFINE n == [r EXCEPT !.pc = "untag", !.x = x]
  <2>2. run' = [run EXCEPT ![s] = n] BY <2>1 DEF Typed
  <2>3. n.pc = "untag" /\ n.x = x /\ n.job = r.job /\ n.d = r.d /\ n.c = r.c /\ n.tags = r.tags
    BY <1>2 DEF Req
  <2> HIDE DEF n
  <2>4. run'[s] = n BY <2>2 DEF Typed
  <2>5. doc' = [doc EXCEPT ![r.d].code = None] /\ ledger' = ledger /\ r.pc = "clear"
    BY <1>2, <1>11 DEF Clear, Open
  <2>6. /\ \A e \in Draft : doc'[e].state = doc[e].state /\ doc'[e].tags = doc[e].tags
        /\ doc'[r.d].code = None /\ \A e \in Draft \ {r.d} : doc'[e].code = doc[e].code
    BY <1>2, <2>5 DEF Typed, DocType
  <2>7. \A e \in Draft : Open(e)' <=> Open(e) BY <2>6 DEF Open
  <2>8. x # None => x = doc[r.d].code
    <3>1. CASE r.job = "panel"
      <4>1. r.tags = doc[r.d].tags BY <1>2, <2>5, <3>1 DEF Coupled
      <4>2. doc[r.d].code = None => r.tags.num = {}
        BY <1>2, <1>3, <2>5, <4>1 DEF Holds, Blank
      <4> QED BY <2>1, <3>1, <4>2
    <3>2. CASE r.job # "panel" BY <1>2, <2>1, <2>5, <3>2 DEF Coupled
    <3> QED BY <3>1, <3>2
  <2>9. Tagged' BY <1>2, <1>3, <2>3, <2>4, <2>5, <2>6, <2>7 DEF Live, Tagged
  <2>10. Asked' BY <2>6, <2>7 DEF Live, Asked
  <2>12. Straight(run[s])' BY <1>2, <1>4, <1>5, <2>3, <2>4, <2>5, <2>6, <2>8 DEF Straight
  <2> QED BY <1>1, <1>2, <1>3, <1>4, <2>5, <2>6, <2>9, <2>10, <2>12, LiveFrame
<1>12. CASE Untag(s)
  <2> DEFINE t == [r.tags EXCEPT !.num = {}, !.remove = IF r.job = "panel" THEN FALSE ELSE @]
  <2>1. doc' = [doc EXCEPT ![r.d].tags = t] /\ ledger' = ledger /\ r.pc = "untag"
    BY <1>2, <1>12 DEF Untag, Open
  <2>2. t.num = {} /\ t.apply = r.tags.apply BY <1>2 DEF Req, TagsType
  <2> HIDE DEF t
  <2>3. /\ \A e \in Draft : doc'[e].state = doc[e].state /\ doc'[e].code = doc[e].code
        /\ doc'[r.d].tags = t /\ \A e \in Draft \ {r.d} : doc'[e].tags = doc[e].tags
    BY <1>2, <2>1 DEF Typed, DocType
  <2>4. \A e \in Draft : Open(e)' <=> Open(e) BY <2>3 DEF Open
  <2>5. doc[r.d].code = None BY <1>2, <2>1 DEF Straight
  <2>6. Tagged'
    <3> SUFFICES ASSUME NEW d \in Draft, Open(d)'
                 PROVE  \/ doc'[d].tags.num = IF doc'[d].code = None THEN {} ELSE {doc'[d].code}
                        \/ \E u \in Slot : run'[u].pc \in {"untag", "tag"} /\ run'[u].d = d
      BY DEF Tagged
    <3>1. CASE d = r.d BY <2>2, <2>3, <2>5, <3>1
    <3>2. CASE d # r.d
      <4>1. \A u \in Slot : ~(run[u].pc \in {"untag", "tag"} /\ run[u].d = d) BY <1>3, <3>2
      <4> QED BY <2>3, <2>4, <3>2, <4>1 DEF Live, Tagged
    <3> QED BY <3>1, <3>2
  <2>7. Asked'
    <3>1. t.apply = {} \/ \E c \in Code : t.apply = {c} BY <1>2, <2>1, <2>2 DEF Straight
    <3>2. \A d \in Draft \ {r.d} : Open(d) =>
             doc[d].tags.apply = {} \/ \E c \in Code : /\ doc[d].tags.apply = {c}
                                                       /\ doc[d].code \in {None, c}
      BY DEF Live, Asked
    <3> SUFFICES ASSUME NEW d \in Draft, Open(d)'
                 PROVE  doc'[d].tags.apply = {} \/ \E c \in Code : /\ doc'[d].tags.apply = {c}
                                                                  /\ doc'[d].code \in {None, c}
      BY DEF Asked
    <3>3. CASE d = r.d BY <2>3, <2>5, <3>1, <3>3
    <3>4. CASE d # r.d BY <2>3, <2>4, <3>2, <3>4
    <3> QED BY <3>3, <3>4
  <2>8. \E pc \in {"void", "free", "lookFree"} : Goto(s, pc) \/ Done(s)
    <3>1. r.job \in {"panel", "void", "free"} BY <1>2, <2>1 DEF Fits
    <3>2. r.job # "panel" => r.x # None BY <1>2, <1>6, <2>1 DEF Fits
    <3>3. CASE r.job = "void"
      <4>1. Goto(s, "void") BY <1>2, <1>12, <3>2, <3>3 DEF Untag, Open
      <4> QED BY <4>1
    <3>4. CASE r.job = "free"
      <4>1. Goto(s, "free") BY <1>2, <1>12, <3>2, <3>4 DEF Untag, Open
      <4> QED BY <4>1
    <3>5. CASE r.job = "panel" /\ r.x = None
      <4>1. NextOfRemove(s) BY <1>2, <1>12, <3>5 DEF Untag, Open
      <4> QED BY <1>7, <3>5, <4>1 DEF NextOfRemove
    <3>6. CASE r.job = "panel" /\ r.x # None
      <4>1. Goto(s, "lookFree") BY <1>2, <1>12, <3>6 DEF Untag, Open
      <4> QED BY <4>1
    <3> QED BY <3>1, <3>3, <3>4, <3>5, <3>6
  <2>9. PICK pc \in {"void", "free", "lookFree"} : Goto(s, pc) \/ Done(s) BY <2>8
  <2>10. \/ run'[s].pc = pc /\ run'[s].x = r.x
         \/ run'[s].pc = "idle"
    BY <1>1, <2>9, GotoFacts, DoneFacts
  <2>11. Busy(s)' => Straight(run[s])' BY <1>2, <1>4, <2>1, <2>10 DEF Straight, Busy
  <2> QED BY <1>1, <1>2, <1>3, <1>4, <2>1, <2>3, <2>6, <2>7, <2>11, LiveFrame
<1>13. CASE LookFree(s) \/ Free(s) \/ Void(s)
  <2>1. doc' = doc /\ r.pc \in {"lookFree", "free", "void"} BY <1>13 DEF LookFree, Free, Void
  <2>2. r.x \in Code /\ deducted[r.x] = {} BY <1>2, <1>6, <2>1 DEF Fits, Straight
  <2>3. \/ r.pc = "lookFree" /\ Goto(s, "free") /\ UNCHANGED ledger
        \/ Done(s) /\ (UNCHANGED ledger \/ Reopen(r.x) \/ VoidInstrument(r.x))
    <3>2. r.job # "panel" => r.c = None BY <1>2, <2>1 DEF Fits
    <3>3. NextOfRemove(s) => Done(s) BY <1>7, <3>2 DEF NextOfRemove
    <3> QED BY <1>13, <3>3 DEF LookFree, Free, Void
  <2>4. /\ \A c \in Code \ {r.x} : ledger'[c] = ledger[c]
        /\ \/ ledger'[r.x] = ledger[r.x]
           \/ ledger'[r.x].status \notin {"none", "redeemed"} /\ ledger'[r.x].rule = ledger[r.x].rule
              /\ (ledger'[r.x].status = "open" => ledger'[r.x].draft = None)
    <3>1. ledger[r.x] \in RowType BY <2>2 DEF Typed
    <3>2. CASE Reopen(r.x)
      <4>1. ledger' = [ledger EXCEPT ![r.x] = Reopened(ledger[r.x])] BY <3>2 DEF Typed, Reopen
      <4>2. \/ Reopened(ledger[r.x]) = ledger[r.x]
            \/ /\ Reopened(ledger[r.x]).status = "open" /\ Reopened(ledger[r.x]).draft = None
               /\ Reopened(ledger[r.x]).rule = ledger[r.x].rule
        BY <3>1 DEF Reopened, RowType
      <4> QED BY <2>2, <4>1, <4>2 DEF Typed
    <3>3. CASE VoidInstrument(r.x)
      <4> DEFINE v == [ledger[r.x] EXCEPT !.status = IF @ = "none" THEN @ ELSE "voided"]
      <4>1. ledger' = [ledger EXCEPT ![r.x] = v] BY <3>3 DEF Typed, VoidInstrument
      <4>2. v = ledger[r.x] \/ (v.status = "voided" /\ v.rule = ledger[r.x].rule)
        BY <3>1 DEF RowType
      <4> HIDE DEF v
      <4> QED BY <2>2, <4>1, <4>2 DEF Typed
    <3> QED BY <2>3, <3>2, <3>3
  <2>6. \/ run'[s].pc = "free" /\ run'[s].x = r.x
        \/ run'[s].pc = "idle"
    BY <1>1, <2>3, GotoFacts, DoneFacts
  <2>7. Tagged' BY <1>3, <2>1 DEF Live, Tagged, Open
  <2>8. Asked' BY <2>1 DEF Live, Asked, Open
  <2>9. Busy(s)' => Straight(run[s])' BY <1>2, <1>4, <2>1, <2>2, <2>6 DEF Straight, Busy
  <2>10. \A c \in Code : c \in rule => ledger[c].rule BY DEF Live, Rows
  <2>11. \A c \in Code : \/ ledger'[c] = ledger[c]
                         \/ /\ deducted[c] = {} /\ ledger'[c].status # "redeemed"
                            /\ ledger'[c].status \in {"none", "open"} => ledger'[c].draft = None
                            /\ c \in rule => ledger'[c].rule /\ ledger'[c].status # "none"
    BY <2>2, <2>4, <2>10
  <2> QED BY <1>1, <1>2, <1>3, <1>4, <2>1, <2>7, <2>8, <2>9, <2>11, LiveFrame
<1> QED BY <1>11, <1>12, <1>13

\* A call that writes one draft at most.
LEMMA OneDraftLive ==
  ASSUME Typed, Live, NEW s \in Slot, NEW d0 \in Draft,
         \A t \in Slot \ {s} : run[t].pc = "idle",
         run[s].pc \in {"untag", "tag"} => run[s].d = d0,
         \A e \in Draft \ {d0} : doc'[e] = doc[e],
         \/ doc'[d0].state # "open"
         \/ /\ \/ doc'[d0].tags.num = IF doc'[d0].code = None THEN {} ELSE {doc'[d0].code}
               \/ run'[s].pc \in {"untag", "tag"} /\ run'[s].d = d0
            /\ \/ doc'[d0].tags.apply = {}
               \/ \E c \in Code : doc'[d0].tags.apply = {c} /\ doc'[d0].code \in {None, c}
  PROVE  Tagged' /\ Asked'
<1>1. \A d \in Draft \ {d0} : Open(d) =>
         /\ doc[d].tags.num = IF doc[d].code = None THEN {} ELSE {doc[d].code}
         /\ doc[d].tags.apply = {} \/ \E c \in Code : doc[d].tags.apply = {c} /\ doc[d].code \in {None, c}
  <2> SUFFICES ASSUME NEW d \in Draft \ {d0}, Open(d)
               PROVE  /\ doc[d].tags.num = IF doc[d].code = None THEN {} ELSE {doc[d].code}
                      /\ \/ doc[d].tags.apply = {}
                         \/ \E c \in Code : doc[d].tags.apply = {c} /\ doc[d].code \in {None, c}
    OBVIOUS
  <2>1. ~\E t \in Slot : run[t].pc \in {"untag", "tag"} /\ run[t].d = d OBVIOUS
  <2> QED BY <2>1 DEF Live, Tagged, Asked
<1>2. Tagged'
  <2> SUFFICES ASSUME NEW d \in Draft, doc'[d].state = "open"
               PROVE  \/ doc'[d].tags.num = IF doc'[d].code = None THEN {} ELSE {doc'[d].code}
                      \/ \E u \in Slot : run'[u].pc \in {"untag", "tag"} /\ run'[u].d = d
    BY DEF Tagged, Open
  <2>1. CASE d = d0 BY <2>1
  <2>2. CASE d # d0 BY <1>1, <2>2 DEF Open
  <2> QED BY <2>1, <2>2
<1>3. Asked'
  <2> SUFFICES ASSUME NEW d \in Draft, doc'[d].state = "open"
               PROVE  doc'[d].tags.apply = {} \/ \E c \in Code : /\ doc'[d].tags.apply = {c}
                                                                /\ doc'[d].code \in {None, c}
    BY DEF Asked, Open
  <2>1. CASE d = d0 BY <2>1
  <2>2. CASE d # d0 BY <1>1, <2>2 DEF Open
  <2> QED BY <2>1, <2>2
<1> QED BY <1>2, <1>3

\* The gate refuses what was redeemed, so what goes on was not sold.
LEMMA LookLive ==
  ASSUME Typed, OneBusy, Holds, Live, NEW s \in Slot, Look(s)
  PROVE  Live' /\ Kept
<1> DEFINE r == run[s]
           row == ledger[r.c]
           elsewhere == row.status = "applied" /\ row.draft # r.d
           n == [r EXCEPT !.pc = IF elsewhere THEN "strip" ELSE AfterLook(s),
                          !.x = IF elsewhere THEN row.draft ELSE None, !.rule = row.rule]
<1>1. Busy(s) /\ r.pc = "look" BY DEF Look, Busy
<1>2. /\ r \in Req /\ Fits(r) /\ Coupled(r) /\ Straight(r) /\ r.d \in Draft /\ Open(r.d) /\ r.c \in Code
      /\ r.job \in {"panel", "redeem"}
  BY <1>1 DEF Typed, Holds, Live, Req, Fits, Coupled
<1>3. UNCHANGED <<ledger, rule, hooks, deducted>> BY DEF Look
<1>4. \A t \in Slot \ {s} : run'[t] = run[t] /\ run[t].pc = "idle"
  <2>1. Step(s) BY DEF Step
  <2>2. \A t \in Slot \ {s} : run'[t] = run[t] BY <2>1, OthersStay
  <2>3. \A t \in Slot \ {s} : run[t].pc = "idle" BY <1>1 DEF OneBusy, Busy
  <2> QED BY <2>2, <2>3
<1>5. CASE Refused(s)
  <2>1. Done(s) /\ ((r.job = "panel" /\ FinishTags(s, {})) \/ UNCHANGED doc)
    BY <1>5 DEF Look
  <2>2. run'[s].pc = "idle" BY <1>1, <2>1, DoneFacts
  <2> DEFINE t == [r.tags EXCEPT !.num = @ \cup {}, !.apply = IF r.job = "panel" THEN {} ELSE @]
  <2>3. r.job = "panel" => t.num = doc[r.d].tags.num /\ t.apply = {}
    BY <1>1, <1>2 DEF Coupled, Req, TagsType
  <2>4. UNCHANGED doc \/ (r.job = "panel" /\ doc' = [doc EXCEPT ![r.d].tags = t])
    BY <2>1 DEF FinishTags
  <2> HIDE DEF t
  <2>5. /\ \A e \in Draft : doc'[e].state = doc[e].state /\ doc'[e].code = doc[e].code
        /\ \A e \in Draft \ {r.d} : doc'[e] = doc[e]
        /\ \/ doc'[r.d].tags = doc[r.d].tags
           \/ doc'[r.d].tags.num = doc[r.d].tags.num /\ doc'[r.d].tags.apply = {}
    <3>1. CASE UNCHANGED doc BY <3>1
    <3>2. CASE r.job = "panel" /\ doc' = [doc EXCEPT ![r.d].tags = t]
      BY <1>2, <2>3, <3>2 DEF Typed, DocType
    <3> QED BY <2>4, <3>1, <3>2
  <2>6. doc[r.d].tags.num = IF doc[r.d].code = None THEN {} ELSE {doc[r.d].code}
    <3>1. ~\E u \in Slot : run[u].pc \in {"untag", "tag"} /\ run[u].d = r.d BY <1>1, <1>4
    <3> QED BY <1>2, <3>1 DEF Live, Tagged
  <2>7. doc[r.d].tags.apply = {} \/ \E c \in Code : doc[r.d].tags.apply = {c} /\ doc[r.d].code \in {None, c}
    BY <1>2 DEF Live, Asked
  <2>8. Tagged' /\ Asked'
    <3>1. PICK d0 \in Draft : d0 = r.d BY <1>2
    <3>2. run[s].pc \in {"untag", "tag"} => run[s].d = d0 BY <1>1
    <3>3. \A e \in Draft \ {d0} : doc'[e] = doc[e] BY <2>5, <3>1
    <3>4. doc'[d0].tags.num = IF doc'[d0].code = None THEN {} ELSE {doc'[d0].code}
      BY <2>5, <2>6, <3>1
    <3>5. doc'[d0].tags.apply = {} \/ \E c \in Code : doc'[d0].tags.apply = {c} /\ doc'[d0].code \in {None, c}
      BY <2>5, <2>7, <3>1
    <3>6. \A u \in Slot \ {s} : run[u].pc = "idle" BY <1>4
    <3> QED BY <3>2, <3>3, <3>4, <3>5, <3>6, OneDraftLive
  <2> QED BY <1>1, <1>2, <1>3, <1>4, <2>2, <2>5, <2>8, LiveFrame DEF Busy
<1>6. CASE ~Refused(s)
  <2>1. run' = [run EXCEPT ![s] = n] /\ UNCHANGED doc
    BY <1>6 DEF Typed, Look
  <2>2. /\ n.pc = IF elsewhere THEN "strip" ELSE AfterLook(s)
        /\ n.job = r.job /\ n.d = r.d /\ n.c = r.c /\ n.tags = r.tags
    BY <1>2 DEF Req
  <2> HIDE DEF n
  <2>3. run'[s] = n BY <1>1, <2>1, OneStays
  <2>4. deducted[r.c] = {}
    <3> SUFFICES ASSUME deducted[r.c] # {} PROVE FALSE OBVIOUS
    <3>1. row.status = "redeemed" BY <1>1, <1>2, NoneWaits
    <3>2. row.draft = None \/ ~Open(row.draft) BY <1>2, <3>1 DEF Live, Rows
    <3>3. row.draft # r.d BY <1>2, <3>2, InstrumentsAssumption
    <3> QED BY <1>6, <3>1, <3>3 DEF Refused
  <2>5. Tagged' BY <1>1, <1>4, <2>1 DEF Live, Tagged, Open
  <2>6. Asked' BY <2>1 DEF Live, Asked, Open
  <2>7. Straight(run[s])'
    <3>1. n.pc \in {"strip", "read", "write"} BY <2>2 DEF AfterLook
    <3> QED BY <1>1, <1>2, <1>3, <2>1, <2>2, <2>3, <2>4, <3>1 DEF Straight
  <2> QED BY <1>1, <1>2, <1>3, <1>4, <2>1, <2>5, <2>6, <2>7, LiveFrame
<1> QED BY <1>5, <1>6

LEMMA StripLive ==
  ASSUME Typed, OneBusy, Holds, Live, NEW s \in Slot, Strip(s)
  PROVE  Live' /\ Kept
<1> DEFINE r == run[s]
           n == [r EXCEPT !.pc = AfterLook(s), !.x = None]
<1>1. Busy(s) /\ r.pc = "strip" BY DEF Strip, Busy
<1>2. /\ r \in Req /\ Fits(r) /\ Coupled(r) /\ Straight(r) /\ r.d \in Draft /\ r.x \in Draft /\ r.c \in Code
      /\ r.x # r.d /\ r.job \in {"panel", "redeem"}
  BY <1>1 DEF Typed, Holds, Live, Req, Fits, Coupled
<1>3. UNCHANGED <<ledger, rule, hooks, deducted>> /\ doc' = Stripped(r.x) /\ run' = [run EXCEPT ![s] = n]
  BY DEF Strip, Typed
<1>4. \A t \in Slot \ {s} : run'[t] = run[t] /\ run[t].pc = "idle"
  <2>1. Step(s) BY DEF Step
  <2>2. \A t \in Slot \ {s} : run'[t] = run[t] BY <2>1, OthersStay
  <2>3. \A t \in Slot \ {s} : run[t].pc = "idle" BY <1>1 DEF OneBusy, Busy
  <2> QED BY <2>2, <2>3
<1>5. n.pc = AfterLook(s) /\ n.job = r.job /\ n.d = r.d /\ n.c = r.c /\ n.tags = r.tags
  BY <1>2 DEF Req
<1> HIDE DEF n
<1>6. run'[s] = n BY <1>1, <1>3, OneStays
<1>7. /\ \A e \in Draft : doc'[e].state = doc[e].state
      /\ \A e \in Draft \ {r.x} : doc'[e] = doc[e]
      /\ ~Open(r.x) => doc'[r.x] = doc[r.x]
      /\ Open(r.x) => /\ doc'[r.x].code = None /\ doc'[r.x].tags.num = {}
                      /\ doc'[r.x].tags.apply = doc[r.x].tags.apply
  BY <1>2, <1>3, StrippedFacts
<1>8. \/ doc'[r.x].state # "open"
      \/ /\ doc'[r.x].tags.num = IF doc'[r.x].code = None THEN {} ELSE {doc'[r.x].code}
         /\ \/ doc'[r.x].tags.apply = {}
            \/ \E c \in Code : doc'[r.x].tags.apply = {c} /\ doc'[r.x].code \in {None, c}
  <2>1. CASE Open(r.x)
    <3>1. doc[r.x].tags.apply = {} \/ \E c \in Code : doc[r.x].tags.apply = {c}
      BY <1>2, <2>1 DEF Live, Asked
    <3> QED BY <1>7, <2>1, <3>1
  <2>2. CASE ~Open(r.x) BY <1>7, <2>2 DEF Open
  <2> QED BY <2>1, <2>2
<1>9. Tagged' /\ Asked'
  <2>1. PICK d0 \in Draft : d0 = r.x BY <1>2
  <2>2. run[s].pc \notin {"untag", "tag"} BY <1>1
  <2>3. \A e \in Draft \ {d0} : doc'[e] = doc[e] BY <1>7, <2>1
  <2>4. \/ doc'[d0].state # "open"
        \/ /\ doc'[d0].tags.num = IF doc'[d0].code = None THEN {} ELSE {doc'[d0].code}
           /\ \/ doc'[d0].tags.apply = {}
              \/ \E c \in Code : doc'[d0].tags.apply = {c} /\ doc'[d0].code \in {None, c}
    BY <1>8, <2>1
  <2>5. \A t \in Slot \ {s} : run[t].pc = "idle" BY <1>4
  <2> QED BY <2>2, <2>3, <2>4, <2>5, OneDraftLive
<1>10. Straight(run[s])'
  <2>1. n.pc \in {"read", "write"} BY <1>5 DEF AfterLook
  <2>2. doc'[r.d] = doc[r.d] BY <1>2, <1>7
  <2> QED BY <1>1, <1>2, <1>3, <1>5, <1>6, <2>1, <2>2 DEF Straight
<1>11. \A e \in Draft : doc'[e].code \in {None, doc[e].code} BY <1>7
<1> QED BY <1>1, <1>2, <1>3, <1>4, <1>7, <1>9, <1>10, <1>11, LiveFrame

\* What staff asked for meets no other code, and its tag follows it.
LEMMA PutOnLive ==
  ASSUME Typed, OneBusy, Holds, Live, NEW s \in Slot, Read(s) \/ WriteCode(s) \/ WriteTags(s)
  PROVE  Live' /\ Kept
<1> DEFINE r == run[s]
           t == [r.tags EXCEPT !.num = @ \cup {r.c}, !.apply = IF r.job = "panel" THEN {} ELSE @]
<1>1. Busy(s) /\ r.pc \in {"read", "write", "tag"} BY DEF Read, WriteCode, WriteTags, Busy
<1>2. /\ r \in Req /\ Fits(r) /\ Coupled(r) /\ Straight(r) /\ r.d \in Draft /\ Open(r.d) /\ r.c \in Code
      /\ r.job \in {"panel", "redeem", "note"} /\ deducted[r.c] = {}
  <2>1. r \in Req /\ Fits(r) /\ Coupled(r) /\ Straight(r) BY <1>1 DEF Typed, Holds, Live
  <2>2. r.d \in Draft /\ r.c \in Code /\ r.job \in {"panel", "redeem", "note"}
    BY <1>1, <2>1, InstrumentsAssumption DEF Req, Fits, Job
  <2>3. Open(r.d) BY <2>1, <2>2 DEF Coupled
  <2>4. deducted[r.c] = {}
    <3>1. CASE r.pc = "read" BY <2>1, <2>2, <3>1 DEF Straight
    <3>2. CASE r.pc \in {"write", "tag"} BY <2>1, <2>2, <3>2 DEF Straight
    <3> QED BY <1>1, <3>1, <3>2
  <2> QED BY <2>1, <2>2, <2>3, <2>4
<1>3. UNCHANGED <<ledger, rule, hooks, deducted>> BY DEF Read, WriteCode, WriteTags
<1>4. \A u \in Slot \ {s} : run'[u] = run[u] /\ run[u].pc = "idle"
  <2>1. Step(s) BY DEF Step
  <2>2. \A u \in Slot \ {s} : run'[u] = run[u] BY <2>1, OthersStay
  <2>3. \A u \in Slot \ {s} : run[u].pc = "idle" BY <1>1 DEF OneBusy, Busy
  <2> QED BY <2>2, <2>3
<1>5. None \notin Code BY InstrumentsAssumption
<1>6. /\ r.tags.num \subseteq {r.c}
      /\ IF r.job = "panel" THEN doc[r.d].tags.apply = {r.c}
         ELSE r.tags.apply = {} /\ doc[r.d].tags.apply = {}
  BY <1>1, <1>2 DEF Straight
<1>7. t.num = {r.c} /\ t.apply = {} BY <1>2, <1>6 DEF Req, TagsType
<1> HIDE DEF t
<1>8. PICK d0 \in Draft : d0 = r.d BY <1>2
<1>9. run[s].pc \in {"untag", "tag"} => run[s].d = d0 BY <1>8
<1>10. \A u \in Slot \ {s} : run[u].pc = "idle" BY <1>4
<1>11. CASE Read(s)
  <2>1. r.pc = "read" BY <1>11 DEF Read
  <2>2. \E c \in Code : doc[r.d].tags.apply = {c} /\ doc[r.d].code \in {None, c}
    BY <1>2, <1>6, <2>1 DEF Live, Asked, Fits
  <2>3. doc[r.d].code \in {None, r.c} BY <1>2, <1>6, <2>1, <2>2 DEF Fits
  <2>4. CASE doc[r.d].code = r.c
    <3>1. FinishTags(s, {r.c}) /\ Done(s) BY <1>2, <1>5, <1>11, <2>4 DEF Read, Open
    <3>2. run'[s].pc = "idle" BY <1>1, <3>1, DoneFacts
    <3>3. doc' = [doc EXCEPT ![r.d].tags = t] BY <3>1 DEF FinishTags, t
    <3>4. /\ \A e \in Draft : doc'[e].state = doc[e].state /\ doc'[e].code = doc[e].code
          /\ doc'[r.d].tags = t /\ \A e \in Draft \ {r.d} : doc'[e] = doc[e]
      BY <1>2, <3>3 DEF Typed, DocType
    <3>5. \A e \in Draft \ {d0} : doc'[e] = doc[e] BY <1>8, <3>4
    <3>6. /\ doc'[d0].tags.num = IF doc'[d0].code = None THEN {} ELSE {doc'[d0].code}
          /\ doc'[d0].tags.apply = {}
      BY <1>2, <1>5, <1>7, <1>8, <2>4, <3>4
    <3>7. Tagged' /\ Asked' BY <1>9, <1>10, <3>5, <3>6, OneDraftLive
    <3> QED BY <1>1, <1>2, <1>3, <1>4, <2>1, <3>2, <3>4, <3>7, LiveFrame DEF Busy
  <2>5. CASE doc[r.d].code = None
    <3>1. Goto(s, "write") /\ UNCHANGED doc BY <1>2, <1>5, <1>11, <2>5 DEF Read, Open
    <3>2. run'[s].pc = "write" /\ run'[s].job = r.job /\ run'[s].d = r.d /\ run'[s].c = r.c /\ run'[s].tags = r.tags
      BY <1>1, <3>1, GotoFacts
    <3>3. Tagged' BY <1>4, <2>1, <3>1 DEF Live, Tagged, Open
    <3>4. Asked' BY <3>1 DEF Live, Asked, Open
    <3>5. Straight(run[s])' BY <1>2, <1>3, <1>6, <3>1, <3>2 DEF Straight
    <3> QED BY <1>1, <1>2, <1>3, <1>4, <2>1, <3>1, <3>3, <3>4, <3>5, LiveFrame
  <2> QED BY <2>3, <2>4, <2>5
<1>12. CASE WriteCode(s)
  <2>1. doc' = [doc EXCEPT ![r.d].code = r.c] /\ Goto(s, "tag") /\ r.pc = "write"
    BY <1>2, <1>12 DEF WriteCode, Open
  <2>2. run'[s].pc = "tag" /\ run'[s].job = r.job /\ run'[s].d = r.d /\ run'[s].c = r.c /\ run'[s].tags = r.tags
    BY <1>1, <2>1, GotoFacts
  <2>3. /\ \A e \in Draft : doc'[e].state = doc[e].state /\ doc'[e].tags = doc[e].tags
        /\ doc'[r.d].code = r.c /\ \A e \in Draft \ {r.d} : doc'[e] = doc[e]
    BY <1>2, <2>1 DEF Typed, DocType
  <2>4. \A e \in Draft \ {d0} : doc'[e] = doc[e] BY <1>8, <2>3
  <2>5. run'[s].pc \in {"untag", "tag"} /\ run'[s].d = d0 BY <1>8, <2>2
  <2>6. doc'[d0].tags.apply = {} \/ \E c \in Code : doc'[d0].tags.apply = {c} /\ doc'[d0].code \in {None, c}
    BY <1>2, <1>6, <1>8, <2>3
  <2>7. Tagged' /\ Asked' BY <1>9, <1>10, <2>4, <2>5, <2>6, OneDraftLive
  <2>8. Straight(run[s])' BY <1>2, <1>3, <1>6, <2>2, <2>3 DEF Straight
  <2> QED BY <1>1, <1>2, <1>3, <1>4, <2>1, <2>3, <2>7, <2>8, LiveFrame
<1>13. CASE WriteTags(s)
  <2> DEFINE pc == IF r.job = "note" THEN "issue" ELSE "apply"
  <2>1. doc' = [doc EXCEPT ![r.d].tags = t] /\ Goto(s, pc) /\ r.pc = "tag"
    BY <1>2, <1>13 DEF WriteTags, FinishTags, Open, t
  <2>2. run'[s].pc = pc /\ run'[s].job = r.job /\ run'[s].d = r.d /\ run'[s].c = r.c /\ run'[s].tags = r.tags
    BY <1>1, <2>1, GotoFacts
  <2>3. /\ \A e \in Draft : doc'[e].state = doc[e].state /\ doc'[e].code = doc[e].code
        /\ doc'[r.d].tags = t /\ \A e \in Draft \ {r.d} : doc'[e] = doc[e]
    BY <1>2, <2>1 DEF Typed, DocType
  <2>4. \A e \in Draft \ {d0} : doc'[e] = doc[e] BY <1>8, <2>3
  <2>5. doc[r.d].code = r.c BY <1>2, <2>1 DEF Coupled
  <2>6. /\ doc'[d0].tags.num = IF doc'[d0].code = None THEN {} ELSE {doc'[d0].code}
        /\ doc'[d0].tags.apply = {}
    BY <1>2, <1>5, <1>7, <1>8, <2>3, <2>5
  <2>7. Tagged' /\ Asked' BY <1>9, <1>10, <2>4, <2>6, OneDraftLive
  <2>8. Straight(run[s])' BY <1>2, <1>3, <2>2 DEF Straight
  <2> QED BY <1>1, <1>2, <1>3, <1>4, <2>1, <2>3, <2>7, <2>8, LiveFrame
<1> QED BY <1>11, <1>12, <1>13

LEMMA LedgerStepLive ==
  ASSUME Typed, OneBusy, Holds, Live, NEW s \in Slot,
         IssueNote(s) \/ ApplyLedger(s) \/ (DeletePriceRule(s) /\ run[s].job # "convert")
  PROVE  Live' /\ Kept
<1> DEFINE r == run[s]
<1>1. Busy(s) /\ r.pc \in {"issue", "apply", "rule"} BY DEF IssueNote, ApplyLedger, DeletePriceRule, Busy
<1>2. /\ r \in Req /\ Fits(r) /\ Straight(r) /\ r.d \in Draft /\ r.c \in Code /\ r.job # "convert"
      /\ r.pc # "rule" => deducted[r.c] = {}
  <2>1. r \in Req /\ Fits(r) /\ Straight(r) BY <1>1 DEF Typed, Live
  <2>2. r.d \in Draft /\ r.c \in Code /\ r.job # "convert"
    BY <1>1, <2>1 DEF Req, Fits, IssueNote, ApplyLedger
  <2> QED BY <1>1, <2>1, <2>2 DEF Straight
<1>3. UNCHANGED <<doc, hooks, deducted>> BY DEF IssueNote, ApplyLedger, DeletePriceRule
<1>4. \A u \in Slot \ {s} : run'[u] = run[u] /\ run[u].pc = "idle"
  <2>1. Step(s) BY DEF Step
  <2>2. \A u \in Slot \ {s} : run'[u] = run[u] BY <2>1, OthersStay
  <2>3. \A u \in Slot \ {s} : run[u].pc = "idle" BY <1>1 DEF OneBusy, Busy
  <2> QED BY <2>2, <2>3
<1>5. Tagged' BY <1>1, <1>3, <1>4 DEF Live, Tagged, Open
<1>6. Asked' BY <1>3 DEF Live, Asked, Open
<1>7. \A c \in Code : c \in rule => ledger[c].rule /\ ledger[c].status # "none" BY DEF Live, Rows
<1>8. \A c \in Code : ledger[c].status = "none" => ledger[c].draft = None BY DEF Live, Rows
<1>11. CASE IssueNote(s)
  <2>1. rule' = rule /\ r.pc = "issue" /\ Goto(s, "apply") BY <1>11 DEF IssueNote
  <2>2. run'[s].pc = "apply" /\ run'[s].job = r.job /\ run'[s].d = r.d /\ run'[s].c = r.c
    BY <1>1, <2>1, GotoFacts
  <2>3. \A c \in Code : \/ ledger'[c] = ledger[c]
                        \/ /\ c = r.c /\ ledger[c].status = "none"
                           /\ ledger'[c].status = "open" /\ ledger'[c].draft = ledger[c].draft
    <3>1. UpsertIssued(r.c, FALSE) BY <1>11 DEF IssueNote
    <3>2. CASE ledger[r.c].status = "none"
      <4> DEFINE v == [ledger[r.c] EXCEPT !.status = "open", !.rule = FALSE]
      <4>1. ledger' = [ledger EXCEPT ![r.c] = v] BY <1>2, <3>1, <3>2 DEF UpsertIssued, Typed, RowType
      <4>2. v.status = "open" /\ v.draft = ledger[r.c].draft BY <1>2 DEF Typed, RowType
      <4> HIDE DEF v
      <4> QED BY <1>2, <3>2, <4>1, <4>2 DEF Typed
    <3>3. CASE ledger[r.c].status # "none" BY <3>1, <3>3 DEF UpsertIssued
    <3> QED BY <3>2, <3>3
  <2>4. Straight(run[s])' BY <1>2, <1>3, <2>1, <2>2 DEF Straight
  <2>5. \A c \in Code : \/ ledger'[c] = ledger[c]
                         \/ /\ deducted[c] = {} /\ ledger'[c].status # "redeemed"
                            /\ ledger'[c].status \in {"none", "open"} => ledger'[c].draft = None
                            /\ c \in rule => ledger'[c].rule /\ ledger'[c].status # "none"
    BY <1>2, <1>7, <1>8, <2>1, <2>3
  <2> QED BY <1>1, <1>2, <1>3, <1>4, <1>5, <1>6, <2>1, <2>4, <2>5, LiveFrame
<1>12. CASE ApplyLedger(s)
  <2>1. rule' = rule /\ r.pc = "apply" /\ Apply(r.c, r.d) BY <1>12 DEF ApplyLedger
  <2>2. Goto(s, "rule") \/ Done(s) BY <1>12 DEF ApplyLedger
  <2>3. \/ run'[s].pc = "rule" /\ run'[s].job = r.job /\ run'[s].d = r.d /\ run'[s].c = r.c
        \/ run'[s].pc = "idle"
    BY <1>1, <2>2, GotoFacts, DoneFacts
  <2>4. \A c \in Code : \/ ledger'[c] = ledger[c]
                        \/ c = r.c /\ ledger'[c].status = "applied" /\ ledger'[c].rule = ledger[c].rule
    <3> DEFINE v == [ledger[r.c] EXCEPT !.status = "applied", !.draft = r.d]
    <3>1. ledger' = [ledger EXCEPT ![r.c] = v] BY <1>2, <2>1 DEF Apply, Typed, RowType
    <3>2. v.status = "applied" /\ v.rule = ledger[r.c].rule BY <1>2 DEF Typed, RowType
    <3> HIDE DEF v
    <3> QED BY <1>2, <3>1, <3>2 DEF Typed
  <2>5. Busy(s)' => Straight(run[s])' BY <1>2, <1>3, <2>1, <2>3 DEF Straight, Busy
  <2>6. \A c \in Code : \/ ledger'[c] = ledger[c]
                         \/ /\ deducted[c] = {} /\ ledger'[c].status # "redeemed"
                            /\ ledger'[c].status \in {"none", "open"} => ledger'[c].draft = None
                            /\ c \in rule => ledger'[c].rule /\ ledger'[c].status # "none"
    BY <1>2, <1>7, <2>1, <2>4
  <2> QED BY <1>1, <1>2, <1>3, <1>4, <1>5, <1>6, <2>1, <2>5, <2>6, LiveFrame
<1>13. CASE DeletePriceRule(s)
  <2>1. rule' = rule \ {r.c} /\ ledger' = ledger /\ Done(s) BY <1>13 DEF DeletePriceRule
  <2>2. run'[s].pc = "idle" BY <1>1, <2>1, DoneFacts
  <2> QED BY <1>1, <1>2, <1>3, <1>4, <1>5, <1>6, <2>1, <2>2, LiveFrame DEF Busy
<1> QED BY <1>11, <1>12, <1>13

\* The sale reaches the ledger: the order's code is redeemed, then its rule goes.
LEMMA ConvertLive ==
  ASSUME Typed, OneBusy, Holds, Live, NEW s \in Slot,
         LockLook(s) \/ RedeemOnOrder(s) \/ (DeletePriceRule(s) /\ run[s].job = "convert")
  PROVE  Live' /\ Kept
<1> DEFINE r == run[s]
<1>1. Busy(s) /\ r.pc \in {"lock", "redeem", "rule"} BY DEF LockLook, RedeemOnOrder, DeletePriceRule, Busy
<1>2. r \in Req /\ Fits(r) /\ Coupled(r) /\ Straight(r) /\ r.d \in Draft /\ r.c \in Code /\ r.job = "convert"
      /\ ~Open(r.d)
  <2>1. r \in Req /\ Fits(r) /\ Coupled(r) /\ Straight(r) BY <1>1 DEF Typed, Holds, Live
  <2>2. r.d \in Draft /\ r.c \in Code /\ r.job = "convert"
    BY <1>1, <2>1 DEF Req, Fits, LockLook, RedeemOnOrder
  <2> QED BY <2>1, <2>2 DEF Coupled
<1>3. UNCHANGED <<doc, hooks, deducted>> BY DEF LockLook, RedeemOnOrder, DeletePriceRule
<1>4. \A u \in Slot \ {s} : run'[u] = run[u] /\ run[u].pc = "idle"
  <2>1. Step(s) BY DEF Step
  <2>2. \A u \in Slot \ {s} : run'[u] = run[u] BY <2>1, OthersStay
  <2>3. \A u \in Slot \ {s} : run[u].pc = "idle" BY <1>1 DEF OneBusy, Busy
  <2> QED BY <2>2, <2>3
<1>5. run'[s].pc # "idle" => run'[s].job = "convert" /\ run'[s].c = r.c
  <2>1. Step(s) BY DEF Step
  <2> QED BY <1>2, <2>1, OthersStay
<1>6. Tagged'
  <2>1. \A u \in Slot : run[u].pc \notin {"untag", "tag"} BY <1>1, <1>4
  <2> QED BY <1>3, <2>1 DEF Live, Tagged, Open
<1>7. Asked' BY <1>3 DEF Live, Asked, Open
<1>8. HooksSold' BY <1>3, <1>4, <1>5 DEF Live, HooksSold, Busy
<1>9. \A c \in Code : Loose(c)' <=> Loose(c) BY <1>3 DEF Loose, Open
<1>10. \A t \in Slot \ {s} : ~Busy(t)' BY <1>4 DEF Busy
<1>11. CASE LockLook(s)
  <2> DEFINE row == ledger[r.c]
             n == [r EXCEPT !.pc = "redeem", !.rule = row.rule]
  <2>1. r.pc = "lock" /\ UNCHANGED <<ledger, rule>> BY <1>11 DEF LockLook
  <2>2. deducted[r.c] = {r.d} BY <1>2, <2>1 DEF Straight
  <2>3. Settling(r.c, r.d) BY <1>2, <2>2 DEF Live, Sales
  <2>4. row.status # "none" /\ ~(row.status = "redeemed" /\ row.order # r.d) BY <2>3 DEF Settling
  <2>5. run' = [run EXCEPT ![s] = n] BY <1>11, <2>4 DEF LockLook, Typed
  <2>6. n.pc = "redeem" /\ n.rule = row.rule /\ n.c = r.c /\ n.d = r.d /\ n.job = "convert" BY <1>2 DEF Req
  <2> HIDE DEF n
  <2>7. run'[s] = n BY <1>1, <2>5, OneStays
  <2>8. Straight(run[s])' BY <1>2, <1>3, <2>1, <2>2, <2>6, <2>7 DEF Straight
  <2>9. Sales'
    <3>1. \A c \in Code : \A o : Settling(c, o) => Settling(c, o)'
      BY <1>3, <1>4, <2>1, <2>6, <2>7, SlotsApart DEF Settling
    <3> QED BY <1>3, <1>9, <2>1, <3>1 DEF Live, Sales
  <2>10. Rows' BY <1>1, <1>3, <1>4, <2>1 DEF Live, Rows, Open
  <2> QED BY <1>6, <1>7, <1>8, <1>10, <2>1, <2>8, <2>9, <2>10 DEF Live, Kept
<1>12. CASE RedeemOnOrder(s)
  <2> DEFINE v == [ledger[r.c] EXCEPT !.status = "redeemed", !.order = r.d, !.draft = r.d]
  <2>1. r.pc = "redeem" /\ rule' = rule BY <1>12 DEF RedeemOnOrder
  <2>2. r.d # None BY <1>2, InstrumentsAssumption
  <2>3. ledger' = [ledger EXCEPT ![r.c] = v]
    BY <1>2, <1>12, <2>2 DEF RedeemOnOrder, Redeem, Typed, RowType
  <2>4. v.status = "redeemed" /\ v.order = r.d /\ v.draft = r.d /\ v.rule = ledger[r.c].rule
    BY <1>2 DEF Typed, RowType
  <2> HIDE DEF v
  <2>5. ledger'[r.c] = v /\ \A c \in Code \ {r.c} : ledger'[c] = ledger[c] BY <1>2, <2>3 DEF Typed
  <2>6. deducted[r.c] = {r.d} /\ r.rule = ledger[r.c].rule BY <1>2, <2>1 DEF Straight
  <2>7. \/ r.rule /\ run'[s].pc = "rule" /\ run'[s].c = r.c
        \/ ~r.rule /\ run'[s].pc = "idle"
    <3>1. CASE r.rule
      <4>1. Goto(s, "rule") BY <1>12, <3>1 DEF RedeemOnOrder
      <4> QED BY <1>1, <3>1, <4>1, GotoFacts
    <3>2. CASE ~r.rule
      <4>1. Done(s) BY <1>12, <3>2 DEF RedeemOnOrder
      <4> QED BY <1>1, <3>2, <4>1, DoneFacts
    <3> QED BY <3>1, <3>2
  <2>8. Busy(s)' => Straight(run[s])' BY <1>5, <2>7 DEF Straight, Busy
  <2>9. Sales'
    <3> SUFFICES ASSUME NEW c \in Code
                 PROVE  \/ deducted[c] = {} /\ ledger'[c].status # "redeemed"
                        \/ \E o \in deducted[c] : deducted[c] = {o} /\ Loose(c) /\ Settling(c, o)'
      BY <1>3, <1>9 DEF Sales, Settling
    <3>1. CASE c = r.c
      <4>1. PICK o : o = r.d OBVIOUS
      <4>2. Settling(c, o)' BY <2>4, <2>5, <3>1, <4>1 DEF Settling
      <4>3. Loose(c) BY <1>2, <2>6, <3>1 DEF Live, Sales
      <4> QED BY <2>6, <3>1, <4>1, <4>2, <4>3
    <3>2. CASE c # r.c
      <4>1. \A o : Settling(c, o) => Settling(c, o)'
        BY <1>3, <1>4, <2>1, <2>5, <3>2, SlotsApart DEF Settling
      <4> QED BY <2>5, <3>2, <4>1 DEF Live, Sales
    <3> QED BY <3>1, <3>2
  <2>10. Rows'
    <3> SUFFICES ASSUME NEW c \in Code
                 PROVE  /\ ledger'[c].status \in {"none", "open"} => ledger'[c].draft = None
                        /\ ledger'[c].status = "redeemed" =>
                              ledger'[c].draft = None \/ doc[ledger'[c].draft].state # "open"
                        /\ c \in rule => ledger'[c].rule /\ ledger'[c].status # "none"
                        /\ c \in rule /\ ledger'[c].status = "redeemed" =>
                              \E t \in Slot : run'[t].pc = "rule" /\ run'[t].c = c
      BY <1>3, <2>1 DEF Rows, Open
    <3>1. CASE c = r.c
      <4>1. c \in rule => ledger[c].rule BY DEF Live, Rows
      <4> QED BY <1>2, <2>4, <2>5, <2>6, <2>7, <3>1, <4>1 DEF Open
    <3>2. CASE c # r.c
      <4>1. \A t \in Slot : run[t].pc # "rule" BY <1>4, <2>1
      <4> QED BY <2>5, <3>2, <4>1 DEF Live, Rows, Open
    <3> QED BY <3>1, <3>2
  <2>11. Kept BY <2>4, <2>5 DEF Kept
  <2> QED BY <1>6, <1>7, <1>8, <1>10, <2>8, <2>9, <2>10, <2>11 DEF Live
<1>13. CASE DeletePriceRule(s)
  <2>1. r.pc = "rule" /\ rule' = rule \ {r.c} /\ ledger' = ledger /\ Done(s) BY <1>13 DEF DeletePriceRule
  <2>2. run'[s].pc = "idle" BY <1>1, <2>1, DoneFacts
  <2>3. Sales'
    <3>1. run[Hook].pc \notin {"lock", "redeem"} BY <1>4, <2>1, SlotsApart
    <3>2. ASSUME NEW c \in Code, NEW o, Settling(c, o) PROVE Settling(c, o)'
      <4>1. CASE ledger[c].status = "redeemed" /\ ledger[c].order = o BY <2>1, <4>1 DEF Settling
      <4>2. CASE /\ ledger[c].status = "open" /\ c \notin rule
                 /\ \E h \in hooks : h.kind = "online" /\ h.d = o /\ h.c = c
        BY <1>3, <2>1, <4>2 DEF Settling
      <4>3. CASE /\ ledger[c].status = "applied" /\ ledger[c].draft = o /\ doc[o].state = "completed"
                 /\ \E h \in hooks : h.kind = "completed" /\ h.d = o /\ h.tags.num = {c}
        BY <1>3, <2>1, <4>3 DEF Settling
      <4> QED BY <3>1, <3>2, <4>1, <4>2, <4>3 DEF Settling
    <3> QED BY <1>3, <1>9, <2>1, <3>2 DEF Live, Sales
  <2>4. Rows'
    <3> SUFFICES ASSUME NEW c \in Code
                 PROVE  /\ ledger[c].status \in {"none", "open"} => ledger[c].draft = None
                        /\ ledger[c].status = "redeemed" =>
                              ledger[c].draft = None \/ doc[ledger[c].draft].state # "open"
                        /\ c \in rule' => ledger[c].rule /\ ledger[c].status # "none"
                        /\ c \in rule' => ledger[c].status # "redeemed"
      BY <1>3, <2>1 DEF Rows, Open
    <3>1. c \in rule' => c \in rule /\ c # r.c BY <2>1
    <3>2. c # r.c => ~\E t \in Slot : run[t].pc = "rule" /\ run[t].c = c BY <1>4
    <3> QED BY <3>1, <3>2 DEF Live, Rows, Open
  <2> QED BY <1>6, <1>7, <1>8, <1>10, <2>1, <2>2, <2>3, <2>4 DEF Live, Kept, Busy
<1> QED BY <1>11, <1>12, <1>13

\* No code is swapped and nothing of another code released.
LEMMA StepLive ==
  ASSUME Typed, OneBusy, Holds, Live, NEW s \in Slot, Step(s)
  PROVE  Live' /\ Kept
<1>1. ~Swap(s) /\ ~Release(s)
  <2>1. Busy(s) => Straight(run[s]) BY DEF Live
  <2> QED BY <2>1 DEF Swap, Release, Straight, Busy
<1>2. DeletePriceRule(s) => Live' /\ Kept BY LedgerStepLive, ConvertLive
<1> QED BY <1>1, <1>2, TakingOffLive, LookLive, StripLive, PutOnLive, LedgerStepLive, ConvertLive DEF Step

\* With no request under way a sale is in its webhook or in the ledger.
LEMMA QuietSales ==
  ASSUME Live, Quiet, NEW c \in Code
  PROVE  /\ \/ deducted[c] = {} /\ ledger[c].status # "redeemed"
            \/ \E o \in deducted[c] :
                  /\ deducted[c] = {o} /\ Loose(c)
                  /\ \/ ledger[c].status = "redeemed" /\ ledger[c].order = o
                     \/ /\ ledger[c].status = "open" /\ c \notin rule
                        /\ \E h \in hooks : h.kind = "online" /\ h.d = o /\ h.c = c
                     \/ /\ ledger[c].status = "applied" /\ ledger[c].draft = o /\ doc[o].state = "completed"
                        /\ \E h \in hooks : h.kind = "completed" /\ h.d = o /\ h.tags.num = {c}
         /\ c \in rule => ledger[c].rule /\ ledger[c].status \notin {"none", "redeemed"}
<1>1. \A s \in Slot : run[s].pc = "idle" BY DEF Quiet, Busy
<1>2. c \in rule => ledger[c].rule /\ ledger[c].status # "none" BY DEF Live, Rows
<1>3. ~(c \in rule /\ ledger[c].status = "redeemed")
  <2>1. ~\E s \in Slot : run[s].pc = "rule" /\ run[s].c = c BY <1>1
  <2> QED BY <2>1 DEF Live, Rows
<1>4. \/ deducted[c] = {} /\ ledger[c].status # "redeemed"
      \/ \E o \in deducted[c] : deducted[c] = {o} /\ Loose(c) /\ Settling(c, o)
  BY DEF Live, Sales
<1>5. run[Hook].pc = "idle" BY <1>1, SlotsApart
<1> QED BY <1>2, <1>3, <1>4, <1>5 DEF Settling

\* Between requests a tag names what its draft holds.
LEMMA QuietTags ==
  ASSUME Live, Quiet, NEW d \in Draft, Open(d)
  PROVE  /\ doc[d].tags.num = IF doc[d].code = None THEN {} ELSE {doc[d].code}
         /\ doc[d].tags.apply = {} \/ \E c \in Code : doc[d].tags.apply = {c} /\ doc[d].code \in {None, c}
<1>1. ~\E s \in Slot : run[s].pc \in {"untag", "tag"} /\ run[s].d = d BY DEF Quiet, Busy
<1> QED BY <1>1 DEF Live, Tagged, Asked

LEMMA AskLive ==
  ASSUME Typed, Holds, Live, Prompt, NEW d \in Draft,
         AskRemove(d) \/ Delete(d) \/ \E c \in Code : AskApply(d, c)
  PROVE  Live' /\ Kept
<1>1. /\ Quiet /\ Open(d) /\ UNCHANGED <<ledger, rule, run, deducted>> /\ doc[d] \in DocType
      /\ doc \in [Draft -> DocType]
  BY PromptFacts DEF AskRemove, Delete, AskApply, Untouched, Open, Typed, Trouble
<1>2. /\ \A h \in hooks : h \in hooks'
      /\ \A h \in hooks' : h \in hooks \/ h.kind = "deleted"
      /\ \A e \in Draft \ {d} : doc'[e] = doc[e]
      /\ doc'[d].state # "completed"
      /\ doc'[d].state = "open" =>
           /\ doc'[d].code = doc[d].code /\ doc'[d].tags.num = doc[d].tags.num
           /\ \/ doc'[d].tags.apply = doc[d].tags.apply
              \/ \E c \in Code : doc'[d].tags.apply = {c} /\ doc[d].code \in {None, c}
  <2>1. CASE AskRemove(d)
    <3> DEFINE v == [doc[d].tags EXCEPT !.remove = TRUE]
    <3>1. v \in Asking /\ v.num = doc[d].tags.num /\ v.apply = doc[d].tags.apply
      BY <1>1 DEF DocType, TagsType, Asking
    <3>2. Edited(d, v) /\ hooks' = hooks BY <2>1 DEF AskRemove
    <3> HIDE DEF v
    <3> QED BY <1>1, <3>1, <3>2, EditWrites DEF Open
  <2>2. CASE Delete(d)
    <3> DEFINE h == [kind |-> "deleted", d |-> d]
               v == [doc[d] EXCEPT !.state = "gone", !.code = None, !.tags = NoTags]
    <3>1. doc' = [doc EXCEPT ![d] = v] /\ hooks' = hooks \cup {h}
      BY <1>1, <2>2 DEF Delete
    <3>2. h.kind = "deleted" /\ v.state = "gone" BY <1>1 DEF DocType
    <3> HIDE DEF h, v
    <3> QED BY <1>1, <3>1, <3>2
  <2>3. CASE \E c \in Code : AskApply(d, c)
    <3>1. PICK c \in Code : AskApply(d, c) BY <2>3
    <3> DEFINE v == [doc[d].tags EXCEPT !.apply = {c}]
    <3>2. v \in Asking /\ v.num = doc[d].tags.num /\ v.apply = {c}
      BY <1>1 DEF DocType, TagsType, Asking
    <3>3. Edited(d, v) /\ hooks' = hooks BY <3>1 DEF AskApply
    <3>4. doc[d].code \in {None, c} BY <3>1, PromptFacts DEF AskApply, Trouble
    <3> HIDE DEF v
    <3> QED BY <1>1, <3>2, <3>3, <3>4, EditWrites DEF Open
  <2> QED BY <2>1, <2>2, <2>3
<1>3. \A e \in Draft : Open(e)' => Open(e) /\ doc'[e].code = doc[e].code BY <1>1, <1>2 DEF Open
<1>4. \A c : Loose(c) => Loose(c)' BY <1>3 DEF Loose
<1>5. \A s \in Slot : ~Busy(s)' BY <1>1 DEF Quiet, Busy
<1>6. Sales'
  <2> SUFFICES ASSUME NEW c \in Code
               PROVE  \/ deducted[c] = {} /\ ledger[c].status # "redeemed"
                      \/ \E o \in deducted[c] : deducted[c] = {o} /\ Loose(c)' /\ Settling(c, o)'
    BY <1>1 DEF Sales, Loose, Settling
  <2>1. CASE deducted[c] = {} BY <1>1, <2>1, QuietSales
  <2>2. CASE deducted[c] # {}
    <3>1. PICK o \in deducted[c] :
                  /\ deducted[c] = {o} /\ Loose(c)
                  /\ \/ ledger[c].status = "redeemed" /\ ledger[c].order = o
                     \/ /\ ledger[c].status = "open" /\ c \notin rule
                        /\ \E h \in hooks : h.kind = "online" /\ h.d = o /\ h.c = c
                     \/ /\ ledger[c].status = "applied" /\ ledger[c].draft = o /\ doc[o].state = "completed"
                        /\ \E h \in hooks : h.kind = "completed" /\ h.d = o /\ h.tags.num = {c}
      BY <1>1, <2>2, QuietSales
    <3>2. ledger[c].status = "applied" => ledger[c].draft \in Draft BY DEF Typed
    <3>3. ledger[c].status = "applied" /\ ledger[c].draft = o /\ doc[o].state = "completed" =>
             doc'[o].state = "completed"
      BY <1>1, <1>2, <3>2 DEF Open
    <3>4. Settling(c, o)' BY <1>1, <1>2, <3>1, <3>3 DEF Settling
    <3> QED BY <1>4, <3>1, <3>4
  <2> QED BY <2>1, <2>2
<1>7. Rows'
  <2>1. \A c \in Code : ledger[c].draft \in Draft \cup {None} BY DEF Typed, RowType
  <2>2. \A e \in Draft : doc'[e].state = "open" => Open(e) BY <1>3 DEF Open
  <2> SUFFICES ASSUME NEW c \in Code
               PROVE  /\ ledger[c].status \in {"none", "open"} => ledger[c].draft = None
                      /\ ledger[c].status = "redeemed" =>
                            ledger[c].draft = None \/ doc'[ledger[c].draft].state # "open"
                      /\ c \in rule => ledger[c].rule /\ ledger[c].status # "none"
                      /\ c \in rule => ledger[c].status # "redeemed"
    BY <1>1 DEF Rows, Open
  <2>3. c \in rule => ledger[c].rule /\ ledger[c].status \notin {"none", "redeemed"} BY <1>1, QuietSales
  <2> QED BY <2>1, <2>2, <2>3 DEF Live, Rows
<1>8. HooksSold'
  <2> SUFFICES ASSUME NEW h \in hooks'
               PROVE  /\ h.kind = "online" => deducted[h.c] = {h.d}
                      /\ h.kind = "completed" /\ h.tags.num # {} =>
                            \E c \in Code : h.tags.num = {c} /\ deducted[c] = {h.d}
    BY <1>1, <1>5 DEF HooksSold
  <2>1. HooksSold BY DEF Live
  <2>2. CASE h \in hooks BY <2>1, <2>2 DEF HooksSold
  <2>3. CASE h.kind = "deleted" BY <2>3
  <2> QED BY <1>2, <2>2, <2>3
<1>9. Tagged'
  <2>1. \A e \in Draft : Open(e) => doc[e].tags.num = IF doc[e].code = None THEN {} ELSE {doc[e].code}
    BY <1>1, QuietTags
  <2> QED BY <1>2, <1>3, <2>1 DEF Tagged, Open
<1>10. Asked'
  <2>1. \A e \in Draft : Open(e) =>
           doc[e].tags.apply = {} \/ \E c \in Code : doc[e].tags.apply = {c} /\ doc[e].code \in {None, c}
    BY <1>1, QuietTags
  <2> SUFFICES ASSUME NEW e \in Draft, doc'[e].state = "open"
               PROVE  doc'[e].tags.apply = {} \/ \E c \in Code : /\ doc'[e].tags.apply = {c}
                                                                /\ doc'[e].code \in {None, c}
    BY DEF Asked, Open
  <2>2. CASE e = d BY <1>1, <1>2, <2>1, <2>2
  <2>3. CASE e # d BY <1>2, <2>1, <2>3 DEF Open
  <2> QED BY <2>2, <2>3
<1> QED BY <1>1, <1>5, <1>6, <1>7, <1>8, <1>9, <1>10 DEF Live, Kept

\* Staff sell what the ledger reserved for the draft, and nobody was given.
LEMMA CompleteLive ==
  ASSUME Typed, Holds, Live, Prompt, NEW d \in Draft, Complete(d)
  PROVE  Live' /\ Kept
<1>0. PICK k : k = doc[d].code OBVIOUS
<1> DEFINE g == [kind |-> "completed", d |-> d, tags |-> doc[d].tags]
<1>1. /\ Quiet /\ Open(d) /\ UNCHANGED <<ledger, rule, run>> /\ doc[d] \in DocType
      /\ doc \in [Draft -> DocType] /\ k \in Code \cup {None}
  BY <1>0, PromptFacts DEF Complete, Untouched, Open, Typed, Trouble, DocType
<1>2. /\ doc' = [doc EXCEPT ![d] = [doc[d] EXCEPT !.state = "completed"]]
      /\ deducted' = [c \in Code |-> IF c = k THEN deducted[c] \cup {d} ELSE deducted[c]]
      /\ hooks' = hooks \cup {g}
  BY <1>0, <1>1 DEF Complete, DocType
<1>3. g.kind = "completed" /\ g.d = d /\ g.tags = doc[d].tags OBVIOUS
<1> HIDE DEF g
<1>4. /\ \A e \in Draft \ {d} : doc'[e] = doc[e]
      /\ doc'[d].state = "completed" /\ doc'[d].code = k /\ doc'[d].tags = doc[d].tags
  BY <1>0, <1>1, <1>2 DEF DocType
<1>5. \A e \in Draft : Open(e)' => Open(e) /\ e # d /\ doc'[e] = doc[e] BY <1>4 DEF Open
<1>6. \A c : Loose(c) => Loose(c)' BY <1>5 DEF Loose
<1>7. \A s \in Slot : run[s].pc = "idle" /\ ~Busy(s)' BY <1>1 DEF Quiet, Busy
<1>8. doc[d].tags.num = IF k = None THEN {} ELSE {k} BY <1>0, <1>1, QuietTags
<1>9. None \notin Code BY InstrumentsAssumption
<1>10. k # None => /\ ledger[k].status = "applied" /\ ledger[k].draft = d /\ deducted[k] = {} /\ Loose(k)'
  <2> SUFFICES ASSUME k \in Code
               PROVE  ledger[k].status = "applied" /\ ledger[k].draft = d /\ deducted[k] = {} /\ Loose(k)'
    BY <1>1
  <2>1. ~Loose(k) BY <1>0, <1>1, <1>9 DEF Loose
  <2>2. deducted[k] = {} /\ ledger[k].status # "redeemed" BY <2>1, <1>1, QuietSales
  <2>3. ~\E s \in Slot : run[s].pc \in {"tag", "issue", "apply"} BY <1>7
  <2>4. ledger[k].status = "applied" /\ ledger[k].draft = d
    BY <1>0, <1>1, <1>9, <2>2, <2>3 DEF Holds, Reserved
  <2>5. Loose(k)'
    <3> SUFFICES ASSUME NEW e \in Draft, doc'[e].state = "open", doc'[e].code # None PROVE doc'[e].code # k
      BY DEF Loose, Open
    <3>1. Open(e) /\ e # d /\ doc'[e] = doc[e] BY <1>5 DEF Open
    <3> QED BY <1>0, <1>1, <1>9, <3>1 DEF Holds, Alone
  <2> QED BY <2>2, <2>4, <2>5
<1>11. Sales'
  <2> SUFFICES ASSUME NEW c \in Code
               PROVE  \/ deducted'[c] = {} /\ ledger[c].status # "redeemed"
                      \/ \E o \in deducted'[c] : deducted'[c] = {o} /\ Loose(c)' /\ Settling(c, o)'
    BY <1>1 DEF Sales, Loose, Settling
  <2>1. CASE c = k
    <3>1. deducted'[c] = {d} BY <1>2, <1>9, <1>10, <2>1
    <3>2. g \in hooks' /\ g.tags.num = {c} BY <1>2, <1>3, <1>8, <1>9, <2>1
    <3>3. Settling(c, d)' BY <1>1, <1>3, <1>4, <1>9, <1>10, <2>1, <3>2 DEF Settling
    <3> QED BY <1>9, <1>10, <2>1, <3>1, <3>3
  <2>2. CASE c # k /\ deducted[c] = {} BY <1>1, <1>2, <2>2, QuietSales
  <2>3. CASE c # k /\ deducted[c] # {}
    <3>1. PICK o \in deducted[c] :
                  /\ deducted[c] = {o} /\ Loose(c)
                  /\ \/ ledger[c].status = "redeemed" /\ ledger[c].order = o
                     \/ /\ ledger[c].status = "open" /\ c \notin rule
                        /\ \E h \in hooks : h.kind = "online" /\ h.d = o /\ h.c = c
                     \/ /\ ledger[c].status = "applied" /\ ledger[c].draft = o /\ doc[o].state = "completed"
                        /\ \E h \in hooks : h.kind = "completed" /\ h.d = o /\ h.tags.num = {c}
      BY <1>1, <2>3, QuietSales
    <3>2. ledger[c].status = "applied" => ledger[c].draft \in Draft BY DEF Typed
    <3>3. ledger[c].status = "applied" /\ ledger[c].draft = o /\ doc[o].state = "completed" =>
             doc'[o].state = "completed"
      BY <1>4, <3>2
    <3>4. Settling(c, o)' BY <1>1, <1>2, <3>1, <3>3 DEF Settling
    <3>5. deducted'[c] = deducted[c] BY <1>2, <2>3
    <3> QED BY <1>6, <3>1, <3>4, <3>5
  <2> QED BY <2>1, <2>2, <2>3
<1>12. Rows'
  <2>1. \A c \in Code : ledger[c].draft \in Draft \cup {None} BY DEF Typed, RowType
  <2>2. \A e \in Draft : doc'[e].state = "open" => Open(e) BY <1>5 DEF Open
  <2> SUFFICES ASSUME NEW c \in Code
               PROVE  /\ ledger[c].status \in {"none", "open"} => ledger[c].draft = None
                      /\ ledger[c].status = "redeemed" =>
                            ledger[c].draft = None \/ doc'[ledger[c].draft].state # "open"
                      /\ c \in rule => ledger[c].rule /\ ledger[c].status # "none"
                      /\ c \in rule => ledger[c].status # "redeemed"
    BY <1>1 DEF Rows, Open
  <2>3. c \in rule => ledger[c].rule /\ ledger[c].status \notin {"none", "redeemed"} BY <1>1, QuietSales
  <2> QED BY <2>1, <2>2, <2>3 DEF Live, Rows
<1>13. HooksSold'
  <2>1. \A c \in Code : deducted[c] # {} => deducted'[c] = deducted[c] BY <1>2, <1>9, <1>10
  <2>2. k # None => deducted'[k] = {d} BY <1>1, <1>2, <1>10
  <2> SUFFICES ASSUME NEW h \in hooks'
               PROVE  /\ h.kind = "online" => deducted'[h.c] = {h.d}
                      /\ h.kind = "completed" /\ h.tags.num # {} =>
                            \E c \in Code : h.tags.num = {c} /\ deducted'[c] = {h.d}
    BY <1>7 DEF HooksSold
  <2>3. CASE h \in hooks
    <3>1. /\ h.kind = "online" => deducted[h.c] = {h.d}
          /\ h.kind = "completed" /\ h.tags.num # {} =>
                            \E c \in Code : h.tags.num = {c} /\ deducted[c] = {h.d}
          /\ h.kind = "online" => h.c \in Code
      BY <2>3 DEF Live, HooksSold, Typed, HookFits
    <3> QED BY <2>1, <3>1
  <2>4. CASE h = g BY <1>1, <1>3, <1>8, <2>2, <2>4
  <2> QED BY <1>2, <2>3, <2>4
<1>14. Tagged' /\ Asked'
  <2>1. \A e \in Draft : Open(e) => doc[e].tags.num = IF doc[e].code = None THEN {} ELSE {doc[e].code}
    BY <1>1, QuietTags
  <2>2. Tagged' BY <1>5, <2>1 DEF Tagged
  <2>3. Asked' BY <1>5 DEF Live, Asked
  <2> QED BY <2>2, <2>3
<1> QED BY <1>1, <1>7, <1>11, <1>12, <1>13, <1>14 DEF Live, Kept

\* A request begins where none is under way and no sale waits to be told.
LEMMA BeginLive ==
  ASSUME Typed, Live, Quiet, NEW s \in Slot, NEW r, run' = [run EXCEPT ![s] = r],
         r.pc \notin {"lock", "redeem"}, \A h \in hooks : h.kind = "deleted",
         UNCHANGED <<ledger, doc, rule, hooks, deducted>>, Straight(r)
  PROVE  Live' /\ Kept
<1>1. run'[s] = r /\ \A t \in Slot \ {s} : run'[t].pc = "idle" BY DEF Typed, Quiet, Busy
<1>2. Sales' /\ Rows'
  <2>1. \A c : Loose(c) <=> Loose(c)' BY DEF Loose, Open
  <2>2. Sales'
    <3> SUFFICES ASSUME NEW c \in Code
                 PROVE  \/ deducted[c] = {} /\ ledger[c].status # "redeemed"
                        \/ \E o \in deducted[c] : deducted[c] = {o} /\ Loose(c)' /\ Settling(c, o)'
      BY DEF Sales, Loose, Settling
    <3>1. \/ deducted[c] = {} /\ ledger[c].status # "redeemed"
          \/ \E o \in deducted[c] :
                deducted[c] = {o} /\ Loose(c) /\ ledger[c].status = "redeemed" /\ ledger[c].order = o
      BY QuietSales
    <3>2. \A o : ledger[c].status = "redeemed" /\ ledger[c].order = o => Settling(c, o)' BY DEF Settling
    <3> QED BY <2>1, <3>1, <3>2
  <2>3. Rows'
    <3>1. \A c \in Code : c \in rule => ledger[c].rule /\ ledger[c].status \notin {"none", "redeemed"}
      BY QuietSales
    <3> QED BY <3>1 DEF Live, Rows, Open
  <2> QED BY <2>2, <2>3
<1>3. HooksSold' BY DEF HooksSold
<1>4. Tagged'
  <2>1. \A e \in Draft : Open(e) => doc[e].tags.num = IF doc[e].code = None THEN {} ELSE {doc[e].code}
    BY QuietTags
  <2> QED BY <2>1 DEF Tagged, Open
<1>5. Asked' BY DEF Live, Asked, Open
<1>6. \A t \in Slot : Busy(t)' => Straight(run[t])'
  <2> SUFFICES ASSUME NEW t \in Slot, run'[t].pc # "idle" PROVE Straight(run[t])' BY DEF Busy
  <2>1. run'[t] = r BY <1>1
  <2> QED BY <2>1 DEF Straight
<1> QED BY <1>2, <1>3, <1>4, <1>5, <1>6 DEF Live, Kept

LEMMA RequestLive ==
  ASSUME Typed, Holds, Live, Prompt,
         \/ \E d \in Draft : ChainStart(d)
         \/ \E d \in Draft, c \in Code : PostRedeem(d, c)
         \/ \E d \in Draft, job \in {"free", "void"} : PostVoid(d, job)
  PROVE  Live' /\ Kept
<1>1. ~Allowed("overlap") /\ ~Allowed("late") /\ ~Allowed("swap") /\ ~Allowed("converted")
  BY PromptFacts DEF Trouble
<1>2. \A d \in Draft : d # Hook BY SlotAssumption
<1>3. \A c \in Code : ledger[c].status = "none" => deducted[c] = {}
  BY DEF Live, Sales, Settling
<1>11. ASSUME NEW d \in Draft, ChainStart(d) PROVE Live' /\ Kept
  <2> DEFINE t == doc[d].tags
             c == IF t.apply = {} THEN None ELSE CHOOSE k \in t.apply : TRUE
             r == Pass(d, t)
  <2>1. /\ run' = [run EXCEPT ![d] = r] /\ UNCHANGED <<ledger, doc, rule, hooks, deducted>> /\ Open(d)
        /\ Quiet /\ \A h \in hooks : h.kind = "deleted"
        /\ ~t.remove => t.apply # {}
    BY <1>1, <1>2, <1>11 DEF ChainStart, CanStart, Open, Triggered
  <2>2. /\ t.num = IF doc[d].code = None THEN {} ELSE {doc[d].code}
        /\ t.apply = {} \/ \E k \in Code : t.apply = {k} /\ doc[d].code \in {None, k}
    BY <2>1, QuietTags
  <2>3. t.apply # {} => t.apply = {c} /\ doc[d].code \in {None, c} BY <2>2
  <2>4. /\ r.pc = (IF t.remove THEN "clear" ELSE "look") /\ r.job = "panel" /\ r.d = d /\ r.c = c
        /\ r.tags = t
    BY DEF Pass, Request
  <2> HIDE DEF r, c
  <2>5. Straight(r)
    <3>1. CASE t.remove BY <2>2, <2>4, <3>1 DEF Straight
    <3>2. CASE ~t.remove BY <2>1, <2>2, <2>3, <2>4, <3>2 DEF Straight
    <3> QED BY <3>1, <3>2
  <2>6. r.pc \notin {"lock", "redeem"} BY <2>4
  <2> QED BY <2>1, <2>5, <2>6, BeginLive, SlotsApart
<1>12. ASSUME NEW d \in Draft, NEW c \in Code, PostRedeem(d, c) PROVE Live' /\ Kept
  <2> DEFINE job == IF Voucher THEN "redeem" ELSE "note"
             first == IF Voucher THEN "look" ELSE "write"
             r == Request(job, IF doc[d].code = None THEN first ELSE "swap", d, c, doc[d].code)
  <2>1. /\ run' = [run EXCEPT ![Api] = r] /\ UNCHANGED <<ledger, doc, rule, hooks, deducted>> /\ Open(d)
        /\ Quiet /\ \A h \in hooks : h.kind = "deleted"
        /\ doc[d].code = None /\ ~Triggered(d)
        /\ ~Voucher => ledger[c].status = "none"
    BY <1>1, <1>12 DEF PostRedeem, CanStart, Open, Api, Hook
  <2>2. doc[d].tags.num = {} /\ doc[d].tags.apply = {} BY <2>1, QuietTags DEF Triggered
  <2>3. /\ r.pc = first /\ r.job = job /\ r.d = d /\ r.c = c /\ r.tags = doc[d].tags
    BY <2>1 DEF Request
  <2> HIDE DEF r
  <2>4. r.pc = "write" => deducted[c] = {} BY <1>3, <2>1, <2>3
  <2>5. Straight(r) BY <2>1, <2>2, <2>3, <2>4 DEF Straight
  <2>6. r.pc \notin {"lock", "redeem"} BY <2>3
  <2> QED BY <2>1, <2>5, <2>6, BeginLive, SlotsApart
<1>13. ASSUME NEW d \in Draft, NEW job \in {"free", "void"}, PostVoid(d, job) PROVE Live' /\ Kept
  <2> DEFINE r == Request(job, "clear", d, None, doc[d].code)
  <2>1. /\ run' = [run EXCEPT ![Api] = r] /\ UNCHANGED <<ledger, doc, rule, hooks, deducted>> /\ Open(d)
        /\ Quiet /\ \A h \in hooks : h.kind = "deleted"
    BY <1>1, <1>13 DEF PostVoid, CanStart, Open, Api, Hook
  <2>2. r.pc = "clear" /\ r.job = job /\ r.d = d /\ r.tags = doc[d].tags BY DEF Request
  <2> HIDE DEF r
  <2>3. doc[d].tags.apply = {} \/ \E k \in Code : doc[d].tags.apply = {k} BY <2>1, QuietTags
  <2>4. Straight(r) BY <2>2, <2>3 DEF Straight
  <2>5. r.pc \notin {"lock", "redeem"} BY <2>2
  <2> QED BY <2>1, <2>4, <2>5, BeginLive, SlotsApart
<1> QED BY <1>11, <1>12, <1>13

\* What the ledger is told, with no request under way.
LEMMA ToldLive ==
  ASSUME Typed, Holds, Live, Prompt,
         \E h \in hooks : HandleDeleted(h) \/ HandleOnline(h)
  PROVE  Live' /\ Kept
<1>1. PICK h \in hooks : HandleDeleted(h) \/ HandleOnline(h) OBVIOUS
<1>2. /\ Quiet /\ UNCHANGED <<doc, rule, run, deducted>> /\ hooks' \subseteq hooks
      /\ \A g \in hooks \ {h} : g \in hooks'
  BY <1>1, PromptFacts DEF HandleDeleted, HandleOnline, CanStart, Delivered, Trouble
<1>3. \A s \in Slot : ~Busy(s)' BY <1>2 DEF Quiet, Busy
<1>4. Tagged' /\ Asked'
  <2>1. \A e \in Draft : Open(e) => doc[e].tags.num = IF doc[e].code = None THEN {} ELSE {doc[e].code}
    BY <1>2, QuietTags
  <2> QED BY <1>2, <2>1 DEF Live, Tagged, Asked, Open
<1>5. HooksSold' BY <1>2, <1>3 DEF Live, HooksSold
<1>6. \A c : Loose(c) <=> Loose(c)' BY <1>2 DEF Loose, Open
<1>7. \A c \in Code : ledger[c] \in RowType BY DEF Typed
<1>8. ASSUME NEW c \in Code, ledger'[c] = ledger[c],
             h.kind = "deleted" \/ (h.kind = "online" /\ h.c # c)
      PROVE  /\ \/ deducted[c] = {} /\ ledger'[c].status # "redeemed"
                \/ \E o \in deducted[c] : deducted[c] = {o} /\ Loose(c) /\ Settling(c, o)'
             /\ c \in rule => ledger'[c].rule /\ ledger'[c].status \notin {"none", "redeemed"}
  <2>1. CASE deducted[c] = {} BY <1>2, <1>8, <2>1, QuietSales
  <2>2. CASE deducted[c] # {}
    <3>1. PICK o \in deducted[c] :
                  /\ deducted[c] = {o} /\ Loose(c)
                  /\ \/ ledger[c].status = "redeemed" /\ ledger[c].order = o
                     \/ /\ ledger[c].status = "open" /\ c \notin rule
                        /\ \E g \in hooks : g.kind = "online" /\ g.d = o /\ g.c = c
                     \/ /\ ledger[c].status = "applied" /\ ledger[c].draft = o /\ doc[o].state = "completed"
                        /\ \E g \in hooks : g.kind = "completed" /\ g.d = o /\ g.tags.num = {c}
      BY <1>2, <2>2, QuietSales
    <3>2. \A g \in hooks : g.kind = "online" /\ g.c = c => g \in hooks' BY <1>2, <1>8
    <3>3. \A g \in hooks : g.kind = "completed" => g \in hooks' BY <1>2, <1>8
    <3>4. Settling(c, o)' BY <1>2, <1>8, <3>1, <3>2, <3>3 DEF Settling
    <3> QED BY <1>2, <1>8, <3>1, <3>4, QuietSales
  <2> QED BY <2>1, <2>2
<1>11. CASE HandleDeleted(h)
  <2>1. /\ RevertApplied(h.d) /\ h.kind = "deleted" /\ h.d \in Draft /\ doc[h.d].state = "gone"
    BY <1>11 DEF HandleDeleted, Typed, HookFits, Holds, HooksRight
  <2>2. \A c \in Code :
           \/ ledger'[c] = ledger[c]
           \/ /\ ledger[c].status = "applied" /\ ledger[c].draft = h.d /\ ledger'[c].status = "open"
              /\ ledger'[c].draft = None /\ ledger'[c].rule = ledger[c].rule
    <3> SUFFICES ASSUME NEW c \in Code
                 PROVE  \/ ledger'[c] = ledger[c]
                        \/ /\ ledger[c].status = "applied" /\ ledger[c].draft = h.d
                           /\ ledger'[c].status = "open"
                           /\ ledger'[c].draft = None /\ ledger'[c].rule = ledger[c].rule
      OBVIOUS
    <3> DEFINE v == [ledger[c] EXCEPT !.status = "open", !.draft = None]
    <3>1. v.status = "open" /\ v.draft = None /\ v.rule = ledger[c].rule BY <1>7 DEF RowType
    <3>2. ledger'[c] = IF ledger[c].status = "applied" /\ ledger[c].draft = h.d THEN v ELSE ledger[c]
      BY <2>1 DEF RevertApplied
    <3> QED BY <3>1, <3>2
  <2>3. \A c \in Code : /\ \/ deducted[c] = {} /\ ledger'[c].status # "redeemed"
                           \/ \E o \in deducted[c] : deducted[c] = {o} /\ Loose(c) /\ Settling(c, o)'
                        /\ c \in rule => ledger'[c].rule /\ ledger'[c].status \notin {"none", "redeemed"}
    <3> SUFFICES ASSUME NEW c \in Code
                 PROVE  /\ \/ deducted[c] = {} /\ ledger'[c].status # "redeemed"
                           \/ \E o \in deducted[c] : deducted[c] = {o} /\ Loose(c) /\ Settling(c, o)'
                        /\ c \in rule => ledger'[c].rule /\ ledger'[c].status \notin {"none", "redeemed"}
      OBVIOUS
    <3>1. CASE ledger'[c] = ledger[c] BY <1>8, <2>1, <3>1
    <3>2. CASE /\ ledger[c].status = "applied" /\ ledger[c].draft = h.d /\ ledger'[c].status = "open"
               /\ ledger'[c].rule = ledger[c].rule
      <4>1. deducted[c] = {}
        <5> SUFFICES ASSUME deducted[c] # {} PROVE FALSE OBVIOUS
        <5>1. \E o \in deducted[c] : ledger[c].draft = o /\ doc[o].state = "completed"
          BY <1>2, <3>2, QuietSales
        <5> QED BY <2>1, <3>2, <5>1
      <4> QED BY <1>2, <3>2, <4>1, QuietSales
    <3> QED BY <2>2, <3>1, <3>2
  <2>4. Sales' BY <1>2, <1>6, <2>3 DEF Sales
  <2>5. Rows'
    <3>1. \A c \in Code : ledger'[c].draft \in {None, ledger[c].draft} BY <2>2
    <3>2. \A c \in Code : ledger'[c].status = "redeemed" => ledger'[c] = ledger[c] BY <2>2
    <3> QED BY <1>2, <2>2, <2>3, <3>1, <3>2 DEF Live, Rows, Open
  <2>6. Kept BY <2>2 DEF Kept
  <2> QED BY <1>3, <1>4, <1>5, <2>4, <2>5, <2>6 DEF Live
<1>12. CASE HandleOnline(h)
  <2>1. /\ h.kind = "online" /\ h.c \in Code /\ h.d \in Order /\ Redeem(h.c, None, h.d)
        /\ deducted[h.c] = {h.d}
    BY <1>12, PromptFacts DEF HandleOnline, Typed, HookFits, Live, HooksSold, Trouble
  <2> DEFINE v == [ledger[h.c] EXCEPT !.status = "redeemed", !.order = h.d]
  <2>2. ledger' = [ledger EXCEPT ![h.c] = v] BY <1>7, <2>1 DEF Redeem, Typed, RowType
  <2>3. v.status = "redeemed" /\ v.order = h.d /\ v.draft = ledger[h.c].draft /\ v.rule = ledger[h.c].rule
    BY <1>7, <2>1 DEF RowType
  <2> HIDE DEF v
  <2>4. ledger'[h.c] = v /\ \A c \in Code \ {h.c} : ledger'[c] = ledger[c] BY <2>1, <2>2 DEF Typed
  <2>5. /\ ledger[h.c].status # "applied" /\ h.c \notin rule /\ Loose(h.c) /\ ledger[h.c].status # "none"
    <3>1. ledger[h.c].status = "applied" => ledger[h.c].draft # h.d
      BY <2>1, InstrumentsAssumption DEF Typed
    <3> QED BY <1>2, <2>1, <3>1, QuietSales
  <2>6. ledger[h.c].draft = None \/ ~Open(ledger[h.c].draft)
    <3>1. ledger[h.c].status \in {"open", "redeemed", "voided"} BY <1>7, <2>1, <2>5 DEF RowType, Status
    <3>2. ledger[h.c].status # "voided" BY <1>2, <2>1, QuietSales
    <3> QED BY <2>1, <3>1, <3>2 DEF Live, Rows
  <2>7. \A c \in Code \ {h.c} :
                        /\ \/ deducted[c] = {} /\ ledger'[c].status # "redeemed"
                           \/ \E o \in deducted[c] : deducted[c] = {o} /\ Loose(c) /\ Settling(c, o)'
                        /\ c \in rule => ledger'[c].rule /\ ledger'[c].status \notin {"none", "redeemed"}
    BY <1>8, <2>1, <2>4
  <2>8. PICK k \in Code : k = h.c BY <2>1
  <2>9. PICK o : o = h.d OBVIOUS
  <2>13. Settling(k, o)' BY <2>3, <2>4, <2>8, <2>9 DEF Settling
  <2>10. Sales'
    <3> SUFFICES ASSUME NEW c \in Code
                 PROVE  \/ deducted[c] = {} /\ ledger'[c].status # "redeemed"
                        \/ \E q \in deducted[c] : deducted[c] = {q} /\ Loose(c) /\ Settling(c, q)'
      BY <1>2, <1>6 DEF Sales
    <3> QED BY <2>1, <2>5, <2>7, <2>8, <2>9, <2>13
  <2>11. Rows' BY <1>2, <2>3, <2>4, <2>5, <2>6, <2>7 DEF Live, Rows, Open
  <2>12. Kept BY <2>3, <2>4 DEF Kept
  <2> QED BY <1>3, <1>4, <1>5, <2>10, <2>11, <2>12 DEF Live
<1> QED BY <1>1, <1>11, <1>12

\* The webhook of a sale starts the redemption of the code it was sold with.
LEMMA CompletedLive ==
  ASSUME Typed, Holds, Live, Prompt, NEW h \in hooks, HandleCompleted(h)
  PROVE  Live' /\ Kept
<1>1. /\ Quiet /\ UNCHANGED <<ledger, doc, rule, deducted>> /\ hooks' \subseteq hooks
      /\ h.kind = "completed" /\ \A g \in hooks \ {h} : g \in hooks'
  BY PromptFacts DEF HandleCompleted, CanStart, Delivered, Trouble
<1>2. Tagged' /\ Asked'
  <2>1. \A e \in Draft : Open(e) => doc[e].tags.num = IF doc[e].code = None THEN {} ELSE {doc[e].code}
    BY <1>1, QuietTags
  <2> QED BY <1>1, <2>1 DEF Live, Tagged, Asked, Open
<1>3. \A c : Loose(c) <=> Loose(c)' BY <1>1 DEF Loose, Open
<1>4. Rows'
  <2>1. \A c \in Code : c \in rule => ledger[c].rule /\ ledger[c].status \notin {"none", "redeemed"}
    BY <1>1, QuietSales
  <2> QED BY <1>1, <2>1 DEF Live, Rows, Open
<1>5. \/ h.tags.num = {} /\ UNCHANGED run
      \/ \E c \in h.tags.num : run' = [run EXCEPT ![Hook] = Request("convert", "lock", h.d, c, None)]
  BY DEF HandleCompleted
<1>6. ASSUME NEW c \in Code,
             \A o : (\E g \in hooks : g.kind = "completed" /\ g.d = o /\ g.tags.num = {c}) =>
                \/ \E g \in hooks' : g.kind = "completed" /\ g.d = o /\ g.tags.num = {c}
                \/ run'[Hook].pc \in {"lock", "redeem"} /\ run'[Hook].d = o /\ run'[Hook].c = c
      PROVE  \/ deducted[c] = {} /\ ledger[c].status # "redeemed"
             \/ \E o \in deducted[c] : deducted[c] = {o} /\ Loose(c) /\ Settling(c, o)'
  <2>1. CASE deducted[c] = {} BY <1>1, <2>1, QuietSales
  <2>2. CASE deducted[c] # {}
    <3>1. PICK o \in deducted[c] :
                  /\ deducted[c] = {o} /\ Loose(c)
                  /\ \/ ledger[c].status = "redeemed" /\ ledger[c].order = o
                     \/ /\ ledger[c].status = "open" /\ c \notin rule
                        /\ \E g \in hooks : g.kind = "online" /\ g.d = o /\ g.c = c
                     \/ /\ ledger[c].status = "applied" /\ ledger[c].draft = o /\ doc[o].state = "completed"
                        /\ \E g \in hooks : g.kind = "completed" /\ g.d = o /\ g.tags.num = {c}
      BY <1>1, <2>2, QuietSales
    <3>2. \A g \in hooks : g.kind = "online" => g \in hooks' BY <1>1
    <3>3. Settling(c, o)'
      <4>1. CASE ledger[c].status = "redeemed" /\ ledger[c].order = o BY <1>1, <4>1 DEF Settling
      <4>2. CASE /\ ledger[c].status = "open" /\ c \notin rule
                 /\ \E g \in hooks : g.kind = "online" /\ g.d = o /\ g.c = c
        BY <1>1, <3>2, <4>2 DEF Settling
      <4>3. CASE /\ ledger[c].status = "applied" /\ ledger[c].draft = o /\ doc[o].state = "completed"
                 /\ \E g \in hooks : g.kind = "completed" /\ g.d = o /\ g.tags.num = {c}
        BY <1>1, <1>6, <4>3 DEF Settling
      <4> QED BY <3>1, <4>1, <4>2, <4>3
    <3> QED BY <3>1, <3>3
  <2> QED BY <2>1, <2>2
<1>11. CASE h.tags.num = {} /\ UNCHANGED run
  <2>1. \A s \in Slot : ~Busy(s)' BY <1>1, <1>11 DEF Quiet, Busy
  <2>2. HooksSold' BY <1>1, <2>1 DEF Live, HooksSold
  <2>3. Sales'
    <3> SUFFICES ASSUME NEW c \in Code
                 PROVE  \/ deducted[c] = {} /\ ledger[c].status # "redeemed"
                        \/ \E o \in deducted[c] : deducted[c] = {o} /\ Loose(c) /\ Settling(c, o)'
      BY <1>1, <1>3 DEF Sales
    <3>1. \A g \in hooks : g.tags.num = {c} => g \in hooks' BY <1>1, <1>11
    <3> QED BY <1>6, <3>1
  <2>4. Kept BY <1>1 DEF Kept
  <2> QED BY <1>2, <1>4, <2>1, <2>2, <2>3, <2>4 DEF Live
<1>12. CASE \E c \in h.tags.num : run' = [run EXCEPT ![Hook] = Request("convert", "lock", h.d, c, None)]
  <2>1. PICK k \in h.tags.num : run' = [run EXCEPT ![Hook] = Request("convert", "lock", h.d, k, None)]
    BY <1>12
  <2> DEFINE r == Request("convert", "lock", h.d, k, None)
  <2>2. r.pc = "lock" /\ r.job = "convert" /\ r.d = h.d /\ r.c = k BY DEF Request
  <2>3. run' = [run EXCEPT ![Hook] = r] BY <2>1
  <2> HIDE DEF r
  <2>4. run'[Hook] = r /\ \A t \in Slot \ {Hook} : run'[t].pc = "idle"
    BY <1>1, <2>3, SlotsApart DEF Typed, Quiet, Busy
  <2>5. k \in Code /\ h.tags.num = {k} /\ deducted[k] = {h.d}
    BY <1>1 DEF Live, HooksSold
  <2>6. \A s \in Slot : run'[s].pc # "idle" => run'[s] = r BY <2>4
  <2>7. \A s \in Slot : Busy(s)' => Straight(run[s])'
    <3> SUFFICES ASSUME NEW s \in Slot, run'[s].pc # "idle" PROVE Straight(run[s])' BY DEF Busy
    <3>1. run'[s] = r BY <2>6
    <3> QED BY <1>1, <2>2, <2>5, <3>1 DEF Straight
  <2>8. HooksSold'
    <3>1. \A s \in Slot : Busy(s)' => run'[s].job = "convert" BY <2>2, <2>6 DEF Busy
    <3> QED BY <1>1, <3>1 DEF Live, HooksSold
  <2>9. Sales'
    <3> SUFFICES ASSUME NEW c \in Code
                 PROVE  \/ deducted[c] = {} /\ ledger[c].status # "redeemed"
                        \/ \E o \in deducted[c] : deducted[c] = {o} /\ Loose(c) /\ Settling(c, o)'
      BY <1>1, <1>3 DEF Sales
    <3>1. \A g \in hooks : g.kind = "completed" /\ g.tags.num = {c} /\ g \notin hooks' =>
             g = h /\ run'[Hook].pc = "lock" /\ run'[Hook].d = g.d /\ run'[Hook].c = c
      BY <1>1, <2>2, <2>4, <2>5
    <3> QED BY <1>6, <3>1
  <2>10. Kept BY <1>1 DEF Kept
  <2> QED BY <1>2, <1>4, <2>7, <2>8, <2>9, <2>10 DEF Live
<1> QED BY <1>5, <1>11, <1>12

\* What works in the online shop is on no draft and was given to nobody.
LEMMA BuyOnlineLive ==
  ASSUME Typed, Holds, Live, Given, Prompt, NEW c \in Code, NEW o \in Order, BuyOnline(c, o)
  PROVE  Live' /\ Kept
<1> DEFINE g == [kind |-> "online", d |-> o, c |-> c]
<1>1. /\ Quiet /\ UNCHANGED <<ledger, doc, run>> /\ rule' = rule \ {c} /\ c \in rule
      /\ ledger[c].status = "open" /\ hooks' = hooks \cup {g}
      /\ deducted' = [deducted EXCEPT ![c] = @ \cup {o}]
  BY PromptFacts DEF BuyOnline, Trouble
<1>2. g.kind = "online" /\ g.d = o /\ g.c = c OBVIOUS
<1> HIDE DEF g
<1>3. \A s \in Slot : run[s].pc = "idle" /\ ~Busy(s)' BY <1>1 DEF Quiet, Busy
<1>4. Tagged' /\ Asked'
  <2>1. \A e \in Draft : Open(e) => doc[e].tags.num = IF doc[e].code = None THEN {} ELSE {doc[e].code}
    BY <1>1, QuietTags
  <2> QED BY <1>1, <2>1 DEF Live, Tagged, Asked, Open
<1>5. \A k : Loose(k) <=> Loose(k)' BY <1>1 DEF Loose, Open
<1>6. deducted[c] = {} BY <1>1, QuietSales
<1>7. Loose(c)
  <2> SUFFICES ASSUME NEW e \in Draft, Open(e), doc[e].code # None, doc[e].code = c PROVE FALSE
    BY DEF Loose
  <2>1. ~\E s \in Slot : run[s].pc \in {"tag", "issue", "apply"} BY <1>3
  <2> QED BY <1>1, <2>1 DEF Holds, Reserved
<1>8. deducted'[c] = {o} /\ \A k \in Code \ {c} : deducted'[k] = deducted[k]
  BY <1>1, <1>6 DEF Given
<1>9. Sales'
  <2> SUFFICES ASSUME NEW k \in Code
               PROVE  \/ deducted'[k] = {} /\ ledger[k].status # "redeemed"
                      \/ \E q \in deducted'[k] : deducted'[k] = {q} /\ Loose(k) /\ Settling(k, q)'
    BY <1>1, <1>5 DEF Sales
  <2>1. CASE k = c
    <3>1. Settling(k, o)' BY <1>1, <1>2, <2>1 DEF Settling
    <3> QED BY <1>7, <1>8, <2>1, <3>1
  <2>2. CASE k # c /\ deducted[k] = {} BY <1>1, <1>8, <2>2, QuietSales
  <2>3. CASE k # c /\ deducted[k] # {}
    <3>1. PICK q \in deducted[k] : deducted[k] = {q} /\ Loose(k) /\ Settling(k, q)
      BY <2>3 DEF Live, Sales
    <3>2. Settling(k, q)' BY <1>1, <2>3, <3>1 DEF Settling
    <3> QED BY <1>8, <2>3, <3>1, <3>2
  <2> QED BY <2>1, <2>2, <2>3
<1>10. Rows'
  <2>1. \A k \in Code : k \in rule => ledger[k].rule /\ ledger[k].status \notin {"none", "redeemed"}
    BY <1>1, QuietSales
  <2> QED BY <1>1, <2>1 DEF Live, Rows, Open
<1>11. HooksSold'
  <2> SUFFICES ASSUME NEW h \in hooks'
               PROVE  /\ h.kind = "online" => deducted'[h.c] = {h.d}
                      /\ h.kind = "completed" /\ h.tags.num # {} =>
                            \E k \in Code : h.tags.num = {k} /\ deducted'[k] = {h.d}
    BY <1>3 DEF HooksSold
  <2>1. CASE h \in hooks
    <3>1. /\ h.kind = "online" => deducted[h.c] = {h.d} /\ h.c \in Code
          /\ h.kind = "completed" /\ h.tags.num # {} =>
                \E k \in Code : h.tags.num = {k} /\ deducted[k] = {h.d}
      BY <2>1 DEF Live, HooksSold, Typed, HookFits
    <3>2. \A k \in Code : deducted[k] # {} => deducted'[k] = deducted[k] BY <1>6, <1>8
    <3> QED BY <3>1, <3>2
  <2>2. CASE h = g BY <1>2, <1>8, <2>2
  <2> QED BY <1>1, <2>1, <2>2
<1> QED BY <1>1, <1>3, <1>4, <1>9, <1>10, <1>11 DEF Live, Kept

\* A late report of the issue changes no row there is.
LEMMA IssueLive ==
  ASSUME Typed, Live, NEW c \in Code, Issue(c)
  PROVE  Live' /\ Kept
<1>1. UNCHANGED <<doc, run, hooks, deducted>> BY DEF Issue
<1>2. CASE ledger[c].status # "none"
  <2>1. UNCHANGED <<ledger, rule>> BY <1>2 DEF Issue, UpsertIssued
  <2>2. Sales' BY <1>1, <2>1 DEF Live, Sales, Settling, Loose, Open
  <2>3. Rows' /\ HooksSold' BY <1>1, <2>1 DEF Live, Rows, HooksSold, Open, Busy
  <2>4. Tagged' /\ Asked' BY <1>1 DEF Live, Tagged, Asked, Open
  <2>5. \A s \in Slot : Busy(s)' => Straight(run[s])' BY <1>1, <2>1 DEF Live, Straight, Busy
  <2> QED BY <2>1, <2>2, <2>3, <2>4, <2>5 DEF Live, Kept
<1>3. CASE ledger[c].status = "none"
  <2> DEFINE v == [ledger[c] EXCEPT !.status = "open", !.rule = TRUE]
  <2>1. ledger' = [ledger EXCEPT ![c] = v] /\ rule' = rule \cup {c}
    BY <1>3 DEF Issue, UpsertIssued, Typed
  <2>2. v.status = "open" /\ v.rule /\ v.draft = ledger[c].draft
    <3>1. ledger[c] \in RowType BY DEF Typed
    <3> QED BY <3>1 DEF RowType
  <2> HIDE DEF v
  <2>3. ledger'[c] = v /\ \A k \in Code \ {c} : ledger'[k] = ledger[k] BY <2>1 DEF Typed
  <2>4. deducted[c] = {} BY <1>3 DEF Live, Sales, Settling
  <2>5. Sales'
    <3> SUFFICES ASSUME NEW k \in Code
                 PROVE  \/ deducted[k] = {} /\ ledger'[k].status # "redeemed"
                        \/ \E o \in deducted[k] : deducted[k] = {o} /\ Loose(k) /\ Settling(k, o)'
      BY <1>1 DEF Sales, Loose, Open
    <3>1. CASE k = c BY <2>2, <2>3, <2>4, <3>1
    <3>2. CASE k # c
      <4>1. ledger'[k] = ledger[k] /\ (k \in rule' <=> k \in rule) BY <2>1, <2>3, <3>2
      <4>2. \A o : Settling(k, o) => Settling(k, o)' BY <1>1, <4>1 DEF Settling
      <4> QED BY <4>1, <4>2 DEF Live, Sales
    <3> QED BY <3>1, <3>2
  <2>6. Rows'
    <3> SUFFICES ASSUME NEW k \in Code
                 PROVE  /\ ledger'[k].status \in {"none", "open"} => ledger'[k].draft = None
                        /\ ledger'[k].status = "redeemed" => ledger'[k].draft = None \/ ~Open(ledger'[k].draft)
                        /\ k \in rule' => ledger'[k].rule /\ ledger'[k].status # "none"
                        /\ k \in rule' /\ ledger'[k].status = "redeemed" =>
                              \E s \in Slot : run[s].pc = "rule" /\ run[s].c = k
      BY <1>1 DEF Rows, Open
    <3>1. CASE k = c BY <1>3, <2>2, <2>3, <3>1 DEF Live, Rows
    <3>2. CASE k # c
      <4>1. ledger'[k] = ledger[k] /\ (k \in rule' <=> k \in rule) BY <2>1, <2>3, <3>2
      <4> QED BY <4>1 DEF Live, Rows
    <3> QED BY <3>1, <3>2
  <2>7. HooksSold' BY <1>1 DEF Live, HooksSold, Busy
  <2>8. Tagged' /\ Asked' BY <1>1 DEF Live, Tagged, Asked, Open
  <2>9. \A s \in Slot : Busy(s)' => Straight(run[s])'
    <3> SUFFICES ASSUME NEW s \in Slot, Busy(s) PROVE Straight(run[s])' BY <1>1 DEF Busy
    <3>1. Straight(run[s]) /\ run[s] \in Req /\ Fits(run[s]) BY DEF Live, Typed
    <3>2. run[s].pc = "redeem" => ledger'[run[s].c] = ledger[run[s].c]
      <4>1. run[s].pc = "redeem" => run[s].c \in Code /\ deducted[run[s].c] # {} BY <3>1 DEF Straight, Fits
      <4> QED BY <2>3, <2>4, <4>1
    <3> QED BY <1>1, <3>1, <3>2 DEF Straight
  <2>10. Kept BY <1>3, <2>3 DEF Kept
  <2> QED BY <2>5, <2>6, <2>7, <2>8, <2>9, <2>10 DEF Live
<1> QED BY <1>2, <1>3

LEMMA InitLive == Init => Given /\ Live
<1> SUFFICES ASSUME Init PROVE Given /\ Live OBVIOUS
<1>1. /\ ledger = [c \in Code |-> NoRow] /\ hooks = {} /\ rule = {}
      /\ doc = [d \in Draft |-> [state |-> "open", code |-> None, tags |-> NoTags, sent |-> {}]]
      /\ run = [s \in Slot |-> Idle] /\ deducted = [c \in Code |-> {}]
  BY DEF Init
<1>2. \A s \in Slot : ~Busy(s) BY <1>1 DEF Busy, Idle
<1>3. \A d \in Draft : doc[d].code = None /\ doc[d].tags = NoTags BY <1>1
<1>4. \A c \in Code : ledger[c].status = "none" /\ ledger[c].draft = None BY <1>1 DEF NoRow
<1>5. Sales BY <1>1, <1>4 DEF Sales
<1>6. Rows /\ HooksSold BY <1>1, <1>4 DEF Rows, HooksSold
<1>7. Tagged /\ Asked BY <1>3 DEF Tagged, Asked, NoTags
<1> QED BY <1>1, <1>2, <1>5, <1>6, <1>7 DEF Given, Live

LEMMA GivenStays == Given /\ [Next]_vars => Given'
<1> SUFFICES ASSUME Given, [Next]_vars PROVE Given' OBVIOUS
<1>1. ASSUME NEW c \in Code, NEW o \in Order, BuyOnline(c, o) PROVE Given'
  BY <1>1 DEF BuyOnline, Given
<1>2. ASSUME NEW d \in Draft, Complete(d) PROVE Given' BY <1>2 DEF Complete, Given
<1>3. ASSUME NEW s \in Slot, Step(s) PROVE deducted' = deducted
  BY <1>3 DEF Step, Clear, Untag, LookFree, Free, Void, Look, Strip, Read, Swap, Release,
     WriteCode, WriteTags, IssueNote, ApplyLedger, DeletePriceRule, LockLook, RedeemOnOrder
<1>4. ASSUME NEW s \in Slot, Fails(s) PROVE deducted' = deducted BY <1>4 DEF Fails
<1>5. ASSUME NEW h \in hooks, Handle(h) PROVE deducted' = deducted
  BY <1>5 DEF Handle, HandleDeleted, HandleOnline, HandleCompleted
<1>6. ASSUME NEW d \in Draft, AskRemove(d) \/ Delete(d) \/ ChainStart(d) \/ ChainAgain(d)
      PROVE  deducted' = deducted
  BY <1>6 DEF AskRemove, Delete, ChainStart, ChainAgain
<1>7. ASSUME NEW d \in Draft, NEW c \in Code, AskApply(d, c) \/ PostRedeem(d, c) PROVE deducted' = deducted
  BY <1>7 DEF AskApply, PostRedeem
<1>8. deducted' = deducted => Given' BY DEF Given
<1> QED BY <1>1, <1>2, <1>3, <1>4, <1>5, <1>6, <1>7, <1>8 DEF Next, vars, Issue, PostVoid, Restart

LEMMA LiveStays == LiveInv /\ Prompt /\ Next => Live' /\ Kept
<1> SUFFICES ASSUME LiveInv, Prompt, Next PROVE Live' /\ Kept OBVIOUS
<1>1. /\ Typed /\ OneBusy /\ Holds /\ Live /\ Given
      /\ ~Allowed("fault")
  BY PromptFacts, CalmFacts DEF LiveInv, HoldsInv, NoOverlap
<1>2. CASE \E s \in Slot : Step(s) BY <1>1, <1>2, StepLive
<1>3. CASE (\E s \in Slot : Fails(s)) \/ Restart \/ \E d \in Draft : ChainAgain(d)
  BY <1>1, <1>3, PromptFacts, CalmFacts DEF Fails, Restart, ChainAgain
<1>4. CASE \/ \E d \in Draft : AskRemove(d) \/ Delete(d)
           \/ \E d \in Draft, c \in Code : AskApply(d, c)
  BY <1>1, <1>4, AskLive
<1>5. CASE \E d \in Draft : Complete(d) BY <1>1, <1>5, CompleteLive
<1>6. CASE \/ \E d \in Draft : ChainStart(d)
           \/ \E d \in Draft, c \in Code : PostRedeem(d, c)
           \/ \E d \in Draft, job \in {"free", "void"} : PostVoid(d, job)
  BY <1>1, <1>6, RequestLive
<1>7. CASE \E h \in hooks : Handle(h) BY <1>1, <1>7, ToldLive, CompletedLive DEF Handle
<1>8. CASE \E c \in Code : Issue(c) BY <1>1, <1>8, IssueLive
<1>9. CASE \E c \in Code, o \in Order : BuyOnline(c, o) BY <1>1, <1>9, BuyOnlineLive
<1> QED BY <1>2, <1>3, <1>4, <1>5, <1>6, <1>7, <1>8, <1>9 DEF Next

LEMMA LiveInvStays == LiveInv /\ [Next]_vars => LiveInv'
<1> SUFFICES ASSUME LiveInv, [Next]_vars PROVE LiveInv' OBVIOUS
<1>1. HoldsInv' /\ Given' BY HoldsInvStays, GivenStays DEF LiveInv
<1>2. Prompt' <=> Prompt BY CaseStays DEF Prompt, Only
<1>3. ASSUME Prompt PROVE Live'
  <2>1. CASE Next BY <1>3, <2>1, LiveStays
  <2>2. CASE UNCHANGED vars
    <3>1. Sales' /\ Rows' /\ HooksSold' /\ Tagged' /\ Asked'
      <4>1. Live BY <1>3 DEF LiveInv
      <4>2. Sales' BY <2>2, <4>1 DEF vars, Live, Sales, Settling, Loose, Open
      <4>3. Rows' /\ HooksSold' BY <2>2, <4>1 DEF vars, Live, Rows, HooksSold, Open, Busy
      <4>4. Tagged' /\ Asked' BY <2>2, <4>1 DEF vars, Live, Tagged, Asked, Open
      <4> QED BY <4>2, <4>3, <4>4
    <3>2. \A s \in Slot : Busy(s)' => Straight(run[s])'
      BY <1>3, <2>2 DEF vars, LiveInv, Live, Straight, Busy
    <3> QED BY <3>1, <3>2 DEF Live
  <2> QED BY <2>1, <2>2
<1> QED BY <1>1, <1>2, <1>3 DEF LiveInv

LEMMA LiveInvAlways == Spec => []LiveInv
<1>1. Init => LiveInv BY InitTyped, InitHolds, InitLive DEF LiveInv, HoldsInv
<1> QED BY <1>1, LiveInvStays, PTL DEF Spec

\* While nothing is swapped, sales are heard of promptly and a code on a draft
\* is not used online, the value of an instrument is given to one document at
\* most, and the ledger knows which: whatever else staff and customers do and
\* however often a webhook comes.
THEOREM SalesAgreeHolds == Spec => []SalesAgree
<1>1. LiveInv => SalesAgree
  <2> SUFFICES ASSUME LiveInv PROVE SalesAgree OBVIOUS
  <2>1. SpentOnce
    <3> SUFFICES ASSUME Prompt, NEW c \in Code PROVE Cardinality(deducted[c]) <= 1
      BY DEF SpentOnce, Prompt
    <3>1. deducted[c] = {} \/ \E o \in deducted[c] : deducted[c] = {o} BY DEF LiveInv, Live, Sales
    <3>2. CASE deducted[c] = {} BY <3>2, FS_EmptySet
    <3>3. CASE \E o \in deducted[c] : deducted[c] = {o}
      <4>1. PICK o : deducted[c] = {o} BY <3>3
      <4>2. Cardinality({o}) = 1 BY FS_Singleton
      <4> QED BY <4>1, <4>2
    <3> QED BY <3>1, <3>2, <3>3
  <2>2. SoldIsRedeemed
    <3> SUFFICES ASSUME Prompt, Quiet, NEW c \in Code
                 PROVE  /\ \A o \in deducted[c] : (~\E h \in hooks : h.d = o) =>
                              ledger[c].status = "redeemed" /\ ledger[c].order = o
                        /\ ledger[c].status = "redeemed" => c \notin rule
      BY DEF SoldIsRedeemed, Prompt
    <3> QED BY QuietSales DEF LiveInv
  <2> QED BY <2>1, <2>2 DEF SalesAgree
<1> QED BY <1>1, LiveInvAlways, PTL

\* Nothing that was spent is handed back: under the same conditions by no step
\* at all, and by the panel's removal not even of what was sold or used online
\* while it was on the draft.
THEOREM SpentStaysHolds == Spec => SpentStays
<1>1. LiveInv /\ [Next]_vars =>
        [Only({"again"}) =>
           \A c \in Code : ledger[c].status = "redeemed" => ledger'[c].status = "redeemed"]_vars
  BY LiveStays DEF Kept, Prompt
<1>2. Spec => RedeemedStays BY <1>1, LiveInvAlways, PTL DEF Spec, RedeemedStays
<1> QED BY <1>2, PanelKeepsRedeemedHolds, PTL DEF SpentStays
=============================================================================
