---------------------------- MODULE AdvanceProofs ----------------------------
(***************************************************************************)
(* The CAD advance (Advance), for any number of drafts and advances: types;*)
(* that an advance settles one bill; that what the register closed stays   *)
(* closed; that at rest its accounts agree: the document, the register,    *)
(* the bills it is on and the money given back.                            *)
(***************************************************************************)
EXTENDS Advance, FiniteSetTheorems, TLAPS

--------------------
(* Types *)

DocRec == [state : {"draft", "order", "gone"}, line : BOOLEAN, piece : BOOLEAN,
           paid : BOOLEAN, refunded : BOOLEAN, status : Status, order : Status,
           ref : Advance \cup {None}, tag : SUBSET Advance,
           legs : [Advance -> 0..MaxLegs], age : {"new", "stale", "over"},
           dirty : BOOLEAN]
RowRec == [status : RowStatus, target : Doc \cup {None}, issued : BOOLEAN]

\* A request is a pass of a chain, a conversion, a deletion or the sweep.
PassPc == {"capture", "issue", "line", "commit", "commitRow", "redeem", "gate", "absorb",
           "unconfirmed", "reserve", "tag", "reserveRow", "clear", "refund", "close"}
HookPc == {"copy", "spend", "spendRow", "own", "rekey", "settle", "settleRow"}
PassRun == [pc : PassPc, d : Doc, line : BOOLEAN, piece : BOOLEAN, tag : SUBSET Advance,
            src : Advance \cup {None}, read : 0..MaxLegs]
HookRun == [pc : HookPc, d : Doc, tag : SUBSET Advance, piece : BOOLEAN, own : Status]
DeleteRun == [pc : {"deleted"}, d : Doc, todo : SUBSET {"close", "revert"}]
SweepRun == [pc : {"convert", "stamp"}, d : Advance]

\* What it has in hand at its calls.
Fits(r) ==
    \/ /\ r \in PassRun
       /\ r.pc \in {"gate", "absorb", "unconfirmed", "reserve", "tag", "reserveRow"} => r.src \in Advance
    \/ r \in HookRun
    \/ r \in DeleteRun
    \/ r \in SweepRun

HookRec == [kind : {"completed"}, d : Doc, tag : SUBSET Advance, piece : BOOLEAN]
           \cup [kind : {"deleted"}, d : Doc]

Typed ==
    /\ case \in Case
    /\ doc \in [Doc -> DocRec]
    /\ row \in [Advance -> [Name -> RowRec]]
    /\ run = [s \in Slot |-> run[s]]
    /\ \A s \in Slot : Busy(s) => Fits(run[s])
    /\ hooks \subseteq HookRec

LEMMA TypedIsTypeOK == Typed => TypeOK
<1> SUFFICES ASSUME Typed PROVE TypeOK OBVIOUS
<1>1. \A s \in Slot : Busy(s) => run[s].d \in Doc
  BY AdvanceAssumption DEF Typed, Fits, PassRun, HookRun, DeleteRun, SweepRun
<1>2. \A h \in hooks : h.kind \in {"completed", "deleted"} /\ h.d \in Doc
  BY DEF Typed, HookRec
<1> QED BY <1>1, <1>2 DEF Typed, TypeOK, DocRec, RowRec

LEMMA InitTyped == Init => Typed
<1> SUFFICES ASSUME Init PROVE Typed OBVIOUS
<1>1. NoLegs \in [Advance -> 0..MaxLegs] BY AdvanceAssumption DEF NoLegs
<1>2. doc \in [Doc -> DocRec] BY <1>1 DEF Init, DocRec, Status
<1>3. row \in [Advance -> [Name -> RowRec]] BY DEF Init, NoRow, RowRec, RowStatus, Status
<1>4. run = [s \in Slot |-> run[s]] /\ \A s \in Slot : ~Busy(s) BY DEF Init, Busy, Idle
<1> QED BY <1>2, <1>3, <1>4 DEF Init, Typed

\* What a write makes of the drafts.
LEMMA WriteIs ==
  ASSUME Typed, NEW d \in Doc, NEW r \in DocRec, Write(d, r)
  PROVE  /\ doc' \in [Doc -> DocRec]
         /\ \A e \in Doc \ {d} : doc'[e] = doc[e]
         /\ doc[d].state = "gone" => doc'[d] = doc[d]
         /\ doc[d].state # "gone" => doc'[d] = [r EXCEPT !.dirty = doc[d].state = "draft"]
<1> DEFINE v == [r EXCEPT !.dirty = doc[d].state = "draft"]
<1>1. v \in DocRec BY DEF DocRec
<1>2. doc' = IF doc[d].state = "gone" THEN doc ELSE [doc EXCEPT ![d] = v] BY DEF Write, Written
<1> HIDE DEF v
<1> QED BY <1>1, <1>2 DEF Typed, v

LEMMA WriteTyped ==
  ASSUME Typed, NEW d \in Doc, NEW r \in DocRec, Write(d, r) PROVE doc' \in [Doc -> DocRec]
  BY WriteIs

LEMMA OrderIs ==
  ASSUME Typed, NEW a, NEW v \in Status, OnOrder(a, v)
  PROVE  /\ doc' \in [Doc -> DocRec]
         /\ \A e \in Doc \ {a} : doc'[e] = doc[e]
         /\ a \in Doc => doc'[a] = [doc[a] EXCEPT !.order = v]
<1>1. doc' = [doc EXCEPT ![a] = [doc[a] EXCEPT !.order = v]] BY DEF OnOrder, Typed
<1>2. ASSUME a \in Doc PROVE [doc[a] EXCEPT !.order = v] \in DocRec
  <2>1. doc[a] \in DocRec BY <1>2 DEF Typed
  <2> QED BY <2>1 DEF DocRec
<1> QED BY <1>1, <1>2 DEF Typed

\* The register's writers keep rows rows.
LEMMA RowTyped ==
  ASSUME Typed, NEW a, NEW d \in Doc, NEW n \in Name
  PROVE  /\ UpsertIssued(a) => row' \in [Advance -> [Name -> RowRec]]
         /\ Apply(a, n, d) \/ Redeem(a, n, d) \/ RedeemKnown(a, n, d)
              => row' \in [Advance -> [Name -> RowRec]]
         /\ (\E v \in RowStatus : CloseInstrument(a, n, v)) => row' \in [Advance -> [Name -> RowRec]]
         /\ Rekey(a) => row' \in [Advance -> [Name -> RowRec]]
         /\ RevertApplied(d) => row' \in [Advance -> [Name -> RowRec]]
<1> DEFINE Rows == [Advance -> [Name -> RowRec]]
<1>0. row \in Rows BY DEF Typed
<1>1. ASSUME NEW v, row' = [row EXCEPT ![a] = v], a \in Advance => v \in [Name -> RowRec]
      PROVE  row' \in Rows
  BY <1>0, <1>1
<1>2. ASSUME NEW m \in Name, NEW v, row' = [row EXCEPT ![a][m] = v], a \in Advance => v \in RowRec
      PROVE  row' \in Rows
  BY <1>0, <1>2
<1>3. a \in Advance => \A m \in Name : row[a][m] \in RowRec BY <1>0
<1>4. UpsertIssued(a) => row' \in Rows BY <1>0, <1>2 DEF RowRec, RowStatus, Status, UpsertIssued, Name
<1>5. ASSUME Apply(a, n, d) \/ Redeem(a, n, d) \/ RedeemKnown(a, n, d) PROVE row' \in Rows
  <2>1. \/ row' = row
        \/ \E v \in {"applied", "redeemed"} :
              row' = [row EXCEPT ![a][n].status = v, ![a][n].target = d]
    BY <1>5 DEF Apply, Redeem, RedeemKnown
  <2>2. ASSUME NEW v \in {"applied", "redeemed"},
               row' = [row EXCEPT ![a][n].status = v, ![a][n].target = d]
        PROVE  row' \in Rows
    <3>1. CASE a \in Advance
      <4>1. row' = [row EXCEPT ![a][n] = [row[a][n] EXCEPT !.status = v, !.target = d]]
        BY <1>0, <2>2, <3>1
      <4>2. [row[a][n] EXCEPT !.status = v, !.target = d] \in RowRec
        BY <1>3, <3>1 DEF RowRec, RowStatus, Status
      <4> QED BY <1>2, <4>1, <4>2
    <3>2. CASE a \notin Advance BY <1>0, <2>2, <3>2
    <3> QED BY <3>1, <3>2
  <2> QED BY <1>0, <2>1, <2>2
<1>6. ASSUME NEW v \in RowStatus, CloseInstrument(a, n, v) PROVE row' \in Rows
  BY <1>0, <1>3, <1>2, <1>6 DEF RowRec, CloseInstrument
<1>7. Rekey(a) => row' \in Rows
  <2>1. NoRow \in RowRec BY DEF NoRow, RowRec, RowStatus, Status
  <2>2. a \in Advance => [order |-> row[a]["draft"], draft |-> NoRow] \in [Name -> RowRec]
    BY <1>3, <2>1 DEF Name
  <2> QED BY <1>0, <1>1, <2>2 DEF Rekey
<1>8. RevertApplied(d) => row' \in Rows
  <2> DEFINE v(b, m) == IF row[b][m].status = "applied" /\ row[b][m].target = d
                        THEN [row[b][m] EXCEPT !.status = "open", !.target = None] ELSE row[b][m]
  <2>1. ASSUME NEW b \in Advance, NEW m \in Name PROVE v(b, m) \in RowRec
    <3>1. row[b][m] \in RowRec BY <1>0
    <3> QED BY <3>1 DEF RowRec, RowStatus, Status
  <2>2. RevertApplied(d) => row' = [b \in Advance |-> [m \in Name |-> v(b, m)]] BY DEF RevertApplied
  <2> HIDE DEF v
  <2> QED BY <2>1, <2>2
<1> QED BY <1>4, <1>5, <1>6, <1>7, <1>8

RunTyped == run = [s \in Slot |-> run[s]] /\ \A s \in Slot : Busy(s) => Fits(run[s])

\* A request begins, goes on or ends.
LEMMA RunIs ==
  ASSUME Typed, NEW s \in Slot, NEW v, run' = [run EXCEPT ![s] = v], v = Idle \/ Fits(v)
  PROVE  RunTyped' /\ run'[s] = v /\ \A t \in Slot \ {s} : run'[t] = run[t]
  BY DEF Typed, Busy, Idle, RunTyped, Fits, PassRun, HookRun, DeleteRun, SweepRun

LEMMA DoneTyped == ASSUME Typed, NEW s \in Slot, Done(s) PROVE RunTyped'
  BY RunIs DEF Done

LEMMA PassRunning ==
  ASSUME Typed, NEW s \in Slot, run[s].pc \in PassPc
  PROVE  /\ run[s] \in PassRun /\ run[s].d \in Doc
         /\ run[s].pc \in {"gate", "absorb", "unconfirmed", "reserve", "tag", "reserveRow"} => run[s].src \in Advance
  BY DEF Typed, Busy, PassPc, Fits, PassRun, HookRun, DeleteRun, SweepRun, HookPc

LEMMA HookRunning ==
  ASSUME Typed, NEW s \in Slot, run[s].pc \in HookPc
  PROVE  run[s] \in HookRun /\ run[s].d \in Doc
  BY DEF Typed, Busy, HookPc, Fits, PassRun, HookRun, DeleteRun, SweepRun, PassPc

LEMMA OtherRunning ==
  ASSUME Typed, NEW s \in Slot
  PROVE  /\ run[s].pc = "deleted" => run[s] \in DeleteRun
         /\ run[s].pc \in {"convert", "stamp"} => run[s] \in SweepRun
  BY DEF Typed, Busy, Fits, PassRun, HookRun, DeleteRun, SweepRun, PassPc, HookPc

LEMMA GotoPass ==
  ASSUME Typed, NEW s \in Slot, run[s].pc \in PassPc, NEW pc \in PassPc, Goto(s, pc),
         pc \in {"gate", "absorb", "unconfirmed", "reserve", "tag", "reserveRow"} =>
             run[s].pc \in {"gate", "absorb", "unconfirmed", "reserve", "tag", "reserveRow"}
  PROVE  RunTyped' /\ run'[s] = [run[s] EXCEPT !.pc = pc]
<1> DEFINE v == [run[s] EXCEPT !.pc = pc]
<1>1. run[s] \in PassRun /\ (pc \in {"gate", "absorb", "unconfirmed", "reserve", "tag", "reserveRow"} => run[s].src \in Advance)
  BY PassRunning
<1>2. v \in PassRun /\ v.pc = pc /\ v.src = run[s].src BY <1>1 DEF PassRun
<1>3. Fits(v) BY <1>1, <1>2 DEF Fits
<1>4. run' = [run EXCEPT ![s] = v] BY DEF Goto, Typed
<1> HIDE DEF v
<1>5. RunTyped' /\ run'[s] = v BY <1>3, <1>4, RunIs
<1> QED BY <1>5 DEF v

LEMMA GotoHook ==
  ASSUME Typed, NEW s \in Slot, run[s].pc \in HookPc, NEW pc \in HookPc, Goto(s, pc)
  PROVE  RunTyped' /\ run'[s] = [run[s] EXCEPT !.pc = pc]
<1> DEFINE v == [run[s] EXCEPT !.pc = pc]
<1>1. run[s] \in HookRun BY HookRunning
<1>2. v \in HookRun BY <1>1 DEF HookRun
<1>3. Fits(v) BY <1>2 DEF Fits
<1>4. run' = [run EXCEPT ![s] = v] BY DEF Goto, Typed
<1> HIDE DEF v
<1>5. RunTyped' /\ run'[s] = v BY <1>3, <1>4, RunIs
<1> QED BY <1>5 DEF v

\* Changing one field of a draft leaves it a draft.
LEMMA FieldTyped ==
  ASSUME Typed, NEW d \in Doc
  PROVE  /\ doc[d] \in DocRec
         /\ [doc[d] EXCEPT !.line = TRUE, !.paid = TRUE] \in DocRec
         /\ [doc[d] EXCEPT !.piece = TRUE] \in DocRec
         /\ [doc[d] EXCEPT !.refunded = TRUE] \in DocRec
         /\ [doc[d] EXCEPT !.line = FALSE] \in DocRec
         /\ [doc[d] EXCEPT !.state = "order", !.dirty = FALSE] \in DocRec
         /\ [doc[d] EXCEPT !.state = "gone", !.dirty = FALSE] \in DocRec
         /\ [doc[d] EXCEPT !.dirty = FALSE] \in DocRec
<1>1. doc[d] \in DocRec BY DEF Typed
<1> QED BY <1>1 DEF DocRec

LEMMA ValueTyped ==
  ASSUME Typed, NEW d \in Doc
  PROVE  /\ \A v \in Status : [doc[d] EXCEPT !.status = v] \in DocRec
         /\ \A v \in Advance \cup {None} : [doc[d] EXCEPT !.ref = v] \in DocRec
         /\ \A v \in SUBSET Advance : [doc[d] EXCEPT !.tag = v] \in DocRec
         /\ \A v \in {"new", "stale", "over"} : [doc[d] EXCEPT !.age = v] \in DocRec
<1>1. doc[d] \in DocRec BY DEF Typed
<1>2. ASSUME NEW v \in Status PROVE [doc[d] EXCEPT !.status = v] \in DocRec
  BY <1>1 DEF DocRec
<1>3. ASSUME NEW v \in Advance \cup {None} PROVE [doc[d] EXCEPT !.ref = v] \in DocRec
  BY <1>1 DEF DocRec
<1>4. ASSUME NEW v \in SUBSET Advance PROVE [doc[d] EXCEPT !.tag = v] \in DocRec
  BY <1>1 DEF DocRec
<1>5. ASSUME NEW v \in {"new", "stale", "over"} PROVE [doc[d] EXCEPT !.age = v] \in DocRec
  BY <1>1 DEF DocRec
<1> QED BY <1>2, <1>3, <1>4, <1>5

LEMMA OneDocTyped ==
  ASSUME Typed, NEW d \in Doc, NEW r \in DocRec, doc' = [doc EXCEPT ![d] = r]
  PROVE  doc' \in [Doc -> DocRec] /\ doc'[d] = r /\ \A e \in Doc \ {d} : doc'[e] = doc[e]
  BY DEF Typed

LEMMA LegTyped ==
  ASSUME Typed, NEW s \in Slot, run[s].pc = "absorb"
  PROVE  /\ Leg(s) \in DocRec
         /\ Leg(s) = [doc[run[s].d] EXCEPT !.legs = [@ EXCEPT ![run[s].src] = Least(run[s].read + 1, MaxLegs)]]
         /\ Least(run[s].read + 1, MaxLegs) \in 1..MaxLegs
<1>1. run[s] \in PassRun /\ run[s].src \in Advance /\ run[s].d \in Doc BY PassRunning DEF PassPc
<1>2. Least(run[s].read + 1, MaxLegs) \in 1..MaxLegs
  BY <1>1, AdvanceAssumption DEF PassRun, Least
<1>3. doc[run[s].d] \in DocRec BY <1>1 DEF Typed
<1> DEFINE m == Least(run[s].read + 1, MaxLegs)
<1>4. m \in 0..MaxLegs BY <1>2
<1> HIDE DEF m
<1>5. [doc[run[s].d] EXCEPT !.legs = [@ EXCEPT ![run[s].src] = m]] \in DocRec BY <1>3, <1>4 DEF DocRec
<1>6. Leg(s) = [doc[run[s].d] EXCEPT !.legs = [@ EXCEPT ![run[s].src] = m]] BY <1>3 DEF Leg, DocRec, m
<1> QED BY <1>2, <1>5, <1>6 DEF m

LEMMA TypedIs ==
  /\ Typed <=> /\ case \in Case /\ doc \in [Doc -> DocRec] /\ row \in [Advance -> [Name -> RowRec]]
               /\ RunTyped /\ hooks \subseteq HookRec
  /\ Typed' <=> /\ case' \in Case /\ doc' \in [Doc -> DocRec] /\ row' \in [Advance -> [Name -> RowRec]]
                /\ RunTyped' /\ hooks' \subseteq HookRec
  BY DEF Typed, RunTyped, Busy, Fits, PassRun, HookRun, DeleteRun, SweepRun, DocRec, RowRec, HookRec

LEMMA SameRun == Typed /\ UNCHANGED run => RunTyped'
  BY TypedIs DEF RunTyped, Fits, PassRun, HookRun, DeleteRun, SweepRun, Busy

LEMMA ToldTyped == ASSUME Typed, NEW d \in Doc PROVE ToldCompleted(d) \subseteq HookRec
  BY DEF Typed, ToldCompleted, HookRec, DocRec

\* What staff, customers and the calendar do.
LEMMA StaffTyped ==
  ASSUME Typed,
         \/ \E a \in Advance : Take(a) \/ AddPiece(a) \/ PayBack(a) \/ GrowOld(a)
         \/ \E d \in Doc, a \in Advance : Refer(d, a)
         \/ \E d \in Doc : Complete(d) \/ Delete(d)
  PROVE  Typed'
<1>0. Advance \subseteq Doc BY AdvanceAssumption
<1>1. /\ RunTyped' /\ UNCHANGED <<case, row>>
  BY SameRun DEF Take, AddPiece, PayBack, GrowOld, Refer, Complete, Delete, Keep
<1>2. ASSUME NEW a \in Advance, Take(a) \/ AddPiece(a) \/ PayBack(a) PROVE Typed'
  BY <1>0, <1>2, FieldTyped, WriteTyped, <1>1, TypedIs DEF Take, AddPiece, PayBack, Keep
<1>3. ASSUME NEW a \in Advance, GrowOld(a) PROVE Typed'
  <2>1. a \in Doc BY <1>0
  <2>2. PICK v \in {"new", "stale", "over"} : doc' = [doc EXCEPT ![a].age = v]
    BY <1>3 DEF GrowOld
  <2>3. doc' = [doc EXCEPT ![a] = [doc[a] EXCEPT !.age = v]] BY <2>1, <2>2 DEF Typed
  <2>4. doc' \in [Doc -> DocRec] BY <2>1, <2>3, ValueTyped, OneDocTyped
  <2>5. UNCHANGED hooks BY <1>3 DEF GrowOld, Keep
  <2> QED BY <1>1, <2>4, <2>5, TypedIs
<1>4. ASSUME NEW d \in Doc, NEW a \in Advance, Refer(d, a) PROVE Typed'
  BY <1>4, ValueTyped, WriteTyped, <1>1, TypedIs DEF Refer, Keep
<1>5. ASSUME NEW d \in Doc, Complete(d) PROVE Typed'
  BY <1>5, FieldTyped, OneDocTyped, ToldTyped, <1>1, TypedIs DEF Complete, Completed, Typed
<1>6. ASSUME NEW d \in Doc, Delete(d) PROVE Typed'
  <2>1. doc' = [doc EXCEPT ![d] = [doc[d] EXCEPT !.state = "gone", !.dirty = FALSE]]
    BY <1>6 DEF Delete, Typed
  <2>2. doc' \in [Doc -> DocRec] BY <2>1, FieldTyped, OneDocTyped
  <2>3. hooks' \subseteq HookRec BY <1>6 DEF Delete, HookRec, Typed
  <2> QED BY <1>1, <2>2, <2>3, TypedIs
<1> QED BY <1>2, <1>3, <1>4, <1>5, <1>6

\* The update chain.
LEMMA PassTyped == ASSUME Typed, NEW d \in Doc, Pass(d) PROVE Typed'
<1>1. doc[d] \in DocRec /\ d \in Slot BY DEF Typed, Slot
<1>2. doc' \in [Doc -> DocRec] BY FieldTyped, OneDocTyped DEF Pass, Typed
<1> DEFINE v == [pc |-> "capture", d |-> d, line |-> doc[d].line, piece |-> doc[d].piece,
                 tag |-> doc[d].tag, src |-> None, read |-> 0]
<1>3. v \in PassRun BY <1>1, AdvanceAssumption DEF PassRun, DocRec, PassPc
<1>4. Fits(v) BY <1>3 DEF Fits
<1>5. run' = [run EXCEPT ![d] = v] BY DEF Pass
<1> HIDE DEF v
<1>6. RunTyped' BY <1>1, <1>4, <1>5, RunIs
<1>7. UNCHANGED <<case, row, hooks>> BY DEF Pass, Handling
<1> QED BY <1>2, <1>6, <1>7, TypedIs

LEMMA ChainDocTyped ==
  ASSUME Typed, NEW s \in Slot,
         Capture(s) \/ RemoveLine(s) \/ Commit(s) \/ Absorb(s) \/ Unconfirmed(s) \/ Reserve(s)
         \/ Tag(s) \/ Clear(s) \/ Refund(s)
  PROVE  doc' \in [Doc -> DocRec]
<1>0. run[s].pc \in PassPc
  BY DEF Capture, Captures, RemoveLine, Commit, Absorb, Unconfirmed, Reserve, Tag, Clear, Refund, Refunds, PassPc
<1>1. run[s] \in PassRun /\ run[s].d \in Doc BY <1>0, PassRunning
<1>a. PICK d \in Doc : d = run[s].d BY <1>1
<1>b. doc \in [Doc -> DocRec] /\ doc[d] \in DocRec BY DEF Typed
<1>2. ASSUME Capture(s) \/ Commit(s) \/ Refund(s) PROVE doc' \in [Doc -> DocRec]
  BY <1>2, <1>a, <1>b, ValueTyped, WriteTyped DEF Capture, Captures, Commit, Refund, Refunds, Status
<1>3. ASSUME RemoveLine(s) \/ Unconfirmed(s) PROVE doc' \in [Doc -> DocRec]
  BY <1>3, <1>a, <1>b, FieldTyped, WriteTyped DEF RemoveLine, Unconfirmed
<1>4. ASSUME Absorb(s) PROVE doc' \in [Doc -> DocRec] BY <1>4, <1>a, LegTyped, <1>b, WriteTyped DEF Absorb
<1>5. ASSUME Reserve(s) PROVE doc' \in [Doc -> DocRec]
  BY <1>5, OrderIs DEF Reserve, Status
<1>6. ASSUME Tag(s) PROVE doc' \in [Doc -> DocRec]
  BY <1>1, <1>6, PassRunning, <1>a, <1>b, ValueTyped, WriteTyped DEF Tag, PassRun
<1>7. ASSUME Clear(s) PROVE doc' \in [Doc -> DocRec]
  BY <1>7, <1>a, ValueTyped, WriteTyped DEF Clear
<1> QED BY <1>2, <1>3, <1>4, <1>5, <1>6, <1>7

LEMMA ChainRunTyped ==
  ASSUME Typed, NEW s \in Slot,
         \/ Capture(s) \/ Issue(s) \/ RemoveLine(s) \/ Commit(s) \/ CommitRow(s)
         \/ ReadRef(s) \/ Gate(s) \/ Absorb(s) \/ Unconfirmed(s)
         \/ Reserve(s) \/ Tag(s) \/ ReserveRow(s) \/ Clear(s) \/ Refund(s) \/ Close(s)
  PROVE  RunTyped'
<1>0. run[s].pc \in PassPc
  BY DEF Capture, Captures, Issue, RemoveLine, Commit, CommitRow, ReadRef, Gate, Absorb, Unconfirmed,
         Reserve, Tag, ReserveRow, Clear, Refund, Refunds, Close, PassPc
<1> DEFINE AtSrc == {"gate", "absorb", "unconfirmed", "reserve", "tag", "reserveRow"}
           Goes == \E pc \in PassPc : Goto(s, pc) /\ (pc \in AtSrc => run[s].pc \in AtSrc)
<1>1. Goes => RunTyped' BY <1>0, GotoPass
<1>2. Done(s) => RunTyped' BY DoneTyped
<1>3. CASE Capture(s) \/ Issue(s) \/ RemoveLine(s) \/ Commit(s) \/ CommitRow(s)
  BY <1>3, <1>1 DEF Capture, Captures, Issue, RemoveLine, Commit, CommitRow, PassPc
<1>4. CASE Gate(s) \/ Absorb(s) \/ Unconfirmed(s) \/ Reserve(s)
  BY <1>4, <1>1 DEF Gate, Absorb, Unconfirmed, Reserve, PassPc
<1>5. CASE Tag(s) \/ ReserveRow(s) \/ Clear(s) \/ Refund(s) \/ Close(s)
  BY <1>5, <1>1, <1>2 DEF Tag, ReserveRow, Clear, Refund, Refunds, Close, PassPc
<1>6. CASE ReadRef(s)
  <2>1. run[s] \in PassRun /\ run[s].d \in Doc BY <1>0, PassRunning
  <2> DEFINE a == doc[run[s].d].ref
             v == [run[s] EXCEPT !.pc = "gate", !.src = a, !.read = doc[run[s].d].legs[a]]
  <2>2. CASE a # None /\ run' = [run EXCEPT ![s].pc = "gate", ![s].src = a, ![s].read = doc[run[s].d].legs[a]]
    <3>1. doc[run[s].d] \in DocRec BY <2>1 DEF Typed
    <3>2. a \in Advance /\ doc[run[s].d].legs[a] \in 0..MaxLegs BY <2>2, <3>1 DEF DocRec
    <3>3. v \in PassRun /\ v.src \in Advance BY <2>1, <3>2 DEF PassRun, PassPc
    <3>4. Fits(v) BY <3>3 DEF Fits
    <3>5. run' = [run EXCEPT ![s] = v] BY <2>2 DEF Typed
    <3> HIDE DEF v
    <3> QED BY <3>4, <3>5, RunIs
  <2>3. Goes \/ (a # None /\ run' = [run EXCEPT ![s].pc = "gate", ![s].src = a, ![s].read = doc[run[s].d].legs[a]])
    BY <1>6 DEF ReadRef, PassPc
  <2> QED BY <1>1, <2>2, <2>3
<1> QED BY <1>3, <1>4, <1>5, <1>6

LEMMA ChainTyped ==
  ASSUME Typed, NEW s \in Slot,
         \/ Capture(s) \/ Issue(s) \/ RemoveLine(s) \/ Commit(s) \/ CommitRow(s)
         \/ ReadRef(s) \/ Gate(s) \/ Absorb(s) \/ Unconfirmed(s)
         \/ Reserve(s) \/ Tag(s) \/ ReserveRow(s) \/ Clear(s) \/ Refund(s) \/ Close(s)
  PROVE  Typed'
  BY ChainRunTyped, ChainDocTyped, TypedIs, PassRunning, RowTyped DEF Capture, Captures, Issue, RemoveLine, Commit, CommitRow,
     ReadRef, Gate, Absorb, Unconfirmed, Reserve, Tag, ReserveRow, Clear, Refund, Refunds, Close, Handling, PassPc, Name,
     RowStatus, Status

\* The webhooks.
LEMMA HandledTyped ==
  ASSUME Typed, NEW h \in hooks, HandleCompleted(h) \/ HandleDeleted(h) PROVE Typed'
<1>0. Hook \in Slot /\ h \in HookRec BY DEF Slot, Typed
<1>1. UNCHANGED <<case, doc, row>> /\ hooks' \subseteq HookRec
  BY DEF HandleCompleted, HandleDeleted, Typed
<1>2. CASE HandleCompleted(h)
  <2> DEFINE v == [pc |-> "copy", d |-> h.d, tag |-> h.tag, piece |-> h.piece, own |-> "none"]
  <2>1. v \in HookRun BY <1>0, <1>2 DEF HandleCompleted, HookRec, HookRun, HookPc, Status
  <2>2. run' = [run EXCEPT ![Hook] = v] BY <1>2 DEF HandleCompleted
  <2>3. Fits(v) BY <2>1 DEF Fits
  <2> HIDE DEF v
  <2>4. RunTyped' BY <1>0, <2>2, <2>3, RunIs
  <2> QED BY <1>1, <2>4, TypedIs
<1>3. CASE HandleDeleted(h)
  <2> DEFINE v == [pc |-> "deleted", d |-> h.d, todo |-> {"close", "revert"}]
  <2>1. v \in DeleteRun BY <1>0, <1>3 DEF HandleDeleted, HookRec, DeleteRun
  <2>2. run' = [run EXCEPT ![Hook] = v] BY <1>3 DEF HandleDeleted
  <2>3. Fits(v) BY <2>1 DEF Fits
  <2> HIDE DEF v
  <2>4. RunTyped' BY <1>0, <2>2, <2>3, RunIs
  <2> QED BY <1>1, <2>4, TypedIs
<1> QED BY <1>2, <1>3

LEMMA HookStepTyped ==
  ASSUME Typed, NEW s \in Slot,
         Copy(s) \/ Spend(s) \/ SpendRow(s) \/ ReadOwn(s) \/ RekeyRow(s) \/ Settle(s) \/ SettleRow(s)
  PROVE  Typed'
<1>0. run[s].pc \in HookPc
  BY DEF Copy, Spend, SpendRow, ReadOwn, RekeyRow, Settle, SettleRow, HookPc
<1>1. run[s] \in HookRun /\ run[s].d \in Doc /\ run[s].tag \subseteq Advance
  BY <1>0, HookRunning DEF HookRun
<1>2. UNCHANGED <<case, hooks>>
  BY DEF Copy, Spend, SpendRow, ReadOwn, RekeyRow, Settle, SettleRow, Handling
<1> DEFINE Goes == \E pc \in HookPc : Goto(s, pc)
<1>3. Goes \/ Done(s) => RunTyped' BY <1>0, GotoHook, DoneTyped
<1>4. RunTyped'
  <2>1. CASE ReadOwn(s)
    <3> DEFINE own == doc[run[s].d].order
               v == [run[s] EXCEPT !.pc = "rekey", !.own = own]
    <3>1. doc[run[s].d] \in DocRec BY <1>1 DEF Typed
    <3>2. v \in HookRun BY <1>1, <3>1 DEF HookRun, HookPc, DocRec
    <3>3. Fits(v) BY <3>2 DEF Fits
    <3>4. Done(s) \/ run' = [run EXCEPT ![s] = v] BY <2>1 DEF ReadOwn, Typed
    <3> HIDE DEF v
    <3> QED BY <1>3, <3>3, <3>4, RunIs
  <2>2. CASE Copy(s) \/ Spend(s) \/ SpendRow(s) \/ RekeyRow(s) \/ Settle(s) \/ SettleRow(s)
    BY <2>2, <1>3 DEF Copy, AfterCopy, Spend, SpendRow, RekeyRow, AfterRekey, Settle, SettleRow, HookPc
  <2> QED BY <2>1, <2>2
<1>5. doc' \in [Doc -> DocRec]
  <2>1. UNCHANGED doc \/ \E a \in Doc, v \in Status : OnOrder(a, v)
    BY <1>1, AdvanceAssumption DEF Typed, Copy, DocRec, Spend, Status, Settle, SpendRow, ReadOwn, RekeyRow, SettleRow
  <2> QED BY <2>1, OrderIs DEF Typed
<1>6. row' \in [Advance -> [Name -> RowRec]]
  BY <1>1, AdvanceAssumption, RowTyped DEF Name, Copy, Spend, SpendRow, ReadOwn, RekeyRow, Settle, SettleRow, Typed
<1> QED BY <1>2, <1>4, <1>5, <1>6, TypedIs

LEMMA DeletedTyped ==
  ASSUME Typed, NEW s \in Slot, CloseDeleted(s) \/ Revert(s) PROVE Typed'
<1>1. run[s] \in DeleteRun /\ run[s].d \in Doc
  BY OtherRunning DEF CloseDeleted, Revert, DeleteRun
<1>2. UNCHANGED <<case, doc, hooks>> BY DEF CloseDeleted, Revert, Handling
<1>3. row' \in [Advance -> [Name -> RowRec]] BY <1>1, RowTyped DEF Name, RowStatus, CloseDeleted, Revert, Typed
<1>4. RunTyped'
  <2>1. PICK what : Tidied(s, what) BY DEF CloseDeleted, Revert
  <2> DEFINE v == [run[s] EXCEPT !.todo = @ \ {what}]
  <2>2. Done(s) \/ run' = [run EXCEPT ![s] = v] BY <2>1 DEF Tidied, Typed
  <2>3. v \in DeleteRun BY <1>1 DEF DeleteRun
  <2>4. Fits(v) BY <2>3 DEF Fits
  <2> HIDE DEF v
  <2> QED BY <2>2, <2>4, RunIs, DoneTyped
<1> QED BY <1>2, <1>3, <1>4, TypedIs

\* The sweep.
LEMMA SweepTyped ==
  ASSUME Typed,
         \/ \E a \in Advance : SweepStale(a)
         \/ \E a \in Advance, n \in Name : SweepOverdue(a, n)
         \/ \E s \in Slot : Convert(s) \/ Stamp(s)
  PROVE  Typed'
<1>0. Sweep \in Slot BY DEF Slot
<1>1. ASSUME NEW a \in Advance, NEW n \in Name, SweepStale(a) \/ SweepOverdue(a, n) PROVE Typed'
  <2>1. UNCHANGED <<case, doc, hooks>> BY <1>1 DEF SweepStale, SweepOverdue, Handling
  <2>2. \E v : (v = Idle \/ Fits(v)) /\ run' = [run EXCEPT ![Sweep] = v]
    BY <1>1 DEF SweepRun, SweepStale, SweepOverdue, Fits
  <2>3. RunTyped' BY <1>0, <2>2, RunIs
  <2>4. UNCHANGED row \/ row' = [row EXCEPT ![a][n] = [row[a][n] EXCEPT !.status = "expired"]]
    BY <1>1 DEF SweepStale, SweepOverdue, Typed
  <2>5. row \in [Advance -> [Name -> RowRec]] BY DEF Typed
  <2>6. row[a][n] \in RowRec /\ "expired" \in RowStatus BY <2>5 DEF RowStatus, Status
  <2>8. [row[a][n] EXCEPT !.status = "expired"] \in RowRec BY <2>6 DEF RowRec
  <2>7. row' \in [Advance -> [Name -> RowRec]] BY <2>4, <2>5, <2>8
  <2> QED BY <2>1, <2>3, <2>7, TypedIs DEF Typed
<1>2. ASSUME NEW s \in Slot, Convert(s) PROVE Typed'
  <2>1. run[s].d \in Doc BY <1>2, OtherRunning, AdvanceAssumption DEF Convert, SweepRun
  <2>a. PICK d \in Doc : d = run[s].d BY <2>1
  <2>2. UNCHANGED <<case, row>> /\ RunTyped' BY <1>2, DoneTyped DEF Convert
  <2>3. UNCHANGED <<doc, hooks>> \/ (doc' = Completed(d) /\ hooks' = ToldCompleted(d))
    BY <1>2, <2>a DEF Convert
  <2>4. doc' = Completed(d) => doc' \in [Doc -> DocRec] BY FieldTyped, OneDocTyped DEF Completed, Typed
  <2>5. hooks' \subseteq HookRec BY <2>3, ToldTyped DEF Typed
  <2>6. doc' \in [Doc -> DocRec] BY <2>3, <2>4 DEF Typed
  <2> QED BY <2>2, <2>5, <2>6, TypedIs
<1>3. ASSUME NEW s \in Slot, Stamp(s) PROVE Typed'
  BY <1>3, OtherRunning, AdvanceAssumption, DoneTyped, OrderIs, TypedIs DEF Stamp, SweepRun, Handling, Status
<1>4. "draft" \in Name BY DEF Name
<1> QED BY <1>1, <1>2, <1>3, <1>4

LEMMA FaultTyped ==
  ASSUME Typed, Restart \/ \E s \in Slot : Fails(s) PROVE Typed'
<1>1. CASE Restart BY <1>1, TypedIs DEF Restart, Busy, Idle, RunTyped, Typed
<1>2. ASSUME NEW s \in Slot, Fails(s) PROVE Typed'
  <2>1. UNCHANGED <<case, doc, row, hooks>> BY <1>2 DEF Fails
  <2> DEFINE AtSrc == {"gate", "absorb", "unconfirmed", "reserve", "tag", "reserveRow"}
  <2>2. Fits(run[s]) /\ run[s].pc \notin {"absorb", "deleted"} BY <1>2 DEF Fails, Typed
  <2>3. CASE run[s].pc \in PassPc
    <3>1. \/ Done(s) \/ Goto(s, "issue") \/ Goto(s, "close")
          \/ run[s].pc \in DOMAIN AfterFailure /\ Goto(s, AfterFailure[run[s].pc])
      BY <1>2, <2>3 DEF Fails, NotWritten, Ends, PassPc
    <3>2. run[s].pc \in DOMAIN AfterFailure =>
             /\ AfterFailure[run[s].pc] \in PassPc
             /\ AfterFailure[run[s].pc] \in AtSrc => run[s].pc \in AtSrc
      BY <2>3 DEF AfterFailure, PassPc
    <3>4. {"issue", "close"} \subseteq PassPc \ AtSrc BY DEF PassPc
    <3>3. RunTyped' BY <2>3, <3>1, <3>2, <3>4, GotoPass, DoneTyped
    <3> QED BY <2>1, <3>3, TypedIs DEF Typed
  <2>4. CASE run[s].pc \in HookPc
    <3>1. Done(s) \/ \E pc \in HookPc : Goto(s, pc)
      BY <1>2, <2>4 DEF Fails, NotWritten, Ends, HookPc, AfterCopy, AfterRekey, AfterFailure
    <3>2. RunTyped' BY <2>4, <3>1, GotoHook, DoneTyped
    <3> QED BY <2>1, <3>2, TypedIs DEF Typed
  <2>5. CASE run[s].pc \in {"convert", "stamp"}
    <3>1. ~NotWritten(s) /\ (Ends(s) => Done(s)) BY <2>5 DEF NotWritten, Ends, AfterFailure
    <3>2. Done(s) BY <1>2, <3>1 DEF Fails
    <3>3. RunTyped' BY <3>2, DoneTyped
    <3> QED BY <2>1, <3>3, TypedIs DEF Typed
  <2> QED BY <2>2, <2>3, <2>4, <2>5 DEF Fits, PassRun, HookRun, DeleteRun, SweepRun
<1> QED BY <1>1, <1>2

LEMMA ForgetTyped == ASSUME Typed, NEW d \in Doc, Forget(d) PROVE Typed'
<1>1. [doc[d] EXCEPT !.dirty = FALSE] \in DocRec BY FieldTyped
<1>2. doc' = [doc EXCEPT ![d] = [doc[d] EXCEPT !.dirty = FALSE]] BY DEF Forget, Typed
<1>3. doc' \in [Doc -> DocRec] BY <1>1, <1>2 DEF Typed
<1> QED BY <1>3, SameRun, TypedIs DEF Forget, Handling, Typed

LEMMA StepTyped == ASSUME Typed, NEW s \in Slot, Step(s) PROVE Typed'
  BY ChainTyped, HookStepTyped, DeletedTyped, SweepTyped DEF Step

LEMMA NextTyped == Typed /\ [Next]_vars => Typed'
<1> SUFFICES ASSUME Typed, [Next]_vars PROVE Typed' OBVIOUS
<1>1. CASE UNCHANGED vars BY <1>1, SameRun, TypedIs DEF vars, Typed
<1>2. CASE \/ \E a \in Advance : Take(a) \/ AddPiece(a) \/ PayBack(a) \/ GrowOld(a)
           \/ \E d \in Doc, a \in Advance : Refer(d, a)
           \/ \E d \in Doc : Complete(d) \/ Delete(d)
  BY <1>2, StaffTyped
<1>3. CASE \E d \in Doc : Pass(d) \/ Forget(d) BY <1>3, PassTyped, ForgetTyped
<1>4. CASE \E s \in Slot : Step(s) BY <1>4, StepTyped
<1>5. CASE \E h \in hooks : HandleCompleted(h) \/ HandleDeleted(h) BY <1>5, HandledTyped
<1>6. CASE (\E a \in Advance : SweepStale(a)) \/ \E a \in Advance, n \in Name : SweepOverdue(a, n)
  BY <1>6, SweepTyped
<1>7. CASE Restart \/ \E s \in Slot : Fails(s) BY <1>7, FaultTyped
<1> QED BY <1>1, <1>2, <1>3, <1>4, <1>5, <1>6, <1>7 DEF Next

(* Documents, register rows, requests and webhooks are what the code reads *)
(* and writes: no handler is sent on without the draft or the order its    *)
(* next call needs (cad_advance_handlers.js).                              *)
THEOREM AdvanceTypes == Spec => []TypeOK
<1>1. Spec => []Typed
  <2>1. Init => Typed BY InitTyped
  <2>2. Typed /\ [Next]_vars => Typed' BY NextTyped
  <2> QED BY <2>1, <2>2, PTL DEF Spec
<1>2. Typed => TypeOK BY TypedIsTypeOK
<1> QED BY <1>1, <1>2, PTL

--------------------
(* An advance settles one bill                                             *)

\* Requests run one at a time, a pass on a draft that stays one.
OneRequest == \A s, t \in Slot : Busy(s) /\ Busy(t) => s = t

Orderly == Only(Trouble \ {"again", "reject", "fault", "overlap"})

\* On an order, told what it is worth, and no longer free to be spent.
Taken(a) == doc[a].state = "order" /\ doc[a].order \notin {"none", "open"}

Completions == {h \in hooks : h.kind = "completed"}

\* Its own conversion gives an order its first word, once.
ToldOnce ==
    /\ \A e \in Doc : doc[e].order # "none" => doc[e].state = "order"
    /\ \A h \in Completions : /\ doc[h.d].state = "order" /\ doc[h.d].order = "none"
                              /\ h.piece = doc[h.d].piece
                              /\ \A a \in h.tag : Taken(a)
    /\ \A h, g \in Completions : h.d = g.d => h = g
    /\ \A d \in Doc : \A a \in doc[d].tag : Taken(a)
    /\ \A a \in Advance : row[a]["order"].status # "none" => doc[a].order # "none"

\* What a request knows is still so.
Knows(r) ==
    /\ r.pc \in PassPc =>
          /\ doc[r.d].state = "draft"
          /\ \A a \in r.tag : Taken(a)
          /\ r.pc \in {"gate", "absorb"} => r.read = doc[r.d].legs[r.src]
          /\ r.pc \in {"absorb", "reserve"} => doc[r.src].order = "open"
          /\ r.pc \in {"tag", "reserveRow"} => Taken(r.src)
    /\ r.pc \in HookPc =>
          /\ doc[r.d].state = "order" /\ r.piece = doc[r.d].piece
          /\ \A a \in r.tag : Taken(a)
          /\ \A h \in Completions : h.d # r.d
          /\ r.pc = "copy" => doc[r.d].order = "none"
          /\ r.pc \in {"rekey", "settle", "settleRow"} => doc[r.d].order # "none"
          /\ r.pc \in {"rekey", "settle"} => r.own = doc[r.d].order
          /\ r.pc = "settle" => r.own \notin {"redeemed", "expired"}
    /\ r.pc = "stamp" => doc[r.d].order # "none"

\* What is on a bill is one leg, on one document, of an order that is not
\* open to another.
Held(a) ==
    \A d \in Doc : doc[d].legs[a] > 0 =>
        /\ doc[d].legs[a] = 1
        /\ \A e \in Doc : doc[e].legs[a] > 0 => e = d
        /\ doc[a].state = "order" /\ doc[a].order # "none"
        /\ ~SoldBeside(a)
        /\ doc[a].order = "open" => \E s \in Slot : run[s].pc = "reserve" /\ run[s].src = a

\* What was sold beside is spent by its own conversion, before another can
\* look at the order.
Settling(a) ==
    SoldBeside(a) /\ doc[a].order = "open" =>
        \E s \in Slot : /\ run[s].pc \in {"spend", "spendRow", "own", "rekey", "settle"}
                        /\ run[s].d = a

SettleInv ==
    Orderly =>
        /\ ToldOnce
        /\ \A s \in Slot : Knows(run[s])
        /\ \A a \in Advance : Held(a) /\ Settling(a)

\* A request alone: the others wait, before it goes on and after.
LEMMA OrderlyIs ==
  ASSUME Orderly
  PROVE  /\ ~Allowed("again") /\ ~Allowed("reject") /\ ~Allowed("fault") /\ ~Allowed("overlap")
         /\ case' = case => Orderly'
  BY DEF Orderly, Only, Allowed, Trouble

LEMMA QuietOrOne ==
  ASSUME OneRequest, NEW s \in Slot, Busy(s) PROVE \A t \in Slot \ {s} : run[t].pc = "idle"
  BY DEF OneRequest, Busy

\* A step changes one request, or none, or ends all; one that begins, begins alone.
LEMMA StepRuns ==
  ASSUME Typed, NEW s \in Slot, Step(s) \/ Fails(s)
  PROVE  Busy(s) /\ \A t \in Slot \ {s} : run'[t] = run[t]
<1>0. run = [t \in Slot |-> run[t]] BY DEF Typed
<1>1. ASSUME NEW v, run' = [run EXCEPT ![s] = v] PROVE \A t \in Slot \ {s} : run'[t] = run[t]
  BY <1>0, <1>1
<1>2. ASSUME \/ Capture(s) \/ Issue(s) \/ RemoveLine(s) \/ Commit(s) \/ CommitRow(s)
             \/ ReadRef(s) \/ Gate(s) \/ Absorb(s) \/ Unconfirmed(s)
      PROVE  Busy(s) /\ \E v : run' = [run EXCEPT ![s] = v]
  <2>1. CASE ReadRef(s)
    <3> DEFINE a == doc[run[s].d].ref
               v == [run[s] EXCEPT !.pc = "gate", !.src = a, !.read = doc[run[s].d].legs[a]]
    <3>1. \/ \E pc : Goto(s, pc)
          \/ run' = [run EXCEPT ![s].pc = "gate", ![s].src = a, ![s].read = doc[run[s].d].legs[a]]
      BY <2>1 DEF ReadRef
    <3>3. (\E pc : Goto(s, pc)) \/ run' = [run EXCEPT ![s] = v] BY <1>0, <3>1
    <3>2. \E u : run' = [run EXCEPT ![s] = u]
      <4> HIDE DEF v
      <4> QED BY <3>3 DEF Goto
    <3> QED BY <2>1, <3>2 DEF ReadRef, Busy
  <2>2. CASE \/ Capture(s) \/ Issue(s) \/ RemoveLine(s) \/ Commit(s) \/ CommitRow(s)
             \/ Gate(s) \/ Absorb(s) \/ Unconfirmed(s)
    BY <2>2 DEF Capture, Captures, Issue, RemoveLine, Commit, CommitRow, Gate, Absorb, Unconfirmed, Busy, Goto
  <2> QED BY <1>2, <2>1, <2>2
<1>3. ASSUME Reserve(s) \/ Tag(s) \/ ReserveRow(s) \/ Clear(s) \/ Refund(s) \/ Close(s)
      PROVE  Busy(s) /\ \E v : run' = [run EXCEPT ![s] = v]
  BY <1>3 DEF Reserve, Tag, ReserveRow, Clear, Refund, Refunds, Close, Busy, Goto, Done
<1>4. ASSUME Copy(s) \/ Spend(s) \/ SpendRow(s) \/ ReadOwn(s) \/ RekeyRow(s) \/ Settle(s) \/ SettleRow(s)
      PROVE  Busy(s) /\ \E v : run' = [run EXCEPT ![s] = v]
  BY <1>0, <1>4 DEF Copy, AfterCopy, Spend, SpendRow, ReadOwn, RekeyRow, AfterRekey, Settle, SettleRow, Busy, Goto,
     Done
<1>5. ASSUME CloseDeleted(s) \/ Revert(s) \/ Convert(s) \/ Stamp(s) \/ Fails(s)
      PROVE  Busy(s) /\ \E v : run' = [run EXCEPT ![s] = v]
  BY <1>0, <1>5 DEF CloseDeleted, Revert, Tidied, Convert, Stamp, Fails, NotWritten, Ends,
     AfterCopy, AfterRekey, Busy, Goto, Done
<1> QED BY <1>1, <1>2, <1>3, <1>4, <1>5 DEF Step

LEMMA Begins ==
  ASSUME Typed,
         \/ \E d \in Doc : Pass(d)
         \/ \E h \in hooks : HandleCompleted(h) \/ HandleDeleted(h)
         \/ \E a \in Advance : SweepStale(a)
         \/ \E a \in Advance, n \in Name : SweepOverdue(a, n)
  PROVE  \E s \in Slot : CanStart(s) /\ \A t \in Slot \ {s} : run'[t] = run[t]
<1>0. run = [t \in Slot |-> run[t]] BY DEF Typed
<1>1. \E s \in Slot : \E v : CanStart(s) /\ run' = [run EXCEPT ![s] = v]
  BY DEF Pass, HandleCompleted, HandleDeleted, SweepStale, SweepOverdue, Slot
<1> QED BY <1>0, <1>1

LEMMA OneRequestNext ==
  ASSUME Typed, ~Allowed("overlap"), OneRequest, [Next]_vars PROVE OneRequest'
<1>1. CASE \/ \E d \in Doc : Pass(d)
           \/ \E h \in hooks : HandleCompleted(h) \/ HandleDeleted(h)
           \/ \E a \in Advance : SweepStale(a)
           \/ \E a \in Advance, n \in Name : SweepOverdue(a, n)
  <2>1. PICK s \in Slot : CanStart(s) /\ \A t \in Slot \ {s} : run'[t] = run[t] BY <1>1, Begins
  <2>2. \A t \in Slot \ {s} : ~Busy(t)' BY <2>1 DEF CanStart, Quiet, Busy
  <2> QED BY <2>2 DEF OneRequest
<1>2. ASSUME NEW s \in Slot, Step(s) \/ Fails(s) PROVE OneRequest' BY <1>2, StepRuns DEF OneRequest, Busy
<1>3. CASE Restart BY <1>3 DEF Restart, Busy, Idle, OneRequest
<1>4. CASE UNCHANGED run BY <1>4 DEF OneRequest, Busy
<1>5. CASE \/ \E a \in Advance : Take(a) \/ AddPiece(a) \/ PayBack(a) \/ GrowOld(a)
           \/ \E d \in Doc, a \in Advance : Refer(d, a)
           \/ \E d \in Doc : Complete(d) \/ Delete(d) \/ Forget(d)
  BY <1>4, <1>5 DEF Take, AddPiece, PayBack, GrowOld, Refer, Complete, Delete, Forget, Keep
<1>6. CASE UNCHANGED vars BY <1>4, <1>6 DEF vars
<1> QED BY <1>1, <1>2, <1>3, <1>5, <1>6 DEF Next

\* A step that leaves a document what the others go by: on an order piece and
\* status, and what it is worth, unless that is closed to others.
Keeps(e) ==
    /\ doc'[e].state = doc[e].state /\ doc'[e].legs = doc[e].legs
    /\ \A a \in doc'[e].tag : a \in doc[e].tag \/ (a \in Advance /\ Taken(a))
    /\ \/ doc'[e].order = doc[e].order
       \/ doc[e].order # "none" /\ doc'[e].order \notin {"none", "open"}
    /\ doc[e].state # "draft" => doc'[e].piece = doc[e].piece /\ doc'[e].status = doc[e].status

SettlingPc == {"spend", "spendRow", "own", "rekey", "settle"}

\* The register has an order's row once the order was told what it is worth.
RowsFollow ==
    \A a \in Advance : row'[a]["order"].status # "none" =>
        row[a]["order"].status # "none" \/ doc[a].order # "none"

LEMMA KeepsSettles ==
  ASSUME Typed, Orderly, SettleInv, \A e \in Doc : Keeps(e), hooks' \subseteq hooks, RowsFollow,
         \A s \in Slot : Knows(run[s])',
         \A s \in Slot : run[s].pc = "reserve" => run'[s] = run[s] \/ doc'[run[s].src].order # "open",
         \A s \in Slot : run[s].pc \in SettlingPc =>
             \/ run'[s].pc \in SettlingPc /\ run'[s].d = run[s].d
             \/ ~SoldBeside(run[s].d) \/ doc'[run[s].d].order # "open"
  PROVE  SettleInv'
<1>0. Advance \subseteq Doc /\ \A h \in hooks : h.kind = "completed" => h.d \in Doc /\ h.tag \subseteq Advance
  BY AdvanceAssumption DEF Typed, HookRec
<1>1. ToldOnce /\ \A a \in Advance : Held(a) /\ Settling(a) BY DEF SettleInv
<1>2. \A a \in Doc : Taken(a) => Taken(a)' BY DEF Taken, Keeps
<1>3. ToldOnce'
  <2>1. \A e \in Doc : doc'[e].order # "none" => doc'[e].state = "order" BY <1>1 DEF ToldOnce, Keeps
  <2>2. ASSUME NEW h \in Completions'
        PROVE  /\ doc'[h.d].state = "order" /\ doc'[h.d].order = "none" /\ h.piece = doc'[h.d].piece
               /\ \A a \in h.tag : Taken(a)' BY <1>0, <2>2, <1>1, <1>2 DEF Completions, ToldOnce, Keeps
  <2>3. \A h, g \in Completions' : h.d = g.d => h = g BY <1>1 DEF ToldOnce, Completions
  <2>4. ASSUME NEW d \in Doc, NEW a \in doc'[d].tag PROVE Taken(a)'
    BY <2>4, <1>1, <1>0, <1>2 DEF Keeps, Typed, DocRec, ToldOnce
  <2>5. \A a \in Advance : row'[a]["order"].status # "none" => doc'[a].order # "none"
    BY <1>0, <1>1 DEF ToldOnce, Keeps, RowsFollow
  <2> QED BY <2>1, <2>2, <2>3, <2>4, <2>5 DEF ToldOnce
<1>4. ASSUME NEW a \in Advance PROVE Held(a)' BY <1>0, <1>1 DEF Keeps, Held, SoldBeside
<1>5. ASSUME NEW a \in Advance PROVE Settling(a)'
  <2>1. a \in Doc /\ Settling(a) BY <1>0, <1>1
  <2>2. ASSUME SoldBeside(a)', doc'[a].order = "open"
        PROVE  \E s \in Slot : run'[s].pc \in SettlingPc /\ run'[s].d = a
    <3>1. doc[a].order = "open" BY <2>1, <2>2 DEF Keeps
    <3>2. doc[a].state = "order" BY <1>1, <2>1, <3>1 DEF ToldOnce
    <3>3. SoldBeside(a) BY <2>1, <2>2, <3>2 DEF Keeps, SoldBeside
    <3>4. PICK s \in Slot : run[s].pc \in SettlingPc /\ run[s].d = a
      BY <2>1, <3>1, <3>3 DEF Settling, SettlingPc
    <3> QED BY <2>2, <3>3, <3>4
  <2> QED BY <2>2 DEF Settling, SettlingPc
<1> QED BY <1>3, <1>4, <1>5 DEF SettleInv

LEMMA WriteKeeps ==
  ASSUME Typed, NEW d \in Doc, NEW r \in DocRec, Write(d, r),
         r.state = doc[d].state, r.legs = doc[d].legs, r.tag = doc[d].tag, r.order = doc[d].order,
         doc[d].state # "draft" => r.piece = doc[d].piece /\ r.status = doc[d].status
  PROVE  \A e \in Doc : Keeps(e) /\ doc'[e].order = doc[e].order
<1>1. \A e \in Doc \ {d} : doc'[e] = doc[e] BY WriteIs
<1>2. doc[d].state = "gone" => doc'[d] = doc[d] BY WriteIs
<1>3. doc[d].state # "gone" => doc'[d] = [r EXCEPT !.dirty = doc[d].state = "draft"] BY WriteIs
<1>4. Keeps(d) /\ doc'[d].order = doc[d].order BY <1>2, <1>3 DEF Keeps, DocRec
<1> QED BY <1>1, <1>4 DEF Keeps

LEMMA FieldKeeps ==
  ASSUME Typed, NEW d \in Doc
  PROVE  /\ \/ Write(d, [doc[d] EXCEPT !.line = TRUE, !.paid = TRUE])
            \/ Write(d, [doc[d] EXCEPT !.refunded = TRUE])
            \/ Write(d, [doc[d] EXCEPT !.line = FALSE])
            \/ Write(d, doc[d])
            \/ \E v \in Advance \cup {None} : Write(d, [doc[d] EXCEPT !.ref = v])
            => \A e \in Doc : Keeps(e) /\ doc'[e].order = doc[e].order
         /\ /\ doc[d].state = "draft"
            /\ \/ Write(d, [doc[d] EXCEPT !.piece = TRUE])
               \/ \E v \in Status : Write(d, [doc[d] EXCEPT !.status = v])
            => \A e \in Doc : Keeps(e) /\ doc'[e].order = doc[e].order
<1> DEFINE Goal == \A e \in Doc : Keeps(e) /\ doc'[e].order = doc[e].order
<1>0. doc[d] \in DocRec BY DEF Typed
<1>1. ASSUME NEW r \in DocRec, Write(d, r), r.state = doc[d].state, r.legs = doc[d].legs, r.tag = doc[d].tag,
             r.order = doc[d].order,
             doc[d].state # "draft" => r.piece = doc[d].piece /\ r.status = doc[d].status
      PROVE  Goal
  BY <1>1, WriteKeeps
<1> HIDE DEF Goal
<1>2. ASSUME Write(d, [doc[d] EXCEPT !.line = TRUE, !.paid = TRUE]) PROVE Goal
  <2> DEFINE r == [doc[d] EXCEPT !.line = TRUE, !.paid = TRUE]
  <2>1. r \in DocRec BY FieldTyped
  <2>2. r.state = doc[d].state /\ r.legs = doc[d].legs /\ r.tag = doc[d].tag /\ r.order = doc[d].order
        /\ (doc[d].state # "draft" => r.piece = doc[d].piece /\ r.status = doc[d].status)
    BY <1>0, <1>2 DEF DocRec
  <2>3. Write(d, r) BY <1>2
  <2> HIDE DEF r
  <2> QED BY <1>1, <2>1, <2>2, <2>3
<1>3. ASSUME Write(d, [doc[d] EXCEPT !.refunded = TRUE]) PROVE Goal
  <2> DEFINE r == [doc[d] EXCEPT !.refunded = TRUE]
  <2>1. r \in DocRec BY FieldTyped
  <2>2. r.state = doc[d].state /\ r.legs = doc[d].legs /\ r.tag = doc[d].tag /\ r.order = doc[d].order
        /\ (doc[d].state # "draft" => r.piece = doc[d].piece /\ r.status = doc[d].status)
    BY <1>0, <1>3 DEF DocRec
  <2>3. Write(d, r) BY <1>3
  <2> HIDE DEF r
  <2> QED BY <1>1, <2>1, <2>2, <2>3
<1>4. ASSUME Write(d, [doc[d] EXCEPT !.line = FALSE]) PROVE Goal
  <2> DEFINE r == [doc[d] EXCEPT !.line = FALSE]
  <2>1. r \in DocRec BY FieldTyped
  <2>2. r.state = doc[d].state /\ r.legs = doc[d].legs /\ r.tag = doc[d].tag /\ r.order = doc[d].order
        /\ (doc[d].state # "draft" => r.piece = doc[d].piece /\ r.status = doc[d].status)
    BY <1>0, <1>4 DEF DocRec
  <2>3. Write(d, r) BY <1>4
  <2> HIDE DEF r
  <2> QED BY <1>1, <2>1, <2>2, <2>3
<1>5. ASSUME Write(d, doc[d]) PROVE Goal
  <2> DEFINE r == doc[d]
  <2>1. r \in DocRec BY FieldTyped
  <2>2. r.state = doc[d].state /\ r.legs = doc[d].legs /\ r.tag = doc[d].tag /\ r.order = doc[d].order
        /\ (doc[d].state # "draft" => r.piece = doc[d].piece /\ r.status = doc[d].status)
    BY <1>0, <1>5 DEF DocRec
  <2>3. Write(d, r) BY <1>5
  <2> HIDE DEF r
  <2> QED BY <1>1, <2>1, <2>2, <2>3
<1>6. ASSUME NEW v \in Advance \cup {None}, Write(d, [doc[d] EXCEPT !.ref = v]) PROVE Goal
  <2> DEFINE r == [doc[d] EXCEPT !.ref = v]
  <2>1. r \in DocRec BY ValueTyped
  <2>2. r.state = doc[d].state /\ r.legs = doc[d].legs /\ r.tag = doc[d].tag /\ r.order = doc[d].order
        /\ (doc[d].state # "draft" => r.piece = doc[d].piece /\ r.status = doc[d].status)
    BY <1>0, <1>6 DEF DocRec
  <2>3. Write(d, r) BY <1>6
  <2> HIDE DEF r
  <2> QED BY <1>1, <2>1, <2>2, <2>3
<1>7. ASSUME doc[d].state = "draft", Write(d, [doc[d] EXCEPT !.piece = TRUE]) PROVE Goal
  <2> DEFINE r == [doc[d] EXCEPT !.piece = TRUE]
  <2>1. r \in DocRec BY FieldTyped
  <2>2. r.state = doc[d].state /\ r.legs = doc[d].legs /\ r.tag = doc[d].tag /\ r.order = doc[d].order
        /\ (doc[d].state # "draft" => r.piece = doc[d].piece /\ r.status = doc[d].status)
    BY <1>0, <1>7 DEF DocRec
  <2>3. Write(d, r) BY <1>7
  <2> HIDE DEF r
  <2> QED BY <1>1, <2>1, <2>2, <2>3
<1>8. ASSUME doc[d].state = "draft", NEW v \in Status, Write(d, [doc[d] EXCEPT !.status = v]) PROVE Goal
  <2> DEFINE r == [doc[d] EXCEPT !.status = v]
  <2>1. r \in DocRec BY ValueTyped
  <2>2. r.state = doc[d].state /\ r.legs = doc[d].legs /\ r.tag = doc[d].tag /\ r.order = doc[d].order
        /\ (doc[d].state # "draft" => r.piece = doc[d].piece /\ r.status = doc[d].status)
    BY <1>0, <1>8 DEF DocRec
  <2>3. Write(d, r) BY <1>8
  <2> HIDE DEF r
  <2> QED BY <1>1, <2>1, <2>2, <2>3
<1> QED BY <1>2, <1>3, <1>4, <1>5, <1>6, <1>7, <1>8 DEF Goal

LEMMA OrderKeeps ==
  ASSUME Typed, NEW a \in Doc, NEW v \in Status \ {"none", "open"}, OnOrder(a, v), doc[a].order # "none"
  PROVE  (\A e \in Doc : Keeps(e)) /\ doc'[a].order = v /\ \A e \in Doc \ {a} : doc'[e] = doc[e]
<1>1. \A e \in Doc \ {a} : doc'[e] = doc[e] BY OrderIs
<1>2. doc'[a] = [doc[a] EXCEPT !.order = v] /\ doc[a] \in DocRec BY OrderIs DEF Typed
<1>3. Keeps(a) /\ doc'[a].order = v BY <1>2 DEF Keeps, DocRec
<1> QED BY <1>1, <1>3 DEF Keeps

LEMMA RowsFollowIs ==
  ASSUME Typed, NEW a \in Advance, NEW d \in Doc, NEW n \in Name
  PROVE  /\ UNCHANGED row => RowsFollow
         /\ UpsertIssued(a) \/ Apply(a, "draft", d) \/ RevertApplied(d) => RowsFollow
         /\ \A v \in RowStatus : CloseInstrument(a, n, v) => RowsFollow
         /\ row[a][n].status = "open" /\ row' = [row EXCEPT ![a][n].status = "expired"] => RowsFollow
         /\ doc[a].order # "none" /\ (Apply(a, "order", d) \/ Redeem(a, "order", d)
                                      \/ RedeemKnown(a, "order", d) \/ Rekey(a)) => RowsFollow
<1>0. row \in [Advance -> [Name -> RowRec]] BY DEF Typed
<1>1. \A b \in Advance : row[b] \in [Name -> RowRec] /\ row[b]["order"] \in RowRec /\ row[b]["draft"] \in RowRec
  BY <1>0 DEF Name
<1>2. UNCHANGED row => RowsFollow BY DEF RowsFollow
<1>3. UpsertIssued(a) \/ Apply(a, "draft", d) => RowsFollow BY <1>0, <1>1 DEF RowsFollow, UpsertIssued, Name, Apply
<1>4. RevertApplied(d) => RowsFollow
  <2>1. ASSUME RevertApplied(d), NEW b \in Advance
        PROVE  row[b]["order"].status = "none" => row'[b]["order"].status = "none"
    BY <2>1 DEF RevertApplied, Name
  <2> QED BY <2>1 DEF RowsFollow
<1>5. ASSUME NEW v \in RowStatus, CloseInstrument(a, n, v) PROVE RowsFollow
  BY <1>0, <1>1, <1>5 DEF RowsFollow, CloseInstrument, Live, Name, RowRec
<1>6. row[a][n].status = "open" /\ row' = [row EXCEPT ![a][n].status = "expired"] => RowsFollow
  BY <1>0, <1>1 DEF RowsFollow, Name, RowRec
<1>7. doc[a].order # "none" /\ (Apply(a, "order", d) \/ Redeem(a, "order", d)
                                \/ RedeemKnown(a, "order", d) \/ Rekey(a)) => RowsFollow
  BY <1>0 DEF Apply, Redeem, RedeemKnown, Rekey, RowsFollow
<1> QED BY <1>2, <1>3, <1>4, <1>5, <1>6, <1>7

\* What a request knows outlives a step that keeps the documents.
LEMMA KnowsStill ==
  ASSUME Typed, NEW CONSTANT r, Fits(r), Knows(r), \A e \in Doc : Keeps(e), hooks' \subseteq hooks,
         r.pc \in {"absorb", "reserve", "rekey", "settle"} =>
             \A e \in Doc : doc'[e].order = doc[e].order
  PROVE  Knows(r)'
  BY AdvanceAssumption DEF Taken, Keeps, Fits, PassRun, HookRun, DeleteRun, SweepRun, PassPc, HookPc, Knows,
     Completions

\* Moving on to a call that needs no more than the last.
PlainPc == PassPc \ {"gate", "absorb", "reserve", "tag", "reserveRow"}

LEMMA KnowsPlain ==
  ASSUME NEW CONSTANT r \in PassRun, NEW CONSTANT pc \in PlainPc
  PROVE  /\ Knows(r) => Knows([r EXCEPT !.pc = pc])
         /\ Knows(r)' => Knows([r EXCEPT !.pc = pc])'
<1> DEFINE m == [r EXCEPT !.pc = pc]
<1>1. m.pc = pc /\ m.d = r.d /\ m.tag = r.tag /\ r.pc \in PassPc BY DEF PassRun
<1> HIDE DEF m
<1>2. Knows(r) => Knows(m) BY <1>1 DEF Knows, PlainPc, PassPc, HookPc
<1>3. Knows(r)' => Knows(m)' BY <1>1 DEF Knows, PlainPc, PassPc, HookPc
<1> QED BY <1>2, <1>3 DEF m

\* The others wait: what is known is what the request at work knows.
LEMMA RunsKnow ==
  ASSUME NEW s \in Slot, \A t \in Slot \ {s} : run'[t].pc = "idle",
         NEW CONSTANT m, run'[s] = m, Knows(m)' \/ m.pc \notin PassPc \cup HookPc \cup {"stamp"}
  PROVE  \A t \in Slot : Knows(run[t])'
  BY DEF Knows, Taken, Completions, PassPc, HookPc

LEMMA QuietKnows ==
  ASSUME \A t \in Slot : run'[t].pc = "idle" PROVE \A t \in Slot : Knows(run[t])'
  BY DEF Knows, PassPc, HookPc

\* Staff, but for a conversion and a deletion.
LEMMA StaffSettles ==
  ASSUME Typed, Orderly, SettleInv,
         \/ \E a \in Advance : Take(a) \/ AddPiece(a) \/ PayBack(a) \/ GrowOld(a)
         \/ \E d \in Doc, a \in Advance : Refer(d, a)
  PROVE  SettleInv'
<1>1. Quiet /\ UNCHANGED <<row, run, hooks>>
  BY OrderlyIs DEF Take, AddPiece, PayBack, GrowOld, Refer, Keep, Untouched
<1>2. \A t \in Slot : run[t].pc = "idle" /\ run'[t].pc = "idle" BY <1>1 DEF Quiet, Busy
<1>3. \A e \in Doc : Keeps(e)
  <2>0. \A d \in Doc : doc[d] \in DocRec BY DEF Typed
  <2>1. ASSUME NEW a \in Advance, Take(a) \/ AddPiece(a) \/ PayBack(a) PROVE \A e \in Doc : Keeps(e)
    BY AdvanceAssumption, <2>1, FieldKeeps DEF Take, AddPiece, PayBack
  <2>2. ASSUME NEW a \in Advance, GrowOld(a) PROVE \A e \in Doc : Keeps(e)
    <3>1. a \in Doc BY AdvanceAssumption
    <3>2. PICK v \in {"stale", "over"} : doc' = [doc EXCEPT ![a].age = v]
      BY <2>2 DEF GrowOld
    <3>3. doc' = [doc EXCEPT ![a] = [doc[a] EXCEPT !.age = v]] BY <3>1, <3>2 DEF Typed
    <3>4. \A e \in Doc \ {a} : doc'[e] = doc[e] BY <3>3 DEF Typed
    <3>5. doc'[a] = [doc[a] EXCEPT !.age = v] BY <3>1, <3>3 DEF Typed
    <3>6. Keeps(a) BY <2>0, <3>1, <3>5 DEF Keeps, DocRec
    <3> QED BY <3>4, <3>6 DEF Keeps
  <2>3. ASSUME NEW d \in Doc, NEW a \in Advance, Refer(d, a) PROVE \A e \in Doc : Keeps(e)
    BY <2>3, FieldKeeps DEF Refer
  <2> QED BY <2>1, <2>2, <2>3
<1>4. RowsFollow BY <1>1 DEF RowsFollow
<1>5. \A t \in Slot : Knows(run[t])' BY <1>2, QuietKnows
<1> QED BY <1>1, <1>2, <1>3, <1>4, <1>5, KeepsSettles DEF SettlingPc

\* A draft becomes an order, or goes: what is open on an order stays as it was.
LEMMA EndOfDraft ==
  ASSUME Typed, Orderly, SettleInv, NEW d \in Doc, doc[d].state = "draft",
         \A e \in Doc \ {d} : doc'[e] = doc[e],
         \/ /\ doc'[d] = [doc[d] EXCEPT !.state = "order", !.dirty = FALSE]
            /\ hooks' = ToldCompleted(d)
         \/ /\ doc'[d] = [doc[d] EXCEPT !.state = "gone", !.dirty = FALSE]
            /\ hooks' = hooks \cup {[kind |-> "deleted", d |-> d]},
         UNCHANGED row,
         \A t \in Slot : run[t].pc \in {"idle", "convert"} /\ run'[t].pc = "idle"
  PROVE  SettleInv'
<1>0. /\ Advance \subseteq Doc /\ \A h \in hooks : h.kind = "completed" => h.d \in Doc /\ h.tag \subseteq Advance
      /\ \A e \in Doc : doc[e] \in DocRec
  BY AdvanceAssumption DEF Typed, HookRec
<1>1. ToldOnce /\ \A a \in Advance : Held(a) /\ Settling(a) BY DEF SettleInv
<1>2. doc[d].order = "none" BY <1>1 DEF ToldOnce
<1>3. /\ doc'[d].order = doc[d].order /\ doc'[d].legs = doc[d].legs /\ doc'[d].tag = doc[d].tag
      /\ doc'[d].piece = doc[d].piece
      /\ hooks' = ToldCompleted(d) => doc'[d].state = "order"
  <2>1. ToldCompleted(d) # hooks \cup {[kind |-> "deleted", d |-> d]} \/ doc'[d].state = "order"
    <3>1. [kind |-> "completed", d |-> d, tag |-> doc[d].tag, piece |-> doc[d].piece] \in ToldCompleted(d)
      BY DEF ToldCompleted
    <3>2. CASE ToldCompleted(d) = hooks \cup {[kind |-> "deleted", d |-> d]}
      <4>1. [kind |-> "completed", d |-> d, tag |-> doc[d].tag, piece |-> doc[d].piece] # [kind |-> "deleted", d |-> d]
        <5> DEFINE x == [kind |-> "completed", d |-> d, tag |-> doc[d].tag, piece |-> doc[d].piece]
                   y == [kind |-> "deleted", d |-> d]
        <5>1. x.kind = "completed" /\ y.kind = "deleted" OBVIOUS
        <5> HIDE DEF x, y
        <5> QED BY <5>1 DEF x, y
      <4>2. [kind |-> "completed", d |-> d, tag |-> doc[d].tag, piece |-> doc[d].piece] \in hooks
        BY <3>1, <3>2, <4>1
      <4>3. doc[d].state = "order" BY <1>1, <4>2 DEF ToldOnce, Completions
      <4> QED BY <4>3
    <3> QED BY <3>2
  <2> QED BY <1>0, <2>1 DEF DocRec
<1>4. \A a \in Doc : Taken(a) => Taken(a)' BY DEF Taken
<1>5. ToldOnce'
  <2> DEFINE x == [kind |-> "completed", d |-> d, tag |-> doc[d].tag, piece |-> doc[d].piece]
  <2>1. \A e \in Doc : doc'[e].order # "none" => doc'[e].state = "order"
    BY <1>1, <1>2, <1>3 DEF ToldOnce
  <2>2. \A h \in Completions' : h \in Completions \/ (h = x /\ doc'[d].state = "order")
    BY <1>3 DEF ToldCompleted, Completions
  <2>3. x.d = d /\ x.tag = doc[d].tag /\ x.piece = doc[d].piece OBVIOUS
  <2>4. \A h \in Completions : h.d # d /\ h.d \in Doc /\ h.tag \subseteq Doc
    BY <1>0, <1>1 DEF ToldOnce, Completions
  <2> HIDE DEF x
  <2>5. \A e \in Doc : \A a \in doc'[e].tag : Taken(a)' BY <1>3, <1>0, <1>1, <1>4 DEF DocRec, ToldOnce
  <2>6. ASSUME NEW h \in Completions'
        PROVE  /\ doc'[h.d].state = "order" /\ doc'[h.d].order = "none" /\ h.piece = doc'[h.d].piece
               /\ \A a \in h.tag : Taken(a)' BY <2>2, <2>4, <2>3, <2>6, <1>3, <2>5, <1>2, <1>1, <1>4 DEF ToldOnce
  <2>7. \A h, g \in Completions' : h.d = g.d => h = g
    BY <1>1, <2>2, <2>3, <2>4 DEF ToldOnce
  <2>8. \A a \in Advance : row'[a]["order"].status # "none" => doc'[a].order # "none"
    BY <1>0, <1>1, <1>3 DEF ToldOnce
  <2> QED BY <2>1, <2>5, <2>6, <2>7, <2>8 DEF ToldOnce
<1>6. \A t \in Slot : Knows(run[t])' BY QuietKnows
<1>7. ASSUME NEW a \in Advance PROVE Held(a)' BY <1>3, <1>1, <1>0 DEF Held, SoldBeside
<1>8. ASSUME NEW a \in Advance PROVE Settling(a)' BY <1>2, <1>3, <1>0, <1>1 DEF Settling, SoldBeside
<1> QED BY <1>5, <1>6, <1>7, <1>8 DEF SettleInv

LEMMA EndSettles ==
  ASSUME Typed, Orderly, SettleInv, OneRequest,
         (\E d \in Doc : Complete(d) \/ Delete(d)) \/ \E s \in Slot : Convert(s)
  PROVE  SettleInv'
<1>1. ASSUME NEW d \in Doc, Complete(d) \/ Delete(d) PROVE SettleInv'
  BY <1>1, OrderlyIs, EndOfDraft DEF Complete, Delete, Untouched, Quiet, Busy, Completed, Typed
<1>2. ASSUME NEW s \in Slot, Convert(s) PROVE SettleInv'
  <2>1. run[s] \in SweepRun /\ run[s].pc = "convert" BY <1>2, OtherRunning DEF Convert
  <2>2. PICK d \in Advance : d = run[s].d BY <2>1 DEF SweepRun
  <2>3. \A t \in Slot \ {s} : run[t].pc = "idle" BY <2>1, QuietOrOne DEF Busy
  <2>4. Done(s) /\ UNCHANGED <<case, row>> BY <1>2 DEF Convert
  <2>5. \A t \in Slot : run'[t].pc = "idle" BY <2>3, <2>4 DEF Done, Typed, Idle
  <2>6. d \in Doc BY AdvanceAssumption
  <2>7. \/ UNCHANGED <<doc, hooks>>
        \/ doc[d].state = "draft" /\ doc' = Completed(d) /\ hooks' = ToldCompleted(d)
    BY <1>2, <2>2 DEF Convert
  <2>8. CASE UNCHANGED <<doc, hooks>>
    BY <2>8, <2>4, <2>1, <2>3, <2>5, QuietKnows, KeepsSettles DEF Keeps, RowsFollow, SettlingPc
  <2>9. CASE doc[d].state = "draft" /\ doc' = Completed(d) /\ hooks' = ToldCompleted(d)
    BY <2>9, <2>6, <2>1, <2>3, <2>4, <2>5, EndOfDraft DEF Completed, Typed
  <2> QED BY <2>7, <2>8, <2>9
<1> QED BY <1>1, <1>2

\* The update chain, but for what it does with another's advance.
LEMMA PassSettles ==
  ASSUME Typed, Orderly, SettleInv, NEW d \in Doc, Pass(d) PROVE SettleInv'
<1>1. /\ d \in Slot /\ doc[d] \in DocRec /\ doc[d].state = "draft" /\ UNCHANGED <<row, hooks>>
  BY DEF Pass, Handling, Typed, Slot
<1>2. \A t \in Slot : run[t].pc = "idle" BY OrderlyIs DEF Pass, CanStart, Quiet, Busy
<1> DEFINE m == [pc |-> "capture", d |-> d, line |-> doc[d].line, piece |-> doc[d].piece,
                 tag |-> doc[d].tag, src |-> None, read |-> 0]
<1>3. run' = [run EXCEPT ![d] = m] BY DEF Pass
<1>4. m.pc = "capture" /\ m.d = d /\ m.tag = doc[d].tag OBVIOUS
<1> HIDE DEF m
<1>5. run'[d] = m /\ \A t \in Slot \ {d} : run'[t].pc = "idle" BY <1>1, <1>2, <1>3 DEF Typed
<1>6. doc' = [doc EXCEPT ![d] = [doc[d] EXCEPT !.dirty = FALSE]] BY DEF Pass, Typed
<1>7. \A e \in Doc : Keeps(e) BY <1>6, <1>1 DEF Typed, Keeps, DocRec
<1>8. \A t \in Slot : Knows(run[t])'
  <2>1. PICK n : n = m OBVIOUS
  <2>2. \A a \in doc[d].tag : Taken(a)' /\ a \in Doc
    BY <1>1, AdvanceAssumption, <1>7 DEF SettleInv, ToldOnce, DocRec, Taken, Keeps
  <2>3. Knows(n)' BY <1>1, <1>4, <1>7, <2>1, <2>2 DEF Knows, Keeps, PassPc, HookPc
  <2> QED BY <1>1, <1>5, <2>1, <2>3, RunsKnow
<1>9. RowsFollow BY <1>1 DEF RowsFollow
<1> QED BY <1>1, <1>2, <1>7, <1>8, <1>9, KeepsSettles DEF SettlingPc

LEMMA ChainSettles ==
  ASSUME Typed, Orderly, OneRequest, SettleInv, NEW s \in Slot,
         \/ Capture(s) \/ Issue(s) \/ RemoveLine(s) \/ Commit(s) \/ CommitRow(s)
         \/ ReadRef(s) \/ Gate(s) \/ Unconfirmed(s) \/ ReserveRow(s) \/ Clear(s) \/ Refund(s) \/ Close(s)
  PROVE  SettleInv'
<1>0. run[s].pc \in PassPc \ {"absorb", "reserve", "tag"}
  BY DEF Capture, Captures, Issue, RemoveLine, Commit, CommitRow, ReadRef, Gate, Unconfirmed,
         ReserveRow, Clear, Refund, Refunds, Close, PassPc
<1>1. Busy(s) /\ \A t \in Slot \ {s} : run[t].pc = "idle" /\ run'[t] = run[t]
  BY <1>0, StepRuns, QuietOrOne DEF Busy, PassPc, Step
<1>2. PICK r : r = run[s] OBVIOUS
<1>3. /\ r \in PassRun /\ r.d \in Doc /\ Knows(r) /\ Fits(r) /\ doc[r.d].state = "draft"
      /\ r.pc \in {"gate", "absorb", "unconfirmed", "reserve", "tag", "reserveRow"} => r.src \in Advance
  BY <1>2, <1>1, <1>0, PassRunning DEF SettleInv, Typed, Knows
<1>4. UNCHANGED hooks
  BY DEF Capture, Captures, Issue, RemoveLine, Commit, CommitRow, ReadRef, Gate, Unconfirmed,
         ReserveRow, Clear, Refund, Refunds, Close, Handling
<1>5. \A e \in Doc : Keeps(e) /\ doc'[e].order = doc[e].order
  BY <1>2, <1>3, FieldKeeps DEF Keeps, Capture, Captures, Commit, Refund, Refunds, Status, RemoveLine, Unconfirmed, Clear, Issue,
     CommitRow, ReadRef, Gate, ReserveRow, Close
<1>6. RowsFollow
  <2>0. UNCHANGED row => RowsFollow BY DEF RowsFollow
  <2>1. CASE ReserveRow(s) BY <1>2, <1>3, <2>1, RowsFollowIs DEF ReserveRow, Knows, PassPc, Taken, Name
  <2>2. CASE Issue(s) \/ CommitRow(s) \/ Close(s)
    <3>1. UpsertIssued(r.d) \/ Apply(r.d, "draft", r.d) \/ CloseInstrument(r.d, "draft", "refunded")
      BY <1>2, <2>2 DEF Issue, CommitRow, Close
    <3>2. CASE r.d \in Advance BY <1>3, <3>1, <3>2, RowsFollowIs DEF Name, RowStatus, Status
    <3>3. CASE r.d \notin Advance BY <3>1, <3>3, <2>0 DEF UpsertIssued, Apply, CloseInstrument, Typed
    <3> QED BY <3>2, <3>3
  <2> QED BY <2>0, <2>1, <2>2
        DEF Capture, Captures, Issue, RemoveLine, Commit, CommitRow, ReadRef, Gate, Unconfirmed,
            ReserveRow, Clear, Refund, Refunds, Close
<1>7. Knows(r)' BY <1>3, <1>4, <1>5, KnowsStill DEF Typed
<1>8. PICK m : m = run'[s] OBVIOUS
<1>9. Knows(m)'
  <2>1. ASSUME NEW pc \in PlainPc, Goto(s, pc) PROVE Knows(m)'
    BY <1>2, <1>8, <2>1, <1>3, <1>7, KnowsPlain DEF Goto, Typed
  <2>2. ASSUME Done(s) PROVE Knows(m)' BY <1>8, <2>2 DEF Done, Typed, Knows, Idle, PassPc, HookPc
  <2>3. CASE Capture(s) \/ Issue(s) \/ RemoveLine(s) \/ Commit(s) \/ CommitRow(s)
    BY <2>3, <2>1 DEF Capture, Captures, Issue, RemoveLine, Commit, CommitRow, PlainPc, PassPc
  <2>4. CASE Unconfirmed(s) \/ ReserveRow(s) \/ Clear(s) \/ Refund(s) \/ Close(s)
    BY <2>4, <2>1, <2>2 DEF Unconfirmed, ReserveRow, Clear, Refund, Refunds, Close, PlainPc, PassPc
  <2>5. CASE Gate(s)
    <3>1. Goto(s, "clear") \/ (Goto(s, "absorb") /\ doc[r.src].order = "open") BY <1>2, <2>5 DEF Gate
    <3>2. "clear" \in PlainPc BY DEF PlainPc, PassPc
    <3>3. CASE Goto(s, "absorb") /\ doc[r.src].order = "open"
      BY <1>2, <1>8, <3>3, <1>3, <2>5, <1>0, <1>7 DEF Goto, Typed, PassRun, Gate, Knows, PassPc, HookPc
    <3> QED BY <2>1, <3>1, <3>2, <3>3
  <2>6. CASE ReadRef(s)
    <3> DEFINE a == doc[r.d].ref
    <3>1. \/ Goto(s, "refund") \/ Goto(s, "clear")
          \/ run' = [run EXCEPT ![s].pc = "gate", ![s].src = a, ![s].read = doc[r.d].legs[a]]
      BY <1>2, <2>6 DEF ReadRef
    <3>2. "clear" \in PlainPc /\ "refund" \in PlainPc BY DEF PlainPc, PassPc
    <3>3. CASE run' = [run EXCEPT ![s].pc = "gate", ![s].src = a, ![s].read = doc[r.d].legs[a]]
      <4>1. m = [r EXCEPT !.pc = "gate", !.src = a, !.read = doc[r.d].legs[a]]
        BY <1>2, <1>8, <3>3 DEF Typed
      <4>2. m.pc = "gate" /\ m.d = r.d /\ m.tag = r.tag /\ m.read = doc[r.d].legs[m.src]
        BY <1>3, <4>1 DEF PassRun
      <4>3. UNCHANGED doc BY <2>6 DEF ReadRef
      <4>4. r.pc \in PassPc BY <1>0, <1>2
      <4> QED BY <1>7, <4>2, <4>3, <4>4 DEF Knows, PassPc, HookPc
    <3> QED BY <2>1, <3>1, <3>2, <3>3
  <2> QED BY <2>3, <2>4, <2>5, <2>6
<1>10. \A t \in Slot : Knows(run[t])' BY <1>1, <1>8, <1>9, RunsKnow
<1>11. \A t \in Slot : run[t].pc \notin SettlingPc \cup {"reserve"} BY <1>0, <1>1 DEF PassPc, SettlingPc
<1> QED BY <1>4, <1>5, <1>6, <1>10, <1>11, KeepsSettles

\* It finds the order free, puts one leg on the draft, and closes the order
\* to the others before it says so on the draft.
LEMMA AbsorbSettles ==
  ASSUME Typed, Orderly, OneRequest, SettleInv, NEW s \in Slot, Absorb(s) PROVE SettleInv'
<1>0. run[s].pc = "absorb" /\ Write(run[s].d, Leg(s)) /\ Goto(s, "reserve") /\ UNCHANGED <<row, hooks>>
  BY OrderlyIs DEF Absorb
<1>1. \A t \in Slot \ {s} : run[t].pc = "idle" /\ run'[t] = run[t]
  BY <1>0, StepRuns, QuietOrOne DEF Busy, Step
<1>2. PICK r : r = run[s] OBVIOUS
<1>3. r \in PassRun /\ r.d \in Doc /\ r.src \in Advance /\ r.src \in Doc
  BY <1>0, <1>2, PassRunning, AdvanceAssumption DEF PassPc
<1>4. Knows(r) /\ ToldOnce /\ \A a \in Advance : Held(a) /\ Settling(a) BY <1>2 DEF SettleInv
<1>5. /\ doc[r.d].state = "draft" /\ doc[r.src].order = "open" /\ r.read = doc[r.d].legs[r.src]
      /\ \A a \in r.tag : Taken(a)
  BY <1>0, <1>2, <1>4 DEF Knows, PassPc
<1>6. doc[r.src].state = "order" /\ r.src # r.d BY <1>3, <1>4, <1>5 DEF ToldOnce
<1>7. \A t \in Slot : run[t].pc \notin SettlingPc \cup {"reserve"} BY <1>0, <1>1 DEF SettlingPc
<1>8. \A e \in Doc : doc[e].legs[r.src] = 0 BY <1>3, <1>4, <1>5, <1>7, AdvanceAssumption DEF Held, Typed, DocRec
<1>9. ~SoldBeside(r.src) BY <1>3, <1>4, <1>5, <1>7 DEF Settling, SettlingPc
<1>10. /\ \A e \in Doc \ {r.d} : doc'[e] = doc[e]
       /\ doc'[r.d] = [Leg(s) EXCEPT !.dirty = TRUE]
  BY <1>0, LegTyped, <1>2, <1>3, <1>5, WriteIs
<1>11. /\ doc'[r.d].state = doc[r.d].state /\ doc'[r.d].order = doc[r.d].order /\ doc'[r.d].tag = doc[r.d].tag
       /\ doc'[r.d].piece = doc[r.d].piece /\ doc'[r.d].status = doc[r.d].status
       /\ doc'[r.d].legs = [doc[r.d].legs EXCEPT ![r.src] = 1]
  <2>1. Least(r.read + 1, MaxLegs) = 1
    BY <1>3, <1>5, <1>8, AdvanceAssumption DEF Least
  <2> DEFINE l == [doc[r.d].legs EXCEPT ![r.src] = 1]
  <2>2. Leg(s) = [doc[r.d] EXCEPT !.legs = l] BY <1>0, LegTyped, <1>2, <2>1
  <2>3. doc[r.d] \in DocRec BY <1>3 DEF Typed
  <2> HIDE DEF l
  <2>4. /\ doc'[r.d].state = doc[r.d].state /\ doc'[r.d].order = doc[r.d].order /\ doc'[r.d].tag = doc[r.d].tag
        /\ doc'[r.d].piece = doc[r.d].piece /\ doc'[r.d].status = doc[r.d].status
        /\ doc'[r.d].legs = l
    BY <1>10, <2>2, <2>3 DEF DocRec
  <2> QED BY <2>4 DEF l
<1>12. \A e \in Doc : /\ doc'[e].state = doc[e].state /\ doc'[e].order = doc[e].order /\ doc'[e].tag = doc[e].tag
                      /\ doc'[e].piece = doc[e].piece /\ doc'[e].status = doc[e].status
  BY <1>10, <1>11
<1>13. \A a \in Doc : Taken(a)' <=> Taken(a) BY <1>12 DEF Taken
<1>14. Advance \subseteq Doc /\ \A h \in Completions : h.d \in Doc /\ h.tag \subseteq Advance
  BY AdvanceAssumption DEF Typed, HookRec, Completions
<1>15. ToldOnce' BY <1>4, <1>12, <1>0, <1>13, <1>14 DEF ToldOnce, Completions, Typed, DocRec
<1>16. \A t \in Slot : Knows(run[t])'
  <2>1. PICK m : m = [r EXCEPT !.pc = "reserve"] OBVIOUS
  <2>2. m.pc = "reserve" /\ m.d = r.d /\ m.tag = r.tag /\ m.src = r.src /\ m.tag \subseteq Doc
    BY <1>3, <2>1, AdvanceAssumption DEF PassRun
  <2>3. \A a \in m.tag : Taken(a)' BY <1>5, <1>13, <2>2
  <2>4. doc'[m.d].state = "draft" /\ doc'[m.src].order = "open" BY <1>3, <1>5, <1>12, <2>2
  <2>5. Knows(m)' BY <2>2, <2>3, <2>4 DEF Knows, PassPc, HookPc
  <2>6. run'[s] = m BY <1>0, <1>2, <2>1 DEF Goto, Typed
  <2> QED BY <1>1, <2>5, <2>6, RunsKnow
<1>17. ASSUME NEW a \in Advance PROVE Held(a)'
  <2>1. SoldBeside(a)' <=> SoldBeside(a) BY <1>12, <1>14 DEF SoldBeside
  <2>2. CASE a = r.src
    <3>1. \A e \in Doc : doc'[e].legs[a] > 0 => e = r.d BY <1>8, <1>10, <2>2
    <3>2. doc'[r.d].legs[a] = 1 BY <1>3, <1>11, <2>2 DEF Typed, DocRec
    <3>3. doc'[a].state = "order" /\ doc'[a].order = "open" BY <1>3, <1>5, <1>6, <1>12, <2>2
    <3>4. run'[s].pc = "reserve" /\ run'[s].src = a BY <1>0, <1>2, <1>3, <2>2 DEF Goto, Typed, PassRun
    <3> QED BY <1>9, <2>1, <2>2, <3>1, <3>2, <3>3, <3>4 DEF Held
  <2>3. CASE a # r.src
    <3>1. \A e \in Doc : doc'[e].legs[a] = doc[e].legs[a]
      <4>1. doc[r.d].legs \in [Advance -> 0..MaxLegs] BY <1>3 DEF Typed, DocRec
      <4>2. doc'[r.d].legs[a] = doc[r.d].legs[a] BY <1>11, <2>3, <4>1
      <4> QED BY <1>10, <4>2
    <3>2. Held(a) BY <1>4
    <3>3. doc'[a].state = doc[a].state /\ doc'[a].order = doc[a].order BY <1>12, <1>14
    <3>4. ASSUME NEW e \in Doc, doc[e].legs[a] > 0
          PROVE  /\ doc[e].legs[a] = 1 /\ \A f \in Doc : doc[f].legs[a] > 0 => f = e
                 /\ doc[a].state = "order" /\ doc[a].order # "none" /\ ~SoldBeside(a) /\ doc[a].order # "open"
      BY <1>7, <3>2, <3>4 DEF Held
    <3> QED BY <2>1, <3>1, <3>3, <3>4 DEF Held
  <2> QED BY <2>2, <2>3
<1>18. ASSUME NEW a \in Advance PROVE Settling(a)' BY <1>12, <1>14, <1>4, <1>7 DEF SoldBeside, Settling, SettlingPc
<1> QED BY <1>15, <1>16, <1>17, <1>18 DEF SettleInv

LEMMA ReserveSettles ==
  ASSUME Typed, Orderly, OneRequest, SettleInv, NEW s \in Slot, Reserve(s) \/ Tag(s) PROVE SettleInv'
<1>0. run[s].pc \in {"reserve", "tag"} /\ UNCHANGED <<row, hooks>> BY DEF Reserve, Tag, Handling
<1>1. \A t \in Slot \ {s} : run[t].pc = "idle" /\ run'[t] = run[t]
  BY <1>0, StepRuns, QuietOrOne DEF Busy, Step
<1>2. PICK r : r = run[s] OBVIOUS
<1>3. r \in PassRun /\ r.d \in Doc /\ r.src \in Advance /\ r.src \in Doc /\ r.tag \subseteq Doc
  BY <1>0, <1>2, PassRunning, AdvanceAssumption DEF PassPc, PassRun
<1>4. Knows(r) /\ ToldOnce BY <1>2 DEF SettleInv
<1>5. doc[r.d].state = "draft" /\ \A a \in r.tag : Taken(a) BY <1>0, <1>2, <1>4 DEF Knows, PassPc
<1>6. RowsFollow BY <1>0 DEF RowsFollow
<1>7. CASE Reserve(s)
  <2>1. doc[r.src].order = "open" /\ doc[r.src].state = "order"
    BY <1>2, <1>3, <1>4, <1>7 DEF Reserve, Knows, ToldOnce, PassPc
  <2>2. OnOrder(r.src, "applied") /\ "applied" \in Status \ {"none", "open"}
    BY <1>2, <1>7 DEF Reserve, Status
  <2>3. (\A e \in Doc : Keeps(e)) /\ doc'[r.src].order = "applied" BY <1>3, <2>1, <2>2, OrderKeeps
  <2>4. \A a \in Doc : Taken(a) => Taken(a)' BY <2>3 DEF Taken, Keeps
  <2>5. Taken(r.src)' BY <1>3, <2>1, <2>3 DEF Taken, Keeps
  <2>6. PICK m : m = [r EXCEPT !.pc = "tag"] OBVIOUS
  <2>7. m.pc = "tag" /\ m.d = r.d /\ m.tag = r.tag /\ m.src = r.src BY <1>3, <2>6 DEF PassRun
  <2>8. Knows(m)' BY <1>3, <1>5, <2>3, <2>7, <2>4, <2>5 DEF Keeps, Knows, PassPc, HookPc
  <2>9. run'[s] = m BY <1>2, <1>7, <2>6 DEF Reserve, Goto, Typed
  <2>10. \A t \in Slot : Knows(run[t])' BY <1>1, <2>8, <2>9, RunsKnow
  <2>11. \A t \in Slot : run[t].pc \notin SettlingPc BY <1>0, <1>1 DEF SettlingPc
  <2>12. \A t \in Slot : run[t].pc = "reserve" => t = s BY <1>1
  <2> QED BY <1>0, <1>2, <1>6, <2>3, <2>10, <2>11, <2>12, KeepsSettles
<1>8. CASE Tag(s)
  <2>1. Taken(r.src) /\ run[s].pc = "tag" BY <1>2, <1>4, <1>8 DEF Tag, Knows, PassPc
  <2> DEFINE n == [doc[r.d] EXCEPT !.tag = r.tag \cup {r.src}]
  <2>2. Write(r.d, n) BY <1>2, <1>5, <1>8 DEF Tag
  <2>3. doc[r.d] \in DocRec /\ r.tag \cup {r.src} \in SUBSET Advance BY <1>3 DEF Typed, PassRun
  <2>4. n \in DocRec BY <1>3, <2>3, ValueTyped
  <2>5. /\ n.state = doc[r.d].state /\ n.legs = doc[r.d].legs /\ n.tag = r.tag \cup {r.src} /\ n.order = doc[r.d].order
        /\ n.piece = doc[r.d].piece /\ n.status = doc[r.d].status
    BY <2>3 DEF DocRec
  <2> HIDE DEF n
  <2>6. /\ \A e \in Doc \ {r.d} : doc'[e] = doc[e]
        /\ doc'[r.d] = [n EXCEPT !.dirty = doc[r.d].state = "draft"]
    BY <1>3, <1>5, <2>2, <2>4, WriteIs
  <2>7. \A a \in r.tag \cup {r.src} : a \in Advance /\ Taken(a) BY <1>5, <2>1, <2>3
  <2>8. Keeps(r.d) /\ doc'[r.d].order = doc[r.d].order BY <2>4, <2>6, <2>5, <2>7 DEF DocRec, Keeps
  <2>9. \A e \in Doc : Keeps(e) /\ doc'[e].order = doc[e].order BY <2>6, <2>8 DEF Keeps
  <2>10. Fits(r) BY <1>2, <2>1 DEF Typed, Busy
  <2>11. Knows(r)' BY <1>0, <1>4, <2>9, <2>10, KnowsStill
  <2>12. PICK m : m = [r EXCEPT !.pc = "reserveRow"] OBVIOUS
  <2>13. m.pc = "reserveRow" /\ m.d = r.d /\ m.tag = r.tag /\ m.src = r.src /\ r.pc = "tag"
    BY <1>2, <1>3, <2>1, <2>12 DEF PassRun
  <2>14. Knows(m)' BY <2>11, <2>13 DEF Knows, PassPc, HookPc
  <2>15. run'[s] = m BY <1>2, <1>8, <2>12 DEF Tag, Goto, Typed
  <2>16. \A t \in Slot : Knows(run[t])' BY <1>1, <2>14, <2>15, RunsKnow
  <2>17. \A t \in Slot : run[t].pc \notin SettlingPc \cup {"reserve"} BY <1>1, <2>1 DEF SettlingPc
  <2> QED BY <1>0, <1>6, <2>9, <2>16, <2>17, KeepsSettles
<1> QED BY <1>7, <1>8

\* A conversion is taken up: its order has no word yet.
LEMMA HandledSettles ==
  ASSUME Typed, Orderly, SettleInv, NEW h \in hooks, HandleCompleted(h) \/ HandleDeleted(h) PROVE SettleInv'
<1>1. Hook \in Slot /\ UNCHANGED <<doc, row>> /\ hooks' = hooks \ {h}
  BY OrderlyIs DEF HandleCompleted, HandleDeleted, Slot
<1>2. \A t \in Slot : run[t].pc = "idle" BY OrderlyIs DEF HandleCompleted, HandleDeleted, CanStart, Quiet, Busy
<1>3. \A e \in Doc : Keeps(e) BY <1>1 DEF Keeps
<1>4. RowsFollow BY <1>1 DEF RowsFollow
<1>5. \A t \in Slot : Knows(run[t])'
  <2>1. CASE HandleCompleted(h)
    <3>1. PICK m : m = [pc |-> "copy", d |-> h.d, tag |-> h.tag, piece |-> h.piece, own |-> "none"] OBVIOUS
    <3>2. run' = [run EXCEPT ![Hook] = m] BY <2>1, <3>1 DEF HandleCompleted
    <3>3. run'[Hook] = m /\ \A t \in Slot \ {Hook} : run'[t].pc = "idle" BY <1>1, <1>2, <3>2 DEF Typed
    <3>4. h \in Completions BY <2>1 DEF HandleCompleted, Completions
    <3>5. /\ doc[h.d].state = "order" /\ doc[h.d].order = "none" /\ h.piece = doc[h.d].piece
          /\ \A a \in h.tag : Taken(a)
          /\ \A g \in Completions \ {h} : g.d # h.d
      BY <3>4 DEF SettleInv, ToldOnce
    <3>6. \A a \in h.tag : Taken(a)' BY <1>1, <3>5 DEF Taken
    <3>7. \A g \in Completions' : g.d # h.d BY <1>1, <3>5 DEF Completions
    <3>8. m.pc = "copy" /\ m.d = h.d /\ m.tag = h.tag /\ m.piece = h.piece BY <3>1
    <3>9. Knows(m)' BY <1>1, <3>5, <3>6, <3>7, <3>8 DEF Knows, PassPc, HookPc
    <3> QED BY <1>1, <3>3, <3>9, RunsKnow
  <2>2. CASE HandleDeleted(h)
    <3>1. PICK m : m = [pc |-> "deleted", d |-> h.d, todo |-> {"close", "revert"}] OBVIOUS
    <3>2. run' = [run EXCEPT ![Hook] = m] BY <2>2, <3>1 DEF HandleDeleted
    <3>3. run'[Hook] = m /\ \A t \in Slot \ {Hook} : run'[t].pc = "idle" BY <1>1, <1>2, <3>2 DEF Typed
    <3>4. m.pc \notin PassPc \cup HookPc \cup {"stamp"} BY <3>1 DEF PassPc, HookPc
    <3> QED BY <1>1, <3>3, <3>4, RunsKnow
  <2> QED BY <2>1, <2>2
<1> QED BY <1>1, <1>2, <1>3, <1>4, <1>5, KeepsSettles DEF SettlingPc

\* Its order is told what the draft says: it may be open from now on, and if a
\* piece was sold beside it this very request will close it.
LEMMA CopySettles ==
  ASSUME Typed, Orderly, OneRequest, SettleInv, NEW s \in Slot, Copy(s) PROVE SettleInv'
<1>0. run[s].pc = "copy" /\ UNCHANGED <<row, hooks>> BY DEF Copy, Handling
<1>1. \A t \in Slot \ {s} : run[t].pc = "idle" /\ run'[t] = run[t]
  BY <1>0, StepRuns, QuietOrOne DEF Busy, Step, Copy
<1>2. PICK r : r = run[s] OBVIOUS
<1>3. r \in HookRun /\ r.d \in Doc /\ r.tag \subseteq Doc
  BY <1>0, <1>2, HookRunning, AdvanceAssumption DEF HookPc, HookRun
<1>4. Knows(r) /\ ToldOnce /\ \A a \in Advance : Held(a) /\ Settling(a) BY <1>2 DEF SettleInv
<1>5. /\ doc[r.d].state = "order" /\ doc[r.d].order = "none" /\ r.piece = doc[r.d].piece
      /\ \A a \in r.tag : Taken(a)
      /\ \A h \in Completions : h.d # r.d
  BY <1>0, <1>2, <1>4 DEF Knows, HookPc
<1>6. /\ \A e \in Doc \ {r.d} : doc'[e] = doc[e]
      /\ doc'[r.d].state = doc[r.d].state /\ doc'[r.d].legs = doc[r.d].legs /\ doc'[r.d].tag = doc[r.d].tag
      /\ doc'[r.d].piece = doc[r.d].piece /\ doc'[r.d].status = doc[r.d].status
  <2>1. doc[r.d] \in DocRec BY <1>3 DEF Typed
  <2>2. UNCHANGED doc \/ OnOrder(r.d, doc[r.d].status) BY <1>2 DEF Copy
  <2>3. CASE OnOrder(r.d, doc[r.d].status)
    <3>1. doc[r.d].status \in Status BY <2>1 DEF DocRec
    <3>2. doc'[r.d] = [doc[r.d] EXCEPT !.order = doc[r.d].status] /\ \A e \in Doc \ {r.d} : doc'[e] = doc[e]
      BY <1>3, <2>3, <3>1, OrderIs
    <3> QED BY <2>1, <3>2 DEF DocRec
  <2> QED BY <2>2, <2>3
<1>7. \A a \in Doc : Taken(a) => Taken(a)' BY <1>5, <1>6 DEF Taken
<1>8. Advance \subseteq Doc /\ \A h \in Completions : h.d \in Doc /\ h.tag \subseteq Advance
  BY AdvanceAssumption DEF Typed, HookRec, Completions
<1>9. \A e \in Doc : doc'[e].tag = doc[e].tag /\ doc'[e].legs = doc[e].legs BY <1>6
<1>10. ToldOnce'
  <2>1. \A e \in Doc : doc'[e].order # "none" => doc'[e].state = "order" BY <1>4, <1>5, <1>6 DEF ToldOnce
  <2>2. ASSUME NEW h \in Completions'
        PROVE  /\ doc'[h.d].state = "order" /\ doc'[h.d].order = "none" /\ h.piece = doc'[h.d].piece
               /\ \A a \in h.tag : Taken(a)' BY <1>0, <2>2, <1>5, <1>6, <1>8, <1>4, <1>7 DEF Completions, ToldOnce
  <2>3. \A h, g \in Completions' : h.d = g.d => h = g BY <1>0, <1>4 DEF ToldOnce, Completions
  <2>4. ASSUME NEW e \in Doc, NEW a \in doc'[e].tag PROVE Taken(a)'
    BY <1>9, <2>4, <1>4, <1>7, <1>8 DEF Typed, DocRec, ToldOnce
  <2>5. ASSUME NEW a \in Advance, row'[a]["order"].status # "none" PROVE doc'[a].order # "none"
    BY <1>0, <1>4, <2>5, <1>5, <1>6, <1>8 DEF ToldOnce
  <2> QED BY <2>1, <2>2, <2>3, <2>4, <2>5 DEF ToldOnce
<1>11. PICK pc \in {"own", "spend"} : Goto(s, pc) BY DEF Copy, AfterCopy
<1>12. run'[s].pc = pc /\ run'[s].d = r.d BY <1>2, <1>11, <1>3 DEF Goto, Typed, HookRun
<1>13. \A t \in Slot : Knows(run[t])'
  <2>1. PICK m : m = [r EXCEPT !.pc = pc] OBVIOUS
  <2>2. m.pc = pc /\ m.d = r.d /\ m.tag = r.tag /\ m.piece = r.piece BY <1>3, <2>1 DEF HookRun
  <2>3. \A a \in m.tag : Taken(a)' BY <1>3, <1>5, <1>7, <2>2
  <2>4. doc'[m.d].state = "order" /\ m.piece = doc'[m.d].piece /\ \A h \in Completions' : h.d # m.d
    BY <1>0, <1>5, <1>6, <2>2 DEF Completions
  <2>5. Knows(m)' BY <2>2, <2>3, <2>4 DEF Knows, PassPc, HookPc
  <2>6. run'[s] = m BY <1>2, <1>11, <2>1 DEF Goto, Typed
  <2> QED BY <1>1, <2>5, <2>6, RunsKnow
<1>14. \A t \in Slot : run[t].pc \notin SettlingPc \cup {"reserve"} BY <1>0, <1>1 DEF SettlingPc
<1>15. ASSUME NEW a \in Advance PROVE Held(a)' BY <1>4, <1>14, <1>5, <1>6, <1>8, <1>9 DEF Held, SoldBeside
<1>16. ASSUME NEW a \in Advance PROVE Settling(a)'
  BY <1>12, <1>6, <1>8, <1>4, <1>14 DEF Settling, SoldBeside, SettlingPc
<1> QED BY <1>10, <1>13, <1>15, <1>16 DEF SettleInv

\* The rest of a conversion closes what the order has spent, and its own
\* advance if a piece was sold beside it.
LEMMA HookSettles ==
  ASSUME Typed, Orderly, OneRequest, SettleInv, NEW s \in Slot,
         Spend(s) \/ SpendRow(s) \/ ReadOwn(s) \/ RekeyRow(s) \/ Settle(s) \/ SettleRow(s)
  PROVE  SettleInv'
<1>0. run[s].pc \in HookPc \ {"copy"} /\ UNCHANGED hooks
  BY DEF Spend, SpendRow, ReadOwn, RekeyRow, Settle, SettleRow, HookPc, Handling
<1>1. \A t \in Slot \ {s} : run[t].pc = "idle" /\ run'[t] = run[t]
  BY <1>0, StepRuns, QuietOrOne DEF Busy, Step, HookPc
<1>2. PICK r : r = run[s] OBVIOUS
<1>3. r \in HookRun /\ r.d \in Doc /\ r.tag \subseteq Advance /\ Advance \subseteq Doc /\ Fits(r)
  BY <1>0, <1>2, HookRunning, AdvanceAssumption DEF Typed, Busy, HookPc, HookRun
<1>4. Knows(r) /\ ToldOnce BY <1>2 DEF SettleInv
<1>5. /\ doc[r.d].state = "order" /\ r.piece = doc[r.d].piece /\ \A a \in r.tag : Taken(a)
      /\ \A h \in Completions : h.d # r.d
      /\ r.pc \in {"rekey", "settle", "settleRow"} => doc[r.d].order # "none"
      /\ r.pc \in {"rekey", "settle"} => r.own = doc[r.d].order
  BY <1>0, <1>2, <1>4 DEF Knows, PassPc, HookPc
<1>6. \A e \in Doc : Keeps(e)
  <2>1. CASE UNCHANGED doc BY <2>1 DEF Keeps
  <2>2. CASE Spend(s)
    <3>1. PICK a \in r.tag : OnOrder(a, "redeemed") BY <1>2, <2>2 DEF Spend
    <3>2. a \in Doc /\ doc[a].order # "none" /\ "redeemed" \in Status \ {"none", "open"}
      BY <1>3, <1>5 DEF Taken, Status
    <3> QED BY <3>1, <3>2, OrderKeeps
  <2>3. CASE Settle(s) BY <1>2, <1>5, <2>3, <1>3, OrderKeeps DEF Settle, Status
  <2> QED BY <2>1, <2>2, <2>3 DEF SpendRow, ReadOwn, RekeyRow, SettleRow
<1>7. RowsFollow
  <2>1. CASE UNCHANGED row BY <2>1 DEF RowsFollow
  <2>2. CASE SpendRow(s)
    <3>1. PICK a \in r.tag : RedeemKnown(a, "order", r.d) BY <1>2, <2>2 DEF SpendRow
    <3>2. a \in Advance /\ doc[a].order # "none" BY <1>3, <1>5 DEF Taken
    <3> QED BY <1>3, <3>1, <3>2, RowsFollowIs DEF Name
  <2>3. CASE RekeyRow(s) \/ SettleRow(s)
    <3>1. doc[r.d].order # "none" /\ (Rekey(r.d) \/ Redeem(r.d, "order", r.d))
      BY <1>2, <1>5, <2>3 DEF RekeyRow, SettleRow
    <3>2. CASE r.d \in Advance BY <1>3, <3>1, <3>2, RowsFollowIs DEF Name
    <3>3. CASE r.d \notin Advance BY <3>1, <3>3, <2>1 DEF Rekey, Redeem, Typed
    <3> QED BY <3>2, <3>3
  <2> QED BY <2>1, <2>2, <2>3 DEF Spend, ReadOwn, Settle
<1>8. PICK m : m = run'[s] OBVIOUS
<1>9. \A a \in r.tag : Taken(a)' BY <1>6, <1>3, <1>5 DEF Taken, Keeps
<1>10. doc'[r.d].state = "order" /\ r.piece = doc'[r.d].piece /\ \A h \in Completions' : h.d # r.d
  BY <1>0, <1>3, <1>5, <1>6 DEF Keeps, Completions
<1>11. Knows(m)'
  <2>1. ASSUME NEW pc \in {"spendRow", "own"}, Goto(s, pc) PROVE Knows(m)'
    BY <1>2, <1>8, <2>1, <1>3, <1>9, <1>10 DEF Goto, Typed, HookRun, Knows, PassPc, HookPc
  <2>2. ASSUME Done(s) PROVE Knows(m)' BY <1>8, <2>2 DEF Done, Typed, Knows, Idle, PassPc, HookPc
  <2>3. CASE ReadOwn(s)
    <3>1. CASE run' = [run EXCEPT ![s].pc = "rekey", ![s].own = doc[r.d].order] /\ doc[r.d].order # "none"
      BY <1>2, <1>8, <3>1, <1>3, <2>3, <1>9, <1>10 DEF Typed, HookRun, ReadOwn, Knows, PassPc, HookPc
    <3>2. \/ Done(s)
          \/ run' = [run EXCEPT ![s].pc = "rekey", ![s].own = doc[r.d].order] /\ doc[r.d].order # "none"
      BY <1>2, <2>3 DEF ReadOwn
    <3> QED BY <2>2, <3>1, <3>2
  <2>4. CASE RekeyRow(s)
    BY <1>2, <2>4, <1>8, <1>3, <1>5, <1>9, <1>10, <2>2 DEF RekeyRow, Goto, Typed, HookRun, Knows, PassPc, HookPc,
       AfterRekey
  <2>5. CASE Settle(s)
    BY <1>2, <1>8, <2>5, <1>3, <1>5, <1>6, <1>9, <1>10 DEF Settle, Goto, Typed, HookRun, Keeps, Knows, PassPc, HookPc
  <2> QED BY <2>1, <2>2, <2>3, <2>4, <2>5 DEF Spend, SpendRow, SettleRow
<1>12. \A t \in Slot : Knows(run[t])' BY <1>1, <1>8, <1>11, RunsKnow
<1>13. r.pc \in SettlingPc => \/ m.pc \in SettlingPc /\ m.d = r.d
                              \/ ~SoldBeside(r.d) \/ doc'[r.d].order # "open"
  BY <1>2, <1>8, <1>3, <1>5, OrderKeeps DEF Goto, Typed, HookRun, Spend, SpendRow, SettlingPc, ReadOwn, RekeyRow,
     AfterRekey, SoldBeside, Settle, Status, SettleRow
<1>14. \A t \in Slot : run[t].pc # "reserve" BY <1>0, <1>1 DEF HookPc
<1>15. \A t \in Slot : run[t].pc \in SettlingPc => t = s BY <1>1 DEF SettlingPc
<1> QED BY <1>0, <1>2, <1>6, <1>7, <1>8, <1>12, <1>13, <1>14, <1>15, KeepsSettles

LEMMA DeletedSettles ==
  ASSUME Typed, Orderly, OneRequest, SettleInv, NEW s \in Slot, CloseDeleted(s) \/ Revert(s)
  PROVE  SettleInv'
<1>1. run[s] \in DeleteRun /\ run[s].d \in Doc /\ run[s].pc = "deleted" /\ UNCHANGED <<doc, hooks>>
  BY OtherRunning DEF CloseDeleted, Revert, DeleteRun, Handling
<1>2. \A t \in Slot \ {s} : run[t].pc = "idle" /\ run'[t] = run[t]
  BY <1>1, StepRuns, QuietOrOne DEF Busy, Step
<1>3. PICK m : m = run'[s] OBVIOUS
<1>4. m.pc \in {"idle", "deleted"}
  <2>1. PICK what : Tidied(s, what) BY DEF CloseDeleted, Revert
  <2>2. m = Idle \/ m = [run[s] EXCEPT !.todo = run[s].todo \ {what}]
    BY <1>3, <2>1 DEF Tidied, Done, Typed
  <2> QED BY <1>1, <2>2 DEF Idle, DeleteRun
<1>5. \A t \in Slot : Knows(run[t])' BY <1>4, <1>2, <1>3, RunsKnow DEF PassPc, HookPc
<1>6. RowsFollow
  <2>1. UNCHANGED row => RowsFollow BY DEF RowsFollow
  <2>2. \/ UNCHANGED row \/ RevertApplied(run[s].d)
        \/ run[s].d \in Advance /\ CloseInstrument(run[s].d, "draft", "deleted")
    BY DEF CloseDeleted, Revert
  <2>3. "draft" \in Name /\ "deleted" \in RowStatus BY DEF Name, RowStatus
  <2>4. CASE RevertApplied(run[s].d)
    <3>1. CASE Advance = {} BY <3>1 DEF RowsFollow
    <3>2. CASE Advance # {}
      <4>1. PICK b : b \in Advance BY <3>2
      <4> QED BY <1>1, <2>3, <2>4, <4>1, RowsFollowIs
    <3> QED BY <3>1, <3>2
  <2>5. CASE run[s].d \in Advance /\ CloseInstrument(run[s].d, "draft", "deleted")
    BY <1>1, <2>3, <2>5, RowsFollowIs
  <2> QED BY <2>1, <2>2, <2>4, <2>5
<1>7. \A e \in Doc : Keeps(e) BY <1>1 DEF Keeps
<1>8. \A t \in Slot : run[t].pc \notin SettlingPc \cup {"reserve"} BY <1>1, <1>2 DEF SettlingPc
<1> QED BY <1>1, <1>5, <1>6, <1>7, <1>8, KeepsSettles

LEMMA SweepSettles ==
  ASSUME Typed, Orderly, OneRequest, SettleInv,
         \/ \E a \in Advance : SweepStale(a)
         \/ \E a \in Advance, n \in Name : SweepOverdue(a, n)
         \/ \E s \in Slot : Stamp(s)
  PROVE  SettleInv'
<1>0. ToldOnce BY DEF SettleInv
<1>1. ASSUME NEW a \in Advance, NEW n \in Name, SweepStale(a) \/ SweepOverdue(a, n) PROVE SettleInv'
  <2>1. UNCHANGED <<doc, hooks>> /\ Sweep \in Slot BY <1>1 DEF SweepStale, SweepOverdue, Handling, Slot
  <2>2. \A t \in Slot : run[t].pc = "idle" BY <1>1, OrderlyIs DEF SweepStale, SweepOverdue, CanStart, Quiet, Busy
  <2>3. PICK m : /\ run' = [run EXCEPT ![Sweep] = m]
                 /\ m.pc \in {"convert", "idle"} \/ (m.pc = "stamp" /\ m.d = a /\ SweepOverdue(a, "order"))
    <3> DEFINE c == [pc |-> "convert", d |-> a]
               t == [pc |-> "stamp", d |-> a]
    <3>1. c.pc = "convert" /\ t.pc = "stamp" /\ t.d = a /\ Idle.pc = "idle" BY DEF Idle
    <3>2. \/ run' = [run EXCEPT ![Sweep] = c]
          \/ run' = [run EXCEPT ![Sweep] = t] /\ SweepOverdue(a, "order")
          \/ run' = [run EXCEPT ![Sweep] = Idle] BY <1>1 DEF SweepStale, SweepOverdue
    <3> HIDE DEF c, t
    <3> QED BY <3>1, <3>2
  <2>4. run'[Sweep] = m /\ \A t \in Slot \ {Sweep} : run'[t].pc = "idle" BY <2>1, <2>2, <2>3 DEF Typed
  <2>5. SweepOverdue(a, "order") => doc[a].order # "none" BY <1>0 DEF SweepOverdue, Overdue, ToldOnce
  <2>6. Knows(m)' \/ m.pc \notin PassPc \cup HookPc \cup {"stamp"} BY <2>1, <2>3, <2>5 DEF Knows, PassPc, HookPc
  <2>7. \A t \in Slot : Knows(run[t])' BY <2>1, <2>4, <2>6, RunsKnow
  <2>8. RowsFollow BY <1>1, AdvanceAssumption, RowsFollowIs DEF SweepStale, SweepOverdue, Overdue
  <2>9. \A e \in Doc : Keeps(e) BY <2>1 DEF Keeps
  <2> QED BY <2>1, <2>2, <2>7, <2>8, <2>9, KeepsSettles DEF SettlingPc
<1>2. ASSUME NEW s \in Slot, Stamp(s) PROVE SettleInv'
  <2>1. run[s] \in SweepRun /\ run[s].pc = "stamp" /\ UNCHANGED <<row, hooks>>
    BY <1>2, OtherRunning DEF Stamp, Handling
  <2>2. PICK d \in Doc : d = run[s].d BY <2>1, AdvanceAssumption DEF SweepRun
  <2>3. doc[d].order # "none" BY <2>1, <2>2 DEF SettleInv, Knows
  <2>4. OnOrder(d, "expired") /\ "expired" \in Status \ {"none", "open"} BY <1>2, <2>2 DEF Stamp, Status
  <2>5. \A e \in Doc : Keeps(e) BY <2>3, <2>4, OrderKeeps
  <2>6. \A t \in Slot \ {s} : run[t].pc = "idle" BY <2>1, QuietOrOne DEF Busy
  <2>7. \A t \in Slot : run'[t].pc = "idle" BY <1>2, <2>6 DEF Stamp, Done, Typed, Idle
  <2>8. \A t \in Slot : Knows(run[t])' BY <2>7, QuietKnows
  <2>9. RowsFollow BY <2>1 DEF RowsFollow
  <2>10. \A t \in Slot : run[t].pc \notin SettlingPc \cup {"reserve"} BY <2>1, <2>6 DEF SettlingPc
  <2> QED BY <2>1, <2>5, <2>8, <2>9, <2>10, KeepsSettles
<1>3. "draft" \in Name BY DEF Name
<1> QED BY <1>1, <1>2, <1>3

LEMMA InitSettles == Init => OneRequest /\ SettleInv
<1> SUFFICES ASSUME Init PROVE OneRequest /\ SettleInv OBVIOUS
<1>0. Advance \subseteq Doc BY AdvanceAssumption
<1>1. \A s \in Slot : run[s].pc = "idle" BY DEF Init, Idle
<1>2. \A d \in Doc : /\ doc[d].order = "none" /\ doc[d].tag = {} /\ doc[d].status = "none"
                     /\ \A a \in Advance : doc[d].legs[a] = 0
  BY DEF Init, NoLegs
<1>3. Completions = {} BY DEF Init, Completions
<1>4. \A a \in Advance : row[a]["order"].status = "none" BY DEF Init, NoRow, Name
<1>5. OneRequest BY <1>1 DEF OneRequest, Busy
<1>6. ToldOnce BY <1>2, <1>3, <1>4 DEF ToldOnce
<1>7. \A s \in Slot : Knows(run[s]) BY <1>1 DEF Knows, PassPc, HookPc
<1>8. \A a \in Advance : Held(a) /\ Settling(a) BY <1>0, <1>2 DEF Held, Settling, SoldBeside
<1> QED BY <1>5, <1>6, <1>7, <1>8 DEF SettleInv

LEMMA SettleNext ==
  ASSUME Typed, ~Allowed("overlap") => OneRequest, SettleInv, [Next]_vars PROVE SettleInv'
<1> SUFFICES ASSUME Orderly' PROVE SettleInv' BY DEF SettleInv
<1>1. case' = case
  BY DEF Next, vars, Take, AddPiece, PayBack, GrowOld, Refer, Keep, Complete, Delete, Pass, Forget, Handling,
         Step, Fails, Capture, Captures, Issue, RemoveLine, Commit, CommitRow, ReadRef, Gate, Absorb, Unconfirmed,
         Reserve, Tag, ReserveRow, Clear, Refund, Refunds, Close, Copy, Spend, SpendRow, ReadOwn, RekeyRow,
         Settle, SettleRow, CloseDeleted, Revert, Convert, Stamp, HandleCompleted, HandleDeleted,
         SweepStale, SweepOverdue, Restart
<1>2. Orderly BY <1>1 DEF Orderly, Only
<1>3. OneRequest BY <1>2, OrderlyIs
<1>4. CASE UNCHANGED vars
  BY <1>4, <1>2, KeepsSettles DEF Keeps, vars, RowsFollow, SettleInv, Knows, Taken, Completions
<1>5. CASE \/ \E a \in Advance : Take(a) \/ AddPiece(a) \/ PayBack(a) \/ GrowOld(a)
           \/ \E d \in Doc, a \in Advance : Refer(d, a)
  BY <1>2, <1>5, StaffSettles
<1>6. CASE \E d \in Doc : Complete(d) \/ Delete(d) BY <1>2, <1>3, <1>6, EndSettles
<1>7. CASE \E d \in Doc : Pass(d) BY <1>2, <1>7, PassSettles
<1>8. ASSUME NEW s \in Slot, Step(s) PROVE SettleInv'
  BY <1>2, <1>3, ChainSettles, AbsorbSettles, ReserveSettles, CopySettles, HookSettles, DeletedSettles, EndSettles,
     SweepSettles, <1>8 DEF Step
<1>9. CASE \E h \in hooks : HandleCompleted(h) \/ HandleDeleted(h) BY <1>2, <1>9, HandledSettles
<1>10. CASE (\E a \in Advance : SweepStale(a)) \/ \E a \in Advance, n \in Name : SweepOverdue(a, n)
  BY <1>2, <1>3, <1>10, SweepSettles
<1>11. ~(Restart \/ (\E s \in Slot : Fails(s)) \/ \E d \in Doc : Forget(d))
  BY <1>2, OrderlyIs DEF Restart, Fails, Forget
<1> QED BY <1>4, <1>5, <1>6, <1>7, <1>8, <1>9, <1>10, <1>11 DEF Next

\* What is held is one bill, and what is sold beside is on no other.
LEMMA HeldIsOnce ==
  ASSUME Typed, Orderly, SettleInv, NEW a \in Advance PROVE Uses(a) <= 1
<1>1. Held(a) BY DEF SettleInv
<1>2. CASE \A d \in Doc : ~(doc[d].legs[a] > 0)
  <2>1. Legs(a) = {} BY AdvanceAssumption, <1>2 DEF Legs, Typed, DocRec
  <2>2. Cardinality(Legs(a)) = 0 BY <2>1, FS_EmptySet
  <2> QED BY <2>2 DEF Uses
<1>3. ASSUME NEW d \in Doc, doc[d].legs[a] > 0 PROVE Uses(a) <= 1
  <2>1. doc[d].legs[a] = 1 /\ (\A e \in Doc : doc[e].legs[a] > 0 => e = d) /\ ~SoldBeside(a)
    BY <1>1, <1>3 DEF Held
  <2>2. Legs(a) \subseteq {<<d, 1>>} BY AdvanceAssumption, <2>1 DEF Legs, Typed, DocRec
  <2>3. IsFiniteSet({<<d, 1>>}) /\ Cardinality({<<d, 1>>}) = 1 BY FS_Singleton
  <2>4. IsFiniteSet(Legs(a)) /\ Cardinality(Legs(a)) <= Cardinality({<<d, 1>>}) BY <2>2, <2>3, FS_Subset
  <2>5. Cardinality(Legs(a)) \in Nat BY <2>4, FS_CardinalityType
  <2> QED BY <2>1, <2>3, <2>4, <2>5 DEF Uses
<1> QED BY <1>2, <1>3

(* An advance settles one bill: requests one at a time, the order is closed *)
(* to others before the next bill can look at it, and an order that is told *)
(* its advance is open while a piece was sold beside it is closed by the    *)
(* same conversion (handleAdvanceRedeem, handleAdvanceConversion).          *)
THEOREM SettlesOnceHolds == Spec => []SettlesOnce
<1> DEFINE IInv == Typed /\ (~Allowed("overlap") => OneRequest) /\ SettleInv
<1>1. Init => IInv BY InitTyped, InitSettles
<1>2. IInv /\ [Next]_vars => IInv'
  <2> SUFFICES ASSUME IInv, [Next]_vars PROVE IInv' OBVIOUS
  <2>1. Typed' BY NextTyped
  <2>2. SettleInv' BY SettleNext
  <2>3. Allowed("overlap")' <=> Allowed("overlap")
    BY DEF Next, vars, Take, AddPiece, PayBack, GrowOld, Refer, Keep, Complete, Delete, Pass, Forget, Handling, Step, Fails,
       Capture, Captures, Issue, RemoveLine, Commit, CommitRow, ReadRef, Gate, Absorb, Unconfirmed, Reserve, Tag, ReserveRow,
       Clear, Refund, Refunds, Close, Copy, Spend, SpendRow, ReadOwn, RekeyRow, Settle, SettleRow, CloseDeleted, Revert,
       Convert, Stamp, HandleCompleted, HandleDeleted, SweepStale, SweepOverdue, Restart, Allowed
  <2>4. ~Allowed("overlap")' => OneRequest' BY <2>3, OneRequestNext
  <2> QED BY <2>1, <2>2, <2>4
<1>3. IInv => SettlesOnce BY HeldIsOnce DEF SettlesOnce, Orderly
<1> QED BY <1>1, <1>2, <1>3, PTL DEF Spec

--------------------
(* What the register closed stays closed *)

\* One request at a time, no call failing, every pass before its draft ends.
Calm == Only({"again", "late", "abandon", "reject"})

BothBill(a) == \E d, e \in Doc : d # e /\ doc[d].legs[a] > 0 /\ doc[e].legs[a] > 0
Twice(a) == Allowed("again") /\ BothBill(a)

\* An advance's own draft or order x, its rows p (draft's name) and q (order's
\* name), and the call pc its chain is at.
Own(a, x, p, q, pc) ==
    /\ x.order # "none" => x.state = "order" /\ x.status # "none"
    /\ q.status # "none" => x.order # "none"
    /\ x.order = "open" => x.status = "open"
    /\ ~x.line /\ x.status # "none" /\ pc # "commit" => x.status \in {"applied", "refunded"}
    /\ x.status = "refunded" => x.refunded
    /\ p.status # "redeemed"
    /\ p.status = "expired" => x.age = "over"
    /\ p.status \in {"applied", "refunded"} => x.status \notin {"none", "open"}
    /\ p.status = "deleted" => x.state = "gone"
    /\ q.status # "deleted"
    /\ q.status = "expired" => x.age = "over"
    /\ q.status = "refunded" => x.status \notin {"none", "open"}
    /\ x.state = "draft" /\ ~x.dirty /\ pc \notin {"capture", "issue", "line"} /\ x.piece /\ x.status # "none"
         => ~x.line
    /\ x.state = "draft" /\ x.status = "applied" /\ pc # "commitRow" => p.status = "applied" /\ p.target = a
    /\ x.state = "order" /\ x.piece /\ x.status # "none" =>
         /\ x.status = "applied"
         /\ \/ q.status = "redeemed"
            \/ q.status = "applied" /\ q.target = a
            \/ q.status = "none" /\ p.status = "applied" /\ p.target = a

\* An order's row belongs to the sale that has its advance's mark.
Bound(a, d) ==
    \/ row[a]["order"].status = "redeemed"
    \/ row[a]["order"].status = "applied" /\ row[a]["order"].target = d
    \/ Twice(a)

Shared(a) ==
    /\ ~Allowed("again") /\ row[a]["order"].status \in {"applied", "redeemed"} => doc[a].order # "open"
    /\ row[a]["order"].status = "redeemed" /\ doc[a].status = "open" =>
         \E e \in Doc : doc[e].state = "order" /\ doc[e].legs[a] > 0
    /\ \A d \in Doc : a \in doc[d].tag =>
         /\ doc[d].legs[a] > 0 /\ doc[a].order # "none"
         /\ \/ doc[d].state = "gone"
            \/ Bound(a, d)
            \/ run[d].pc = "reserveRow" /\ run[d].src = a

Told(d, tag, piece) == doc[d].state = "order" /\ tag \subseteq doc[d].tag /\ (piece => doc[d].piece)

Heard ==
    /\ \A h \in hooks :
         /\ h.kind = "completed" => Told(h.d, h.tag, h.piece) /\ (~Allowed("again") => doc[h.d].order = "none")
         /\ h.kind = "deleted" => doc[h.d].state = "gone"
    /\ \A d \in Doc : doc[d].order # "none" => doc[d].state = "order"
    /\ \A h, g \in hooks : h.kind = "completed" /\ g.kind = "completed" /\ h.d = g.d => h = g

Free(a, d) ==
    \/ row[a]["order"].status \in {"none", "open"}
    \/ /\ Allowed("again")
       /\ row[a]["order"].status = "applied" \/ \E e \in Doc \ {d} : doc[e].legs[a] > 0

AtPass(s, r) ==
    /\ s = r.d
    /\ doc[r.d].state = "draft"
    /\ r.pc \in {"capture", "issue", "line"} => r.line = doc[r.d].line /\ r.piece = doc[r.d].piece
    /\ r.pc = "issue" => doc[r.d].status # "none"
    /\ r.pc = "commitRow" => doc[r.d].status = "applied"
    /\ r.pc = "close" => doc[r.d].status = "refunded"
    /\ r.pc \in {"gate", "absorb", "reserve", "tag"} => r.tag = {}
    /\ r.pc \in {"absorb", "reserve", "tag", "reserveRow"} => doc[r.src].status = "open"
    /\ r.pc \in {"absorb", "reserve"} => doc[r.src].order = "open"
    /\ r.pc \in {"tag", "reserveRow"} => doc[r.src].order = "applied"
    /\ r.pc \in {"reserve", "tag", "reserveRow"} => doc[r.d].legs[r.src] > 0
    /\ r.pc \in {"absorb", "reserve", "tag", "reserveRow"} => Free(r.src, r.d)

AtHook(r) ==
    /\ Told(r.d, r.tag, r.piece)
    /\ r.pc = "copy" /\ ~Allowed("again") => doc[r.d].order = "none"
    /\ ~Allowed("again") => \A h \in hooks : h.kind = "completed" => h.d # r.d
    /\ r.pc \in {"rekey", "settle", "settleRow"} => doc[r.d].order # "none"
    /\ r.pc \in {"settle", "settleRow"} => r.piece

AtRun(s, r) ==
    /\ r.pc \in PassPc => AtPass(s, r)
    /\ r.pc \in HookPc => AtHook(r)
    /\ r.pc = "deleted" => doc[r.d].state = "gone"
    /\ r.pc = "convert" => ~doc[r.d].piece
    /\ r.pc = "stamp" => doc[r.d].order # "none" /\ row[r.d]["order"].status = "expired"

FinalInv ==
    Calm =>
      /\ \A a \in Advance : Own(a, doc[a], row[a]["draft"], row[a]["order"], run[a].pc) /\ Shared(a)
      /\ Heard
      /\ \A s \in Slot : AtRun(s, run[s])

\* One request at a time, no call failing, every pass before its draft ends.
LEMMA CalmIs ==
  ASSUME Calm
  PROVE  /\ ~Allowed("overlap") /\ ~Allowed("fault") /\ ~Allowed("hasty") /\ ~Allowed("bought")
         /\ ~Allowed("orderRefund") /\ ~Allowed("stuck")
  BY DEF Calm, Only, Allowed

\* An advance's own records: what does not touch them, and the orders' writer.
OwnPc == {"capture", "issue", "line", "commit", "commitRow"}

Alike(x, y) ==
    /\ y.state = x.state /\ y.line = x.line /\ y.piece = x.piece /\ y.refunded = x.refunded
    /\ y.status = x.status /\ y.order = x.order /\ y.age = x.age
    /\ y.dirty = x.dirty \/ y.dirty

LEMMA OwnStays ==
  ASSUME NEW CONSTANT a, NEW CONSTANT x, NEW CONSTANT y, NEW CONSTANT p, NEW CONSTANT q,
         NEW CONSTANT pc, NEW CONSTANT pc2,
         Own(a, x, p, q, pc), Alike(x, y), pc2 = pc \/ pc \notin OwnPc
  PROVE  Own(a, y, p, q, pc2)
  BY DEF Own, Alike, OwnPc

LEMMA OwnOrder ==
  ASSUME NEW CONSTANT a, NEW CONSTANT x \in DocRec, NEW CONSTANT p, NEW CONSTANT q,
         NEW CONSTANT pc, NEW CONSTANT pc2, NEW CONSTANT v \in Status \ {"none"},
         Own(a, x, p, q, pc), pc \notin OwnPc,
         x.state = "order" /\ x.status # "none", v = "open" => x.status = "open"
  PROVE  Own(a, [x EXCEPT !.order = v], p, q, pc2)
<1>1. PICK y : y = [x EXCEPT !.order = v] OBVIOUS
<1>2. /\ y.state = x.state /\ y.line = x.line /\ y.piece = x.piece /\ y.refunded = x.refunded
      /\ y.status = x.status /\ y.order = v /\ y.age = x.age /\ y.dirty = x.dirty
  BY <1>1 DEF DocRec
<1>3. Own(a, y, p, q, pc2) BY <1>2 DEF Own, OwnPc
<1> QED BY <1>1, <1>3

\* What is said of an advance's bills holds on while nobody changes them.
LEMMA SharedStays ==
  ASSUME Typed, case' = case, NEW a \in Advance, Shared(a),
         \A d \in Doc : /\ doc[d].legs[a] > 0 => doc'[d].legs[a] > 0
                        /\ a \in doc'[d].tag => a \in doc[d].tag
                        /\ doc[d].state # "draft" => doc'[d].state = doc[d].state,
         \/ doc'[a].order = doc[a].order
         \/ doc'[a].order \notin {"none", "open"}
         \/ doc'[a].order # "none" /\ (Allowed("again") \/ row[a]["order"].status = "none"),
         doc'[a].status = doc[a].status \/ doc'[a].status # "open" \/ row[a]["order"].status = "none",
         row'[a]["order"] = row[a]["order"],
         \A d \in Doc : run[d].pc # "reserveRow" \/ run[d].src # a
  PROVE  Shared(a)'
<1>1. Allowed("again")' <=> Allowed("again") BY DEF Allowed
<1>2. Twice(a) => Twice(a)' BY <1>1 DEF Twice, BothBill
<1>3. PICK q : q = row[a]["order"] OBVIOUS
<1>4. ~Allowed("again") /\ q.status \in {"applied", "redeemed"} => doc'[a].order # "open"
  BY <1>3 DEF Shared
<1>5. q.status = "redeemed" /\ doc'[a].status = "open" =>
         \E e \in Doc : doc'[e].state = "order" /\ doc'[e].legs[a] > 0
  BY <1>3 DEF Shared
<1>6. ASSUME NEW d \in Doc, a \in doc'[d].tag
      PROVE  /\ doc'[d].legs[a] > 0 /\ doc'[a].order # "none"
             /\ doc'[d].state = "gone" \/ Bound(a, d)'
  BY <1>6, <1>2 DEF Shared, Bound
<1> QED BY <1>1, <1>3, <1>4, <1>5, <1>6 DEF Shared

\* What the webhooks say holds on while orders keep their marks and pieces.
LEMMA HeardStays ==
  ASSUME Typed, case' = case, Heard, hooks' \subseteq hooks,
         \A d \in Doc : /\ doc[d].state = "order" =>
                             doc'[d].state = "order" /\ doc'[d].tag = doc[d].tag /\ doc'[d].piece = doc[d].piece
                        /\ doc[d].state = "gone" => doc'[d].state = "gone"
                        /\ doc'[d].order = doc[d].order \/ doc'[d].state = "order",
         ~Allowed("again") => \A h \in hooks' : h.kind = "completed" /\ doc[h.d].order = "none" => doc'[h.d].order = "none"
  PROVE  Heard'
  BY DEF Typed, HookRec, Allowed, Heard, Told

LEMMA NobodyKnows ==
  ASSUME \A t \in Slot : run'[t].pc \in {"idle", "deleted"} /\ (run'[t].pc = "deleted" => doc'[run'[t].d].state = "gone")
  PROVE  \A t \in Slot : AtRun(t, run[t])'
  BY DEF AtRun, PassPc, HookPc

LEMMA FinalIs ==
  ASSUME \A a \in Advance : Own(a, doc'[a], row'[a]["draft"], row'[a]["order"], run'[a].pc) /\ Shared(a)',
         Heard', \A s \in Slot : AtRun(s, run[s])'
  PROVE  FinalInv'
  BY DEF FinalInv, Own

\* A write to a draft leaves it to the chain.
Dirtied(x, y) ==
    /\ x.state = "draft" /\ y.state = "draft" /\ y.dirty
    /\ y.status = x.status /\ y.order = x.order /\ y.age = x.age
    /\ y.legs = x.legs /\ y.tag = x.tag
    /\ y.line = x.line \/ y.line
    /\ x.refunded => y.refunded

LEMMA OwnDirtied ==
  ASSUME NEW CONSTANT a, NEW CONSTANT x, NEW CONSTANT y, NEW CONSTANT p, NEW CONSTANT q,
         NEW CONSTANT pc, NEW CONSTANT pc2,
         Own(a, x, p, q, pc), Dirtied(x, y), pc2 = pc \/ pc \notin OwnPc
  PROVE  Own(a, y, p, q, pc2)
  BY DEF Own, Dirtied, OwnPc

LEMMA WriteDirties ==
  ASSUME Typed, NEW d \in Doc, doc[d].state = "draft", NEW r \in DocRec, Write(d, r), r.state = "draft",
         r.status = doc[d].status, r.order = doc[d].order, r.age = doc[d].age,
         r.legs = doc[d].legs, r.tag = doc[d].tag, r.line = doc[d].line \/ r.line,
         doc[d].refunded => r.refunded
  PROVE  Dirtied(doc[d], doc'[d]) /\ \A e \in Doc \ {d} : doc'[e] = doc[e]
<1>1. \A e \in Doc \ {d} : doc'[e] = doc[e] BY WriteIs
<1>2. PICK y : y = doc'[d] OBVIOUS
<1>3. y = [r EXCEPT !.dirty = TRUE] BY <1>2, WriteIs
<1>4. /\ y.state = r.state /\ y.status = r.status /\ y.order = r.order /\ y.age = r.age
      /\ y.legs = r.legs /\ y.tag = r.tag /\ y.line = r.line /\ y.refunded = r.refunded /\ y.dirty
  BY <1>3 DEF DocRec
<1> QED BY <1>1, <1>2, <1>4 DEF Dirtied

\* A draft dirtied between two requests.
LEMMA DirtiedFinal ==
  ASSUME Typed, Calm, FinalInv, NEW d \in Doc, Dirtied(doc[d], doc'[d]),
         \A e \in Doc \ {d} : doc'[e] = doc[e], UNCHANGED <<case, row, run, hooks>>, Quiet
  PROVE  FinalInv'
<1>1. \A t \in Slot : run[t].pc = "idle" /\ run'[t].pc = "idle" BY DEF Quiet, Busy
<1>2. Advance \subseteq Slot /\ Doc \subseteq Slot BY AdvanceAssumption DEF Slot
<1>3. /\ \A a \in Advance : Own(a, doc[a], row[a]["draft"], row[a]["order"], run[a].pc) /\ Shared(a)
      /\ Heard
  BY DEF FinalInv
<1>4. ASSUME NEW a \in Advance PROVE Own(a, doc'[a], row'[a]["draft"], row'[a]["order"], run'[a].pc)
  BY <1>3, OwnDirtied, AdvanceAssumption
<1>5. \A e \in Doc : /\ doc'[e].legs = doc[e].legs /\ doc'[e].tag = doc[e].tag
                     /\ doc'[e].state = doc[e].state /\ doc'[e].order = doc[e].order
                     /\ doc'[e].status = doc[e].status
                     /\ doc[e].state # "draft" => doc'[e] = doc[e]
  BY DEF Dirtied
<1>6. ASSUME NEW a \in Advance PROVE Shared(a)' BY <1>3, AdvanceAssumption, <1>1, <1>2, <1>5, SharedStays
<1>7. Heard' BY <1>3, <1>5, HeardStays DEF Typed, HookRec
<1>8. \A t \in Slot : AtRun(t, run[t])' BY <1>1, NobodyKnows
<1> QED BY <1>4, <1>6, <1>7, <1>8, FinalIs

LEMMA StaffFinal ==
  ASSUME Typed, Calm, FinalInv,
         \/ \E a \in Advance : Take(a) \/ AddPiece(a) \/ PayBack(a)
         \/ \E d \in Doc, a \in Advance : Refer(d, a)
  PROVE  FinalInv'
<1>1. Quiet /\ UNCHANGED <<case, row, run, hooks>>
  BY CalmIs DEF Take, AddPiece, PayBack, Refer, Keep, Untouched
<1>2. ASSUME NEW d \in Doc, doc[d].state = "draft", NEW r \in DocRec, Write(d, r), r.state = "draft",
             r.status = doc[d].status, r.order = doc[d].order, r.age = doc[d].age,
             r.legs = doc[d].legs, r.tag = doc[d].tag, r.line = doc[d].line \/ r.line,
             doc[d].refunded => r.refunded
      PROVE  FinalInv'
  BY <1>2, WriteDirties, <1>1, DirtiedFinal
<1>3. ASSUME NEW a \in Advance, Take(a) PROVE FinalInv'
  <2>1. a \in Doc BY AdvanceAssumption
  <2>2. PICK r : r = [doc[a] EXCEPT !.line = TRUE, !.paid = TRUE] OBVIOUS
  <2>3. r \in DocRec /\ doc[a] \in DocRec BY <2>1, <2>2, FieldTyped
  <2>4. doc[a].state = "draft" /\ Write(a, r) BY <1>3, <2>2 DEF Take
  <2>5. /\ r.state = doc[a].state /\ r.status = doc[a].status /\ r.order = doc[a].order /\ r.age = doc[a].age
        /\ r.legs = doc[a].legs /\ r.tag = doc[a].tag /\ r.line /\ r.refunded = doc[a].refunded
    BY <2>2, <2>3 DEF DocRec
  <2> QED BY <1>2, <2>1, <2>3, <2>4, <2>5
<1>4. ASSUME NEW a \in Advance, AddPiece(a) PROVE FinalInv'
  <2>1. a \in Doc BY AdvanceAssumption
  <2>2. PICK r : r = [doc[a] EXCEPT !.piece = TRUE] OBVIOUS
  <2>3. r \in DocRec /\ doc[a] \in DocRec BY <2>1, <2>2, FieldTyped
  <2>4. doc[a].state = "draft" /\ Write(a, r) BY <1>4, <2>2 DEF AddPiece
  <2>5. /\ r.state = doc[a].state /\ r.status = doc[a].status /\ r.order = doc[a].order /\ r.age = doc[a].age
        /\ r.legs = doc[a].legs /\ r.tag = doc[a].tag /\ r.line = doc[a].line /\ r.refunded = doc[a].refunded
    BY <2>2, <2>3 DEF DocRec
  <2> QED BY <1>2, <2>1, <2>3, <2>4, <2>5
<1>5. ASSUME NEW a \in Advance, PayBack(a) PROVE FinalInv'
  <2>1. a \in Doc BY AdvanceAssumption
  <2>2. PICK r : r = [doc[a] EXCEPT !.refunded = TRUE] OBVIOUS
  <2>3. r \in DocRec /\ doc[a] \in DocRec BY <2>1, <2>2, FieldTyped
  <2>4. doc[a].state = "draft" /\ Write(a, r) BY <1>5, <2>2, CalmIs DEF PayBack
  <2>5. /\ r.state = doc[a].state /\ r.status = doc[a].status /\ r.order = doc[a].order /\ r.age = doc[a].age
        /\ r.legs = doc[a].legs /\ r.tag = doc[a].tag /\ r.line = doc[a].line /\ r.refunded
    BY <2>2, <2>3 DEF DocRec
  <2> QED BY <1>2, <2>1, <2>3, <2>4, <2>5
<1>6. ASSUME NEW d \in Doc, NEW a \in Advance, Refer(d, a) PROVE FinalInv'
  <2>2. PICK r : r = [doc[d] EXCEPT !.ref = a] OBVIOUS
  <2>3. r \in DocRec /\ doc[d] \in DocRec BY <2>2, ValueTyped, FieldTyped
  <2>4. doc[d].state = "draft" /\ Write(d, r) BY <1>6, <2>2 DEF Refer
  <2>5. /\ r.state = doc[d].state /\ r.status = doc[d].status /\ r.order = doc[d].order /\ r.age = doc[d].age
        /\ r.legs = doc[d].legs /\ r.tag = doc[d].tag /\ r.line = doc[d].line /\ r.refunded = doc[d].refunded
    BY <2>2, <2>3 DEF DocRec
  <2> QED BY <1>2, <2>3, <2>4, <2>5
<1> QED BY <1>3, <1>4, <1>5, <1>6

\* A year passes: what is closed for its age stays old.
LEMMA AgeFinal ==
  ASSUME Typed, Calm, FinalInv, NEW b \in Advance, GrowOld(b) PROVE FinalInv'
<1>0. Quiet /\ UNCHANGED <<case, row, run, hooks>> BY DEF GrowOld, Keep
<1>1. \A t \in Slot : run[t].pc = "idle" /\ run'[t].pc = "idle" BY <1>0 DEF Quiet, Busy
<1>2. b \in Doc /\ Advance \subseteq Doc /\ Doc \subseteq Slot BY AdvanceAssumption DEF Slot
<1>3. /\ \A a \in Advance : Own(a, doc[a], row[a]["draft"], row[a]["order"], run[a].pc) /\ Shared(a)
      /\ Heard
  BY DEF FinalInv
<1>4. PICK v \in {"stale", "over"} : doc' = [doc EXCEPT ![b].age = v] /\ doc[b].age # "over" BY DEF GrowOld
<1>5. doc' = [doc EXCEPT ![b] = [doc[b] EXCEPT !.age = v]] BY <1>2, <1>4 DEF Typed
<1>6. doc'[b] = [doc[b] EXCEPT !.age = v] /\ \A e \in Doc \ {b} : doc'[e] = doc[e] BY <1>2, <1>5 DEF Typed
<1>7. PICK x, y : x = doc[b] /\ y = doc'[b] OBVIOUS
<1>8. /\ y.state = x.state /\ y.line = x.line /\ y.piece = x.piece /\ y.refunded = x.refunded
      /\ y.status = x.status /\ y.order = x.order /\ y.dirty = x.dirty /\ y.legs = x.legs /\ y.tag = x.tag
      /\ x.age # "over"
  BY <1>2, <1>7, <1>4, <1>6 DEF Typed, DocRec
<1>9. ASSUME NEW a \in Advance PROVE Own(a, doc'[a], row'[a]["draft"], row'[a]["order"], run'[a].pc)
  <2>1. Own(a, doc[a], row[a]["draft"], row[a]["order"], run[a].pc) BY <1>3
  <2>2. CASE a = b
    <3>1. PICK p, q, pc : p = row[a]["draft"] /\ q = row[a]["order"] /\ pc = run[a].pc OBVIOUS
    <3>2. Own(a, x, p, q, pc) BY <1>7, <2>1, <2>2, <3>1
    <3>3. Own(a, y, p, q, pc) BY <1>8, <3>2 DEF Own
    <3> QED BY <1>0, <1>7, <2>2, <3>1, <3>3
  <2>3. CASE a # b BY <1>2, <1>6, <2>3, <1>0, <2>1
  <2> QED BY <2>2, <2>3
<1>10. \A e \in Doc : /\ doc'[e].legs = doc[e].legs /\ doc'[e].tag = doc[e].tag
                      /\ doc'[e].state = doc[e].state /\ doc'[e].order = doc[e].order
                      /\ doc'[e].status = doc[e].status /\ doc'[e].piece = doc[e].piece
  BY <1>6, <1>7, <1>8
<1>11. ASSUME NEW a \in Advance PROVE Shared(a)' BY <1>2, <1>3, <1>1, <1>0, <1>10, SharedStays
<1>12. Heard' BY <1>0, <1>3, <1>10, HeardStays DEF Typed, HookRec
<1>13. \A t \in Slot : AtRun(t, run[t])' BY <1>1, NobodyKnows
<1> QED BY <1>9, <1>11, <1>12, <1>13, FinalIs

\* A draft becomes an order or goes.
LEMMA OwnEnds ==
  ASSUME NEW CONSTANT a, NEW CONSTANT x \in DocRec, NEW CONSTANT p, NEW CONSTANT q,
         NEW CONSTANT pc, NEW CONSTANT pc2,
         Own(a, x, p, q, pc), pc \notin OwnPc, x.state = "draft"
  PROVE  /\ Own(a, [x EXCEPT !.state = "gone", !.dirty = FALSE], p, q, pc2)
         /\ (x.piece => ~x.dirty /\ ~x.refunded)
              => Own(a, [x EXCEPT !.state = "order", !.dirty = FALSE], p, q, pc2)
<1>1. PICK y : y = [x EXCEPT !.state = "gone", !.dirty = FALSE] OBVIOUS
<1>2. /\ y.state = "gone" /\ y.line = x.line /\ y.piece = x.piece /\ y.refunded = x.refunded
      /\ y.status = x.status /\ y.order = x.order /\ y.age = x.age
  BY <1>1 DEF DocRec
<1>3. Own(a, y, p, q, pc2) BY <1>2 DEF Own, OwnPc
<1>4. PICK z : z = [x EXCEPT !.state = "order", !.dirty = FALSE] OBVIOUS
<1>5. /\ z.state = "order" /\ z.line = x.line /\ z.piece = x.piece /\ z.refunded = x.refunded
      /\ z.status = x.status /\ z.order = x.order /\ z.age = x.age
  BY <1>4 DEF DocRec
<1>6. ASSUME x.piece => ~x.dirty /\ ~x.refunded PROVE Own(a, z, p, q, pc2) BY <1>6, <1>5 DEF Own, OwnPc
<1> QED BY <1>1, <1>3, <1>4, <1>6

LEMMA ToldOf ==
  ASSUME NEW d, NEW h \in ToldCompleted(d)
  PROVE  h \in hooks \/ (h.kind = "completed" /\ h.d = d /\ h.tag = doc[d].tag /\ h.piece = doc[d].piece)
  BY DEF ToldCompleted

LEMMA EndFinalIs ==
  ASSUME Typed, Calm, FinalInv, NEW d \in Doc, doc[d].state = "draft",
         \A e \in Doc \ {d} : doc'[e] = doc[e],
         \/ /\ doc'[d] = [doc[d] EXCEPT !.state = "order", !.dirty = FALSE]
            /\ doc[d].piece => ~doc[d].dirty /\ ~doc[d].refunded
            /\ hooks' = ToldCompleted(d)
         \/ /\ doc'[d] = [doc[d] EXCEPT !.state = "gone", !.dirty = FALSE]
            /\ hooks' = hooks \cup {[kind |-> "deleted", d |-> d]},
         UNCHANGED <<case, row>>,
         \A t \in Slot : run[t].pc \in {"idle", "convert"} /\ run'[t].pc = "idle"
  PROVE  FinalInv'
<1>1. Advance \subseteq Doc /\ Doc \subseteq Slot BY AdvanceAssumption DEF Slot
<1>2. doc[d] \in DocRec /\ \A h \in hooks : h.d \in Doc BY DEF Typed, HookRec
<1>3. /\ \A a \in Advance : Own(a, doc[a], row[a]["draft"], row[a]["order"], run[a].pc) /\ Shared(a)
      /\ Heard
  BY DEF FinalInv
<1>4. ASSUME NEW a \in Advance PROVE Own(a, doc'[a], row'[a]["draft"], row'[a]["order"], run'[a].pc)
  <2>1. Own(a, doc[a], row[a]["draft"], row[a]["order"], run[a].pc) BY <1>3
  <2>0. run[a].pc \notin OwnPc /\ a \in Doc BY <1>1 DEF OwnPc
  <2>2. CASE a = d
    <3>1. PICK x, p, q, pc, pc2 : x = doc[a] /\ p = row[a]["draft"] /\ q = row[a]["order"]
                             /\ pc = run[a].pc /\ pc2 = run'[a].pc OBVIOUS
    <3>2. Own(a, x, p, q, pc) /\ pc \notin OwnPc /\ x \in DocRec /\ x.state = "draft"
      BY <1>2, <2>0, <2>1, <2>2, <3>1
    <3>3. /\ Own(a, [x EXCEPT !.state = "gone", !.dirty = FALSE], p, q, pc2)
          /\ (x.piece => ~x.dirty /\ ~x.refunded)
              => Own(a, [x EXCEPT !.state = "order", !.dirty = FALSE], p, q, pc2)
      BY <3>2, OwnEnds
    <3>4. Own(a, doc'[a], p, q, pc2) BY <2>2, <3>1, <3>3
    <3> QED BY <3>1, <3>4
  <2>3. CASE a # d BY <2>0, <2>3, <2>1, OwnStays DEF Alike
  <2> QED BY <2>2, <2>3
<1>5. /\ \A e \in Doc : /\ doc'[e].legs = doc[e].legs /\ doc'[e].tag = doc[e].tag
                        /\ doc'[e].order = doc[e].order
                        /\ doc'[e].status = doc[e].status /\ doc'[e].piece = doc[e].piece
                        /\ doc[e].state # "draft" => doc'[e].state = doc[e].state
      /\ doc'[d].state \in {"order", "gone"}
  <2>1. PICK x, y : x = doc[d] /\ y = doc'[d] OBVIOUS
  <2>2. /\ y.legs = x.legs /\ y.tag = x.tag /\ y.order = x.order /\ y.status = x.status /\ y.piece = x.piece
        /\ y.state \in {"order", "gone"}
    BY <1>2, <2>1 DEF DocRec
  <2> QED BY <2>1, <2>2
<1>6. ASSUME NEW a \in Advance PROVE Shared(a)' BY <1>1, <1>3, <1>5, SharedStays
<1>7. Heard'
  <2>0. Allowed("again")' <=> Allowed("again") BY DEF Allowed
  <2>1. \A h \in hooks : h.kind \in {"completed", "deleted"} => h.d # d BY <1>3 DEF Heard, Told
  <2>2. ASSUME NEW h \in hooks
        PROVE  /\ h.kind = "completed" => /\ doc'[h.d].state = "order" /\ h.tag \subseteq doc'[h.d].tag
                                          /\ h.piece => doc'[h.d].piece
                                          /\ ~Allowed("again") => doc'[h.d].order = "none"
               /\ h.kind = "deleted" => doc'[h.d].state = "gone" BY <1>3, <1>2, <2>1 DEF Heard, Told
  <2>3. doc'[d].order = "none" BY <1>3, <1>5 DEF Heard
  <2>8. \A e \in Doc : doc'[e].order # "none" => doc'[e].state = "order" BY <1>3, <1>5, <2>3 DEF Heard
  <2>4. CASE hooks' = ToldCompleted(d) /\ doc'[d].state = "order"
    BY <2>4, ToldOf, <1>3, <2>1, <1>5, <2>2, <2>3, <2>0, <2>8 DEF Heard, ToldCompleted, Told
  <2>5. CASE hooks' = hooks \cup {[kind |-> "deleted", d |-> d]} /\ doc'[d].state = "gone"
    <3>0. PICK n : n = [kind |-> "deleted", d |-> d] OBVIOUS
    <3>1. n.kind = "deleted" /\ n.d = d BY <3>0
    <3>2. \A h \in hooks' : h \in hooks \/ h = n BY <2>5, <3>0
    <3>3. \A h, g \in hooks' : h.kind = "completed" /\ g.kind = "completed" /\ h.d = g.d => h = g
      BY <1>3, <3>1, <3>2 DEF Heard
    <3>4. ASSUME NEW h \in hooks'
          PROVE  /\ h.kind = "completed" => /\ doc'[h.d].state = "order" /\ h.tag \subseteq doc'[h.d].tag
                                            /\ h.piece => doc'[h.d].piece
                                            /\ ~Allowed("again") => doc'[h.d].order = "none"
                 /\ h.kind = "deleted" => doc'[h.d].state = "gone"
      BY <2>2, <2>5, <3>1, <3>2, <3>4
    <3> QED BY <2>0, <2>8, <3>3, <3>4 DEF Heard, Told
  <2>6. doc'[d] = [doc[d] EXCEPT !.state = "order", !.dirty = FALSE] => doc'[d].state = "order"
    BY <1>2 DEF DocRec
  <2>7. doc'[d] = [doc[d] EXCEPT !.state = "gone", !.dirty = FALSE] => doc'[d].state = "gone"
    BY <1>2 DEF DocRec
  <2> QED BY <2>4, <2>5, <2>6, <2>7
<1>8. \A t \in Slot : AtRun(t, run[t])' BY NobodyKnows
<1> QED BY <1>4, <1>6, <1>7, <1>8, FinalIs

LEMMA EndFinal ==
  ASSUME Typed, Calm, FinalInv, OneRequest,
         (\E d \in Doc : Complete(d) \/ Delete(d)) \/ \E s \in Slot : Convert(s)
  PROVE  FinalInv'
<1>1. ASSUME NEW d \in Doc, Complete(d) \/ Delete(d) PROVE FinalInv'
  BY <1>1, CalmIs, EndFinalIs DEF Complete, Delete, Untouched, Quiet, Busy, Completed, Typed
<1>2. ASSUME NEW s \in Slot, Convert(s) PROVE FinalInv'
  <2>1. run[s] \in SweepRun /\ run[s].pc = "convert" BY <1>2, OtherRunning DEF Convert
  <2>2. PICK d \in Advance : d = run[s].d BY <2>1 DEF SweepRun
  <2>3. \A t \in Slot \ {s} : run[t].pc = "idle" BY <2>1, QuietOrOne DEF Busy
  <2>4. Done(s) /\ UNCHANGED <<case, row>> BY <1>2 DEF Convert
  <2>5. \A t \in Slot : run'[t].pc = "idle" BY <2>3, <2>4 DEF Done, Typed, Idle
  <2>6. d \in Doc /\ Advance \subseteq Slot /\ Doc \subseteq Slot BY AdvanceAssumption DEF Slot
  <2>7. \/ UNCHANGED <<doc, hooks>>
        \/ doc[d].state = "draft" /\ doc' = Completed(d) /\ hooks' = ToldCompleted(d)
    BY <1>2, <2>2, CalmIs DEF Convert
  <2>a. /\ \A a \in Advance : Own(a, doc[a], row[a]["draft"], row[a]["order"], run[a].pc) /\ Shared(a)
        /\ Heard /\ AtRun(s, run[s])
    BY DEF FinalInv
  <2>8. CASE UNCHANGED <<doc, hooks>>
    BY <2>a, <2>1, <2>3, <2>6, OwnStays, <2>4, <2>8, SharedStays, HeardStays, <2>5, NobodyKnows, FinalIs DEF OwnPc,
       Alike
  <2>9. CASE doc[d].state = "draft" /\ doc' = Completed(d) /\ hooks' = ToldCompleted(d)
    BY <2>9, <2>6, <2>1, <2>3, <2>2, <2>a, <2>4, <2>5, EndFinalIs DEF Completed, Typed, AtRun
  <2> QED BY <2>7, <2>8, <2>9
<1> QED BY <1>1, <1>2

\* What the register's writers change.
LEMMA OneRow ==
  ASSUME Typed, NEW a, NEW n \in Name, NEW v, row' = [row EXCEPT ![a][n] = v]
  PROVE  /\ \A b \in Advance \ {a} : row'[b] = row[b]
         /\ \A m \in Name \ {n} : \A b \in Advance : row'[b][m] = row[b][m]
         /\ a \in Advance => row'[a][n] = v
  BY DEF Typed

LEMMA IssueWrites ==
  ASSUME Typed, NEW a, UpsertIssued(a)
  PROVE  /\ \A b \in Advance \ {a} : row'[b] = row[b]
         /\ \A b \in Advance : row'[b]["order"] = row[b]["order"]
         /\ a \in Advance => \/ row'[a]["draft"] = row[a]["draft"]
                             \/ /\ row[a]["draft"].status = "none"
                                /\ row'[a]["draft"].status = "open" /\ row'[a]["draft"].issued
<1>0. PICK v : v = [status |-> "open", target |-> None, issued |-> TRUE] OBVIOUS
<1>1. v.status = "open" /\ v.issued BY <1>0
<1>2. CASE row' = row BY <1>2
<1>3. CASE row' = [row EXCEPT ![a]["draft"] = v] /\ row[a]["draft"].status = "none" BY <1>1, <1>3, OneRow DEF Name
<1> QED BY <1>0, <1>2, <1>3 DEF UpsertIssued

LEMMA StatusWrites ==
  ASSUME Typed, NEW a, NEW n \in Name, NEW st, row' = [row EXCEPT ![a][n].status = st]
  PROVE  /\ \A b \in Advance \ {a} : row'[b] = row[b]
         /\ \A m \in Name \ {n} : \A b \in Advance : row'[b][m] = row[b][m]
         /\ a \in Advance => /\ row'[a][n].status = st
                             /\ row'[a][n].target = row[a][n].target /\ row'[a][n].issued = row[a][n].issued
<1>1. row \in [Advance -> [Name -> RowRec]] BY DEF Typed
<1>2. CASE a \in Advance
  <2>1. row[a][n] \in RowRec BY <1>1, <1>2
  <2>2. PICK v : v = [row[a][n] EXCEPT !.status = st] OBVIOUS
  <2>3. v.status = st /\ v.target = row[a][n].target /\ v.issued = row[a][n].issued BY <2>1, <2>2 DEF RowRec
  <2>4. row' = [row EXCEPT ![a][n] = v] BY <1>1, <1>2, <2>2
  <2>5. /\ \A b \in Advance \ {a} : row'[b] = row[b]
        /\ \A m \in Name \ {n} : \A b \in Advance : row'[b][m] = row[b][m]
        /\ row'[a][n] = v
    BY <1>1, <1>2, <2>4
  <2> QED BY <2>3, <2>5
<1>3. CASE a \notin Advance BY <1>1, <1>3
<1> QED BY <1>2, <1>3

Retargets(a, n, d, st) == row' = [row EXCEPT ![a][n].status = st, ![a][n].target = d]

LEMMA TargetWrites ==
  ASSUME Typed, NEW a, NEW n \in Name, NEW d, NEW st, Retargets(a, n, d, st)
  PROVE  /\ \A b \in Advance \ {a} : row'[b] = row[b]
         /\ \A m \in Name \ {n} : \A b \in Advance : row'[b][m] = row[b][m]
         /\ a \in Advance => /\ row'[a][n].status = st /\ row'[a][n].target = d
                             /\ row'[a][n].issued = row[a][n].issued
<1>1. row \in [Advance -> [Name -> RowRec]] BY DEF Typed
<1>2. CASE a \in Advance
  <2>1. row[a][n] \in RowRec BY <1>1, <1>2
  <2>2. PICK v : v = [row[a][n] EXCEPT !.status = st, !.target = d] OBVIOUS
  <2>3. v.status = st /\ v.target = d /\ v.issued = row[a][n].issued BY <2>1, <2>2 DEF RowRec
  <2>4. row' = [row EXCEPT ![a][n] = v] BY <1>1, <1>2, <2>2 DEF Retargets
  <2>5. /\ \A b \in Advance \ {a} : row'[b] = row[b]
        /\ \A m \in Name \ {n} : \A b \in Advance : row'[b][m] = row[b][m]
        /\ row'[a][n] = v
    BY <1>1, <1>2, <2>4
  <2> QED BY <2>3, <2>5
<1>3. CASE a \notin Advance BY <1>1, <1>3 DEF Retargets
<1> QED BY <1>2, <1>3

LEMMA RekeyWrites ==
  ASSUME Typed, NEW a, Rekey(a)
  PROVE  /\ \A b \in Advance \ {a} : row'[b] = row[b]
         /\ a \in Advance => \/ row'[a] = row[a]
                             \/ /\ row[a]["order"].status = "none" /\ row[a]["draft"].status # "none"
                                /\ row'[a]["order"] = row[a]["draft"] /\ row'[a]["draft"] = NoRow
<1>1. row \in [Advance -> [Name -> RowRec]] BY DEF Typed
<1>2. PICK v : v = [order |-> row[a]["draft"], draft |-> NoRow] OBVIOUS
<1>3. v["order"] = row[a]["draft"] /\ v["draft"] = NoRow BY <1>2
<1>4. \/ row' = row
      \/ row' = [row EXCEPT ![a] = v] /\ row[a]["order"].status = "none" /\ row[a]["draft"].status # "none"
  BY <1>2 DEF Rekey
<1> QED BY <1>1, <1>3, <1>4

LEMMA RevertWrites ==
  ASSUME Typed, NEW d, RevertApplied(d), NEW b \in Advance, NEW m \in Name
  PROVE  \/ row'[b][m] = row[b][m]
         \/ /\ row[b][m].status = "applied" /\ row[b][m].target = d
            /\ row'[b][m].status = "open" /\ row'[b][m].issued = row[b][m].issued
<1>1. row[b][m] \in RowRec BY DEF Typed
<1>2. row'[b][m] = IF row[b][m].status = "applied" /\ row[b][m].target = d
                   THEN [row[b][m] EXCEPT !.status = "open", !.target = None] ELSE row[b][m]
  BY DEF RevertApplied
<1>3. PICK v : v = [row[b][m] EXCEPT !.status = "open", !.target = None] OBVIOUS
<1>4. v.status = "open" /\ v.issued = row[b][m].issued BY <1>1, <1>3 DEF RowRec
<1> QED BY <1>2, <1>3, <1>4

\* A pass at work, alone, on a draft.
LEMMA PassAt ==
  ASSUME Typed, Calm, OneRequest, FinalInv, NEW s \in Slot, run[s].pc \in PassPc, Step(s)
  PROVE  /\ s \in Doc /\ run[s].d = s /\ doc[s].state = "draft" /\ doc[s] \in DocRec /\ run[s] \in PassRun
         /\ AtPass(s, run[s])
         /\ \A t \in Slot \ {s} : run[t].pc = "idle" /\ run'[t].pc = "idle"
         /\ run[s].pc \in {"gate", "absorb", "unconfirmed", "reserve", "tag", "reserveRow"} => run[s].src \in Advance
  BY PassRunning, StepRuns, QuietOrOne DEF FinalInv, AtRun, AtPass, Busy, Typed

\* A step of a pass on its own draft's advance.
LEMMA OwnChain ==
  ASSUME Typed, Calm, FinalInv, NEW d \in Doc, doc[d].state = "draft", run[d].pc # "reserveRow",
         \A t \in Slot \ {d} : run[t].pc = "idle" /\ run'[t].pc = "idle",
         UNCHANGED <<case, hooks>>,
         \A e \in Doc \ {d} : doc'[e] = doc[e],
         doc'[d].state = "draft", doc'[d].tag = doc[d].tag,
         \A a \in Advance : doc[d].legs[a] > 0 => doc'[d].legs[a] > 0,
         doc'[d].order = doc[d].order,
         doc'[d].status = doc[d].status \/ doc'[d].status # "open" \/ doc[d].status = "none",
         \A a \in Advance \ {d} : row'[a] = row[a],
         \A a \in Advance : row'[a]["order"] = row[a]["order"],
         d \in Advance => Own(d, doc'[d], row'[d]["draft"], row'[d]["order"], run'[d].pc),
         AtRun(d, run[d])'
  PROVE  FinalInv'
<1>1. Advance \subseteq Doc /\ Doc \subseteq Slot BY AdvanceAssumption DEF Slot
<1>2. /\ \A a \in Advance : Own(a, doc[a], row[a]["draft"], row[a]["order"], run[a].pc) /\ Shared(a)
      /\ Heard
  BY DEF FinalInv
<1>3. ASSUME NEW a \in Advance PROVE Own(a, doc'[a], row'[a]["draft"], row'[a]["order"], run'[a].pc) BY <1>1, <1>2
<1>4. \A e \in Doc : /\ \A a \in Advance : doc[e].legs[a] > 0 => doc'[e].legs[a] > 0
                     /\ doc'[e].tag = doc[e].tag
                     /\ doc'[e].order = doc[e].order /\ doc'[e].state = doc[e].state
                     /\ doc[e].state # "draft" => doc'[e] = doc[e]
  OBVIOUS
<1>5. ASSUME NEW a \in Advance PROVE Shared(a)' BY <1>1, <1>2, <1>4, SharedStays DEF Own
<1>6. Heard' BY <1>2, <1>4, HeardStays DEF Typed, HookRec
<1>7. \A t \in Slot : AtRun(t, run[t])' BY DEF AtRun, PassPc, HookPc
<1> QED BY <1>3, <1>5, <1>6, <1>7, FinalIs

LEMMA PassFinal ==
  ASSUME Typed, Calm, FinalInv, NEW d \in Doc, Pass(d) PROVE FinalInv'
<1>1. /\ d \in Slot /\ doc[d] \in DocRec /\ doc[d].state = "draft" /\ UNCHANGED <<case, row, hooks>>
  BY DEF Pass, Handling, Typed, Slot
<1>2. \A t \in Slot : run[t].pc = "idle" BY CalmIs DEF Pass, CanStart, Quiet, Busy
<1>3. PICK m : m = [pc |-> "capture", d |-> d, line |-> doc[d].line, piece |-> doc[d].piece,
                    tag |-> doc[d].tag, src |-> None, read |-> 0] OBVIOUS
<1>4. run' = [run EXCEPT ![d] = m] BY <1>3 DEF Pass
<1>5. m.pc = "capture" /\ m.d = d /\ m.line = doc[d].line /\ m.piece = doc[d].piece BY <1>3
<1>6. run'[d] = m /\ \A t \in Slot \ {d} : run'[t].pc = "idle" BY <1>1, <1>2, <1>4 DEF Typed
<1>7. doc' = [doc EXCEPT ![d] = [doc[d] EXCEPT !.dirty = FALSE]] BY DEF Pass, Typed
<1>8. doc'[d] = [doc[d] EXCEPT !.dirty = FALSE] /\ \A e \in Doc \ {d} : doc'[e] = doc[e] BY <1>7 DEF Typed
<1>9. PICK x, y : x = doc[d] /\ y = doc'[d] OBVIOUS
<1>10. /\ y.state = x.state /\ y.line = x.line /\ y.piece = x.piece /\ y.refunded = x.refunded
       /\ y.status = x.status /\ y.order = x.order /\ y.age = x.age /\ y.legs = x.legs /\ y.tag = x.tag
  BY <1>1, <1>8, <1>9 DEF DocRec
<1>11. d \in Advance => Own(d, doc'[d], row'[d]["draft"], row'[d]["order"], run'[d].pc)
  <2> SUFFICES ASSUME d \in Advance PROVE Own(d, y, row[d]["draft"], row[d]["order"], "capture")
    BY <1>1, <1>5, <1>6, <1>9
  <2>1. PICK p, q : p = row[d]["draft"] /\ q = row[d]["order"] OBVIOUS
  <2>2. Own(d, doc[d], row[d]["draft"], row[d]["order"], run[d].pc) BY DEF FinalInv
  <2>3. Own(d, x, p, q, "idle") BY <1>1, <1>2, <1>9, <2>1, <2>2
  <2>4. Own(d, y, p, q, "capture") BY <1>10, <2>3 DEF Own
  <2> QED BY <2>1, <2>4
<1>12. AtRun(d, run[d])'
  BY <1>1, <1>5, <1>9, <1>10, <1>6 DEF AtRun, AtPass, PassPc, HookPc, AtHook, Told, Free, Allowed
<1>13. /\ doc'[d].state = "draft" /\ doc'[d].legs = doc[d].legs /\ doc'[d].tag = doc[d].tag
       /\ doc'[d].order = doc[d].order /\ doc'[d].status = doc[d].status
  BY <1>1, <1>9, <1>10
<1>14. \A t \in Slot \ {d} : run[t].pc = "idle" /\ run'[t].pc = "idle" BY <1>2, <1>6
<1>15. run[d].pc # "reserveRow" BY <1>1, <1>2
<1> QED BY <1>1, <1>8, <1>11, <1>12, <1>13, <1>14, <1>15, OwnChain

LEMMA GoesOn ==
  ASSUME Typed, NEW s \in Slot, run[s] \in PassRun, NEW pc, Goto(s, pc)
  PROVE  /\ run'[s].pc = pc /\ run'[s].d = run[s].d /\ run'[s].line = run[s].line
         /\ run'[s].piece = run[s].piece /\ run'[s].tag = run[s].tag /\ run'[s].src = run[s].src
<1>1. PICK m : m = [run[s] EXCEPT !.pc = pc] OBVIOUS
<1>2. run'[s] = m BY <1>1 DEF Goto, Typed
<1>3. /\ m.pc = pc /\ m.d = run[s].d /\ m.line = run[s].line
      /\ m.piece = run[s].piece /\ m.tag = run[s].tag /\ m.src = run[s].src
  BY <1>1 DEF PassRun
<1> QED BY <1>2, <1>3

LEMMA Ended == ASSUME Typed, NEW s \in Slot, Done(s) PROVE run'[s].pc = "idle"
  BY DEF Done, Typed, Idle

LEMMA DraftWritten ==
  ASSUME Typed, NEW d \in Doc, doc[d].state = "draft", NEW r \in DocRec, Write(d, r)
  PROVE  /\ \A e \in Doc \ {d} : doc'[e] = doc[e]
         /\ doc'[d].state = r.state /\ doc'[d].line = r.line /\ doc'[d].piece = r.piece
         /\ doc'[d].refunded = r.refunded /\ doc'[d].status = r.status /\ doc'[d].order = r.order
         /\ doc'[d].age = r.age /\ doc'[d].legs = r.legs /\ doc'[d].tag = r.tag /\ doc'[d].dirty
         /\ doc'[d].paid = r.paid /\ doc'[d] \in DocRec
<1>1. PICK y : y = doc'[d] OBVIOUS
<1>2. y = [r EXCEPT !.dirty = TRUE] BY <1>1, WriteIs
<1>3. /\ y.state = r.state /\ y.line = r.line /\ y.piece = r.piece
      /\ y.refunded = r.refunded /\ y.status = r.status /\ y.order = r.order
      /\ y.age = r.age /\ y.legs = r.legs /\ y.tag = r.tag /\ y.dirty /\ y.paid = r.paid
  BY <1>2 DEF DocRec
<1> QED BY <1>1, <1>3, WriteIs

\* The status of its advance is written to a draft.
LEMMA StatusWritten ==
  ASSUME Typed, NEW d \in Doc, doc[d].state = "draft", NEW v \in Status,
         Write(d, [doc[d] EXCEPT !.status = v])
  PROVE  /\ \A e \in Doc \ {d} : doc'[e] = doc[e]
         /\ doc'[d].state = "draft" /\ doc'[d].line = doc[d].line /\ doc'[d].piece = doc[d].piece
         /\ doc'[d].refunded = doc[d].refunded /\ doc'[d].status = v /\ doc'[d].order = doc[d].order
         /\ doc'[d].age = doc[d].age /\ doc'[d].legs = doc[d].legs /\ doc'[d].tag = doc[d].tag
         /\ doc'[d].dirty /\ doc'[d].paid = doc[d].paid /\ doc'[d] \in DocRec
<1>1. PICK r : r = [doc[d] EXCEPT !.status = v] OBVIOUS
<1>2. r \in DocRec /\ doc[d] \in DocRec BY <1>1, ValueTyped, FieldTyped
<1>3. /\ r.state = doc[d].state /\ r.line = doc[d].line /\ r.piece = doc[d].piece
      /\ r.refunded = doc[d].refunded /\ r.status = v /\ r.order = doc[d].order
      /\ r.age = doc[d].age /\ r.legs = doc[d].legs /\ r.tag = doc[d].tag /\ r.paid = doc[d].paid
  BY <1>1, <1>2 DEF DocRec
<1>4. Write(d, r) BY <1>1
<1> QED BY <1>2, <1>3, <1>4, DraftWritten

\* Money has landed for the line, the piece takes its place.
LEMMA CaptureFinal ==
  ASSUME Typed, Calm, OneRequest, FinalInv, NEW s \in Slot, Capture(s) \/ Issue(s) PROVE FinalInv'
<1>0. run[s].pc \in {"capture", "issue"} /\ UNCHANGED <<case, hooks>> /\ Step(s)
  BY DEF Capture, Captures, Issue, Handling, Step
<1>1. /\ s \in Doc /\ run[s].d = s /\ doc[s].state = "draft" /\ doc[s] \in DocRec /\ run[s] \in PassRun
      /\ AtPass(s, run[s])
      /\ \A t \in Slot \ {s} : run[t].pc = "idle" /\ run'[t].pc = "idle"
  BY <1>0, PassAt DEF PassPc
<1>2. run[s].line = doc[s].line /\ run[s].piece = doc[s].piece
      /\ (run[s].pc = "issue" => doc[s].status # "none")
  BY <1>0, <1>1 DEF AtPass
<1>3. s \in Advance => Own(s, doc[s], row[s]["draft"], row[s]["order"], run[s].pc) BY DEF FinalInv
<1>4. PICK x, y, p, q, p2 : /\ x = doc[s] /\ y = doc'[s] /\ p = row[s]["draft"] /\ q = row[s]["order"]
                            /\ p2 = row'[s]["draft"] OBVIOUS
<1>5. CASE Capture(s)
  <2>1. UNCHANGED row BY <1>5 DEF Capture, Captures
  <2>2. run[s].pc = "capture" BY <1>5 DEF Capture, Captures
  <2>3. CASE doc[s].state # "gone" /\ run[s].line /\ doc[s].status = "none" /\ doc[s].paid
    <3>1. Write(s, [doc[s] EXCEPT !.status = "open"]) /\ Goto(s, "issue") BY <1>1, <1>5, <2>3 DEF Capture, Captures
    <3>2. run'[s].pc = "issue" /\ run'[s].d = s /\ run'[s].line = run[s].line /\ run'[s].piece = run[s].piece
      BY <1>1, <3>1, GoesOn
    <3>3. /\ \A e \in Doc \ {s} : doc'[e] = doc[e]
          /\ y.state = "draft" /\ y.line = x.line /\ y.piece = x.piece
          /\ y.refunded = x.refunded /\ y.status = "open" /\ y.order = x.order
          /\ y.age = x.age /\ y.legs = x.legs /\ y.tag = x.tag /\ y.dirty
      BY <1>1, <1>4, <3>1, StatusWritten DEF Status
    <3>4. s \in Advance => Own(s, y, p, q, "issue")
      <4> SUFFICES ASSUME s \in Advance PROVE Own(s, y, p, q, "issue") OBVIOUS
      <4>1. Own(s, x, p, q, "capture") BY <1>3, <1>4, <2>2
      <4>2. x.state = "draft" /\ x.line /\ x.status = "none" BY <1>1, <1>2, <1>4, <2>3
      <4> QED BY <3>3, <4>1, <4>2 DEF Own
    <3>5. AtRun(s, run[s])' BY <1>2, <1>4, <3>2, <3>3 DEF AtRun, AtPass, PassPc, HookPc
    <3> QED BY <1>0, <1>1, <1>4, <2>1, <2>3, <3>2, <3>3, <3>4, <3>5, OwnChain
  <2>4. CASE ~(doc[s].state # "gone" /\ run[s].line /\ doc[s].status = "none" /\ doc[s].paid)
    <3>1. UNCHANGED doc /\ Goto(s, "line") BY <1>1, <1>5, <2>4 DEF Capture, Captures
    <3>2. run'[s].pc = "line" /\ run'[s].d = s /\ run'[s].line = run[s].line /\ run'[s].piece = run[s].piece
      BY <1>1, <3>1, GoesOn
    <3>3. s \in Advance => Own(s, x, p, q, "line")
      <4> SUFFICES ASSUME s \in Advance PROVE Own(s, x, p, q, "line") OBVIOUS
      <4>1. Own(s, x, p, q, "capture") BY <1>3, <1>4, <2>2
      <4> QED BY <4>1 DEF Own
    <3>4. AtRun(s, run[s])' BY <1>1, <1>2, <3>1, <3>2 DEF AtRun, AtPass, PassPc, HookPc
    <3> QED BY <1>0, <1>1, <1>4, <2>1, <3>1, <3>2, <3>3, <3>4, OwnChain
  <2> QED BY <2>3, <2>4
<1>6. CASE Issue(s)
  <2>1. UpsertIssued(s) /\ Goto(s, "line") /\ UNCHANGED doc /\ run[s].pc = "issue" BY <1>1, <1>6 DEF Issue
  <2>2. run'[s].pc = "line" /\ run'[s].d = s /\ run'[s].line = run[s].line /\ run'[s].piece = run[s].piece
    BY <1>1, <2>1, GoesOn
  <2>3. /\ \A b \in Advance \ {s} : row'[b] = row[b]
        /\ \A b \in Advance : row'[b]["order"] = row[b]["order"]
        /\ s \in Advance => p2 = p \/ (p.status = "none" /\ p2.status = "open")
    BY <1>4, <2>1, IssueWrites
  <2>4. s \in Advance => Own(s, x, p2, q, "line")
    <3> SUFFICES ASSUME s \in Advance PROVE Own(s, x, p2, q, "line") OBVIOUS
    <3>1. Own(s, x, p, q, "issue") BY <1>3, <1>4, <2>1
    <3>2. x.state = "draft" BY <1>1, <1>4
    <3> QED BY <2>3, <3>1, <3>2 DEF Own
  <2>5. AtRun(s, run[s])' BY <1>1, <1>2, <2>1, <2>2 DEF AtRun, AtPass, PassPc, HookPc
  <2> QED BY <1>0, <1>1, <1>4, <2>1, <2>2, <2>3, <2>4, <2>5, OwnChain
<1> QED BY <1>5, <1>6

LEMMA CommitFinal ==
  ASSUME Typed, Calm, OneRequest, FinalInv, NEW s \in Slot, RemoveLine(s) \/ Commit(s) \/ CommitRow(s)
  PROVE  FinalInv'
<1>0. run[s].pc \in {"line", "commit", "commitRow"} /\ UNCHANGED <<case, hooks>> /\ Step(s)
  BY DEF RemoveLine, Commit, CommitRow, Handling, Step
<1>1. /\ s \in Doc /\ run[s].d = s /\ doc[s].state = "draft" /\ doc[s] \in DocRec /\ run[s] \in PassRun
      /\ AtPass(s, run[s])
      /\ \A t \in Slot \ {s} : run[t].pc = "idle" /\ run'[t].pc = "idle"
  BY <1>0, PassAt DEF PassPc
<1>2. /\ run[s].pc = "line" => run[s].line = doc[s].line /\ run[s].piece = doc[s].piece
      /\ run[s].pc = "commitRow" => doc[s].status = "applied"
  BY <1>0, <1>1 DEF AtPass
<1>3. s \in Advance => Own(s, doc[s], row[s]["draft"], row[s]["order"], run[s].pc) BY DEF FinalInv
<1>4. PICK x, y, p, q, p2 : /\ x = doc[s] /\ y = doc'[s] /\ p = row[s]["draft"] /\ q = row[s]["order"]
                            /\ p2 = row'[s]["draft"] OBVIOUS
<1>5. CASE RemoveLine(s)
  <2>1. UNCHANGED row BY <1>5 DEF RemoveLine
  <2>2. run[s].pc = "line" BY <1>5 DEF RemoveLine
  <2>3. CASE run[s].line /\ run[s].piece /\ doc[s].status # "none"
    <3>1. Write(s, [doc[s] EXCEPT !.line = FALSE]) /\ Goto(s, "commit") BY <1>1, <1>5, <2>3 DEF RemoveLine
    <3>2. run'[s].pc = "commit" /\ run'[s].d = s BY <1>1, <3>1, GoesOn
    <3>3. /\ \A e \in Doc \ {s} : doc'[e] = doc[e]
          /\ y.state = "draft" /\ ~y.line /\ y.piece = x.piece
          /\ y.refunded = x.refunded /\ y.status = x.status /\ y.order = x.order
          /\ y.age = x.age /\ y.legs = x.legs /\ y.tag = x.tag /\ y.dirty
      <4>1. PICK r : r = [doc[s] EXCEPT !.line = FALSE] OBVIOUS
      <4>2. r \in DocRec BY <1>1, <4>1, FieldTyped
      <4>3. /\ r.state = "draft" /\ ~r.line /\ r.piece = x.piece
            /\ r.refunded = x.refunded /\ r.status = x.status /\ r.order = x.order
            /\ r.age = x.age /\ r.legs = x.legs /\ r.tag = x.tag
        BY <1>1, <1>4, <4>1 DEF DocRec
      <4>4. Write(s, r) BY <3>1, <4>1
      <4> QED BY <1>1, <1>4, <4>2, <4>3, <4>4, DraftWritten
    <3>4. s \in Advance => Own(s, y, p, q, "commit")
      <4> SUFFICES ASSUME s \in Advance PROVE Own(s, y, p, q, "commit") OBVIOUS
      <4>1. Own(s, x, p, q, "line") BY <1>3, <1>4, <2>2
      <4>2. x.state = "draft" BY <1>1, <1>4
      <4> QED BY <3>3, <4>1, <4>2 DEF Own
    <3>5. AtRun(s, run[s])' BY <1>4, <3>2, <3>3 DEF AtRun, AtPass, PassPc, HookPc
    <3> QED BY <1>0, <1>1, <1>4, <2>1, <2>2, <3>2, <3>3, <3>4, <3>5, OwnChain
  <2>4. CASE ~(run[s].line /\ run[s].piece /\ doc[s].status # "none")
    <3>1. UNCHANGED doc /\ Goto(s, "redeem") BY <1>1, <1>5, <2>4 DEF RemoveLine
    <3>2. run'[s].pc = "redeem" /\ run'[s].d = s BY <1>1, <3>1, GoesOn
    <3>3. s \in Advance => Own(s, x, p, q, "redeem")
      <4> SUFFICES ASSUME s \in Advance PROVE Own(s, x, p, q, "redeem") OBVIOUS
      <4>1. Own(s, x, p, q, "line") BY <1>3, <1>4, <2>2
      <4>2. ~(x.line /\ x.piece /\ x.status # "none") BY <1>2, <1>4, <2>2, <2>4
      <4>3. x.state = "draft" BY <1>1, <1>4
      <4> QED BY <4>1, <4>2, <4>3 DEF Own
    <3>4. AtRun(s, run[s])' BY <1>1, <3>1, <3>2 DEF AtRun, AtPass, PassPc, HookPc
    <3> QED BY <1>0, <1>1, <1>4, <2>1, <2>2, <3>1, <3>2, <3>3, <3>4, OwnChain
  <2> QED BY <2>3, <2>4
<1>6. CASE Commit(s)
  <2>1. UNCHANGED row /\ run[s].pc = "commit" BY <1>6 DEF Commit
  <2>2. Write(s, [doc[s] EXCEPT !.status = "applied"]) /\ Goto(s, "commitRow") BY <1>1, <1>6 DEF Commit
  <2>3. run'[s].pc = "commitRow" /\ run'[s].d = s BY <1>1, <2>2, GoesOn
  <2>4. /\ \A e \in Doc \ {s} : doc'[e] = doc[e]
        /\ y.state = "draft" /\ y.line = x.line /\ y.piece = x.piece
        /\ y.refunded = x.refunded /\ y.status = "applied" /\ y.order = x.order
        /\ y.age = x.age /\ y.legs = x.legs /\ y.tag = x.tag /\ y.dirty
    BY <1>1, <1>4, <2>2, StatusWritten DEF Status
  <2>5. s \in Advance => Own(s, y, p, q, "commitRow")
    <3> SUFFICES ASSUME s \in Advance PROVE Own(s, y, p, q, "commitRow") OBVIOUS
    <3>1. Own(s, x, p, q, "commit") BY <1>3, <1>4, <2>1
    <3>2. x.state = "draft" BY <1>1, <1>4
    <3> QED BY <2>4, <3>1, <3>2 DEF Own
  <2>6. AtRun(s, run[s])' BY <1>4, <2>3, <2>4 DEF AtRun, AtPass, PassPc, HookPc
  <2> QED BY <1>0, <1>1, <1>4, <2>1, <2>3, <2>4, <2>5, <2>6, OwnChain
<1>7. CASE CommitRow(s)
  <2>1. Apply(s, "draft", s) /\ Goto(s, "redeem") /\ UNCHANGED doc /\ run[s].pc = "commitRow"
    BY <1>1, <1>7 DEF CommitRow
  <2>2. run'[s].pc = "redeem" /\ run'[s].d = s BY <1>1, <2>1, GoesOn
  <2>3. /\ \A b \in Advance \ {s} : row'[b] = row[b]
        /\ \A b \in Advance : row'[b]["order"] = row[b]["order"]
        /\ s \in Advance => p2.status = "applied" /\ p2.target = s
    <3>1. Retargets(s, "draft", s, "applied") BY <2>1 DEF Apply, Retargets
    <3>2. "draft" \in Name /\ "order" \in Name \ {"draft"} BY DEF Name
    <3> QED BY <1>4, <3>1, <3>2, TargetWrites
  <2>4. s \in Advance => Own(s, x, p2, q, "redeem")
    <3> SUFFICES ASSUME s \in Advance PROVE Own(s, x, p2, q, "redeem") OBVIOUS
    <3>1. Own(s, x, p, q, "commitRow") BY <1>3, <1>4, <2>1
    <3>2. x.state = "draft" /\ x.status = "applied" BY <1>1, <1>2, <1>4, <2>1
    <3> QED BY <2>3, <3>1, <3>2 DEF Own
  <2>5. AtRun(s, run[s])' BY <1>1, <2>1, <2>2 DEF AtRun, AtPass, PassPc, HookPc
  <2> QED BY <1>0, <1>1, <1>4, <2>1, <2>2, <2>3, <2>4, <2>5, OwnChain
<1> QED BY <1>5, <1>6, <1>7

\* Money given back closes the advance.
LEMMA RefundFinal ==
  ASSUME Typed, Calm, OneRequest, FinalInv, NEW s \in Slot, Refund(s) \/ Close(s) PROVE FinalInv'
<1>0. run[s].pc \in {"refund", "close"} /\ UNCHANGED <<case, hooks>> /\ Step(s)
  BY DEF Refund, Refunds, Close, Handling, Step
<1>1. /\ s \in Doc /\ run[s].d = s /\ doc[s].state = "draft" /\ doc[s] \in DocRec /\ run[s] \in PassRun
      /\ AtPass(s, run[s])
      /\ \A t \in Slot \ {s} : run[t].pc = "idle" /\ run'[t].pc = "idle"
  BY <1>0, PassAt DEF PassPc
<1>2. run[s].pc = "close" => doc[s].status = "refunded" BY <1>0, <1>1 DEF AtPass
<1>3. s \in Advance => Own(s, doc[s], row[s]["draft"], row[s]["order"], run[s].pc) BY DEF FinalInv
<1>4. PICK x, y, p, q, p2 : /\ x = doc[s] /\ y = doc'[s] /\ p = row[s]["draft"] /\ q = row[s]["order"]
                            /\ p2 = row'[s]["draft"] OBVIOUS
<1>5. CASE Refund(s)
  <2>1. UNCHANGED row /\ run[s].pc = "refund" BY <1>5 DEF Refund, Refunds
  <2>2. CASE doc[s].status \in Live /\ doc[s].refunded
    <3>1. Write(s, [doc[s] EXCEPT !.status = "refunded"]) /\ Goto(s, "close") BY <1>1, <1>5, <2>2 DEF Refund, Refunds
    <3>2. run'[s].pc = "close" /\ run'[s].d = s BY <1>1, <3>1, GoesOn
    <3>3. /\ \A e \in Doc \ {s} : doc'[e] = doc[e]
          /\ y.state = "draft" /\ y.line = x.line /\ y.piece = x.piece
          /\ y.refunded = x.refunded /\ y.status = "refunded" /\ y.order = x.order
          /\ y.age = x.age /\ y.legs = x.legs /\ y.tag = x.tag /\ y.dirty
      BY <1>1, <1>4, <3>1, StatusWritten DEF Status
    <3>4. s \in Advance => Own(s, y, p, q, "close")
      <4> SUFFICES ASSUME s \in Advance PROVE Own(s, y, p, q, "close") OBVIOUS
      <4>1. Own(s, x, p, q, "refund") BY <1>3, <1>4, <2>1
      <4>2. x.state = "draft" /\ x.refunded BY <1>1, <1>4, <2>2
      <4> QED BY <3>3, <4>1, <4>2 DEF Own
    <3>5. AtRun(s, run[s])' BY <1>4, <3>2, <3>3 DEF AtRun, AtPass, PassPc, HookPc
    <3> QED BY <1>0, <1>1, <1>4, <2>1, <3>2, <3>3, <3>4, <3>5, OwnChain
  <2>3. CASE ~(doc[s].status \in Live /\ doc[s].refunded)
    <3>1. UNCHANGED doc /\ Done(s) BY <1>1, <1>5, <2>3 DEF Refund, Refunds
    <3>2. run'[s].pc = "idle" BY <3>1, Ended
    <3>3. s \in Advance => Own(s, x, p, q, "idle")
      <4> SUFFICES ASSUME s \in Advance PROVE Own(s, x, p, q, "idle") OBVIOUS
      <4>1. Own(s, x, p, q, "refund") BY <1>3, <1>4, <2>1
      <4> QED BY <4>1 DEF Own
    <3>4. AtRun(s, run[s])' BY <3>2 DEF AtRun, PassPc, HookPc
    <3> QED BY <1>0, <1>1, <1>4, <2>1, <3>1, <3>2, <3>3, <3>4, OwnChain
  <2> QED BY <2>2, <2>3
<1>6. CASE Close(s)
  <2>1. CloseInstrument(s, "draft", "refunded") /\ Done(s) /\ UNCHANGED doc /\ run[s].pc = "close"
    BY <1>1, <1>6 DEF Close
  <2>2. run'[s].pc = "idle" BY <2>1, Ended
  <2>3. /\ \A b \in Advance \ {s} : row'[b] = row[b]
        /\ \A b \in Advance : row'[b]["order"] = row[b]["order"]
        /\ s \in Advance => p2 = p \/ p2.status = "refunded" BY <1>4, StatusWrites, <2>1 DEF Name, CloseInstrument
  <2>4. s \in Advance => Own(s, x, p2, q, "idle")
    <3> SUFFICES ASSUME s \in Advance PROVE Own(s, x, p2, q, "idle") OBVIOUS
    <3>1. Own(s, x, p, q, "close") BY <1>3, <1>4, <2>1
    <3>2. x.state = "draft" /\ x.status = "refunded" BY <1>1, <1>2, <1>4, <2>1
    <3> QED BY <2>3, <3>1, <3>2 DEF Own
  <2>5. AtRun(s, run[s])' BY <2>2 DEF AtRun, PassPc, HookPc
  <2> QED BY <1>0, <1>1, <1>4, <2>1, <2>2, <2>3, <2>4, <2>5, OwnChain
<1> QED BY <1>5, <1>6

\* Nothing but requests changes, beside the calls on one's own advance.
LEMMA PlainFinal ==
  ASSUME Typed, Calm, FinalInv, UNCHANGED <<case, doc, row>>, hooks' \subseteq hooks,
         \A t \in Slot : run[t].pc \notin OwnPc \cup {"reserveRow"},
         \A t \in Slot : AtRun(t, run[t])'
  PROVE  FinalInv'
  BY AdvanceAssumption, OwnStays, SharedStays, HeardStays, FinalIs DEF Slot, FinalInv, Alike

\* An order is told of its advance.
LEMMA OrderFinal ==
  ASSUME Typed, Calm, FinalInv, NEW b \in Doc, NEW v \in Status \ {"none"}, OnOrder(b, v),
         doc[b].state = "order", UNCHANGED <<case, row, hooks>>,
         b \in Advance => /\ doc[b].status # "none"
                          /\ v = "open" => /\ doc[b].status = "open"
                                           /\ Allowed("again") \/ row[b]["order"].status = "none",
         \/ Allowed("again") \/ doc[b].order # "none"
         \/ \A h \in hooks : h.kind = "completed" => h.d # b,
         \A t \in Slot : run[t].pc \notin OwnPc \cup {"reserveRow"},
         \A t \in Slot : AtRun(t, run[t])'
  PROVE  FinalInv'
<1>1. Advance \subseteq Doc /\ Doc \subseteq Slot BY AdvanceAssumption DEF Slot
<1>2. /\ \A a \in Advance : Own(a, doc[a], row[a]["draft"], row[a]["order"], run[a].pc) /\ Shared(a)
      /\ Heard
  BY DEF FinalInv
<1>3. doc[b] \in DocRec BY DEF Typed
<1>4. (\A e \in Doc \ {b} : doc'[e] = doc[e]) /\ doc'[b] = [doc[b] EXCEPT !.order = v] BY OrderIs
<1>5. PICK x, y : x = doc[b] /\ y = doc'[b] OBVIOUS
<1>6. /\ y.state = x.state /\ y.legs = x.legs /\ y.tag = x.tag /\ y.piece = x.piece
      /\ y.status = x.status /\ y.order = v
  BY <1>3, <1>4, <1>5 DEF DocRec
<1>7. ASSUME NEW a \in Advance PROVE Own(a, doc'[a], row'[a]["draft"], row'[a]["order"], run'[a].pc)
  <2>0. run[a].pc \notin OwnPc /\ a \in Doc BY <1>1
  <2>1. CASE a = b
    <3>1. PICK p, q, pc, pc2 : p = row[a]["draft"] /\ q = row[a]["order"]
                               /\ pc = run[a].pc /\ pc2 = run'[a].pc OBVIOUS
    <3>2. Own(a, x, p, q, pc) /\ pc \notin OwnPc BY <1>2, <1>5, <2>0, <2>1, <3>1
    <3>3. x \in DocRec /\ x.state = "order" /\ x.status # "none" /\ (v = "open" => x.status = "open")
      BY <1>3, <1>5, <2>1
    <3>4. Own(a, [x EXCEPT !.order = v], p, q, pc2) BY <3>2, <3>3, OwnOrder
    <3>5. Own(a, y, p, q, pc2) BY <1>4, <1>5, <3>4
    <3> QED BY <1>5, <2>1, <3>1, <3>5
  <2>2. CASE a # b BY <1>4, <2>0, <2>2, <1>2, OwnStays DEF Alike
  <2> QED BY <2>1, <2>2
<1>8. \A e \in Doc : /\ doc'[e].legs = doc[e].legs /\ doc'[e].tag = doc[e].tag
                     /\ doc'[e].state = doc[e].state /\ doc'[e].piece = doc[e].piece
                     /\ doc'[e].status = doc[e].status
                     /\ e # b => doc'[e].order = doc[e].order
  BY <1>4, <1>5, <1>6
<1>9. ASSUME NEW a \in Advance PROVE Shared(a)' BY <1>1, <1>2, <1>5, <1>6, <1>8, SharedStays
<1>10. Heard' BY <1>5, <1>8, <1>2, HeardStays DEF Typed, HookRec
<1> QED BY <1>7, <1>9, <1>10, FinalIs

\* Rows change.
LEMMA RowFinal ==
  ASSUME Typed, Calm, FinalInv, UNCHANGED <<case, doc, hooks>>,
         \A t \in Slot : run[t].pc \notin OwnPc,
         \A a \in Advance :
            \/ row'[a] = row[a] /\ \A e \in Doc : run[e].pc # "reserveRow" \/ run[e].src # a
            \/ Own(a, doc[a], row'[a]["draft"], row'[a]["order"], "idle") /\ Shared(a)',
         \A t \in Slot : AtRun(t, run[t])'
  PROVE  FinalInv'
<1>1. Advance \subseteq Doc /\ Doc \subseteq Slot BY AdvanceAssumption DEF Slot
<1>2. /\ \A a \in Advance : Own(a, doc[a], row[a]["draft"], row[a]["order"], run[a].pc) /\ Shared(a)
      /\ Heard
  BY DEF FinalInv
<1>3. "idle" \notin OwnPc BY DEF OwnPc
<1>4. ASSUME NEW a \in Advance
      PROVE  Own(a, doc'[a], row'[a]["draft"], row'[a]["order"], run'[a].pc) /\ Shared(a)'
  <2>1. Alike(doc[a], doc[a]) BY DEF Alike
  <2>2. CASE row'[a] = row[a] /\ \A e \in Doc : run[e].pc # "reserveRow" \/ run[e].src # a
    BY <1>1, <1>2, <2>1, OwnStays, <2>2, SharedStays
  <2>3. CASE Own(a, doc[a], row'[a]["draft"], row'[a]["order"], "idle") /\ Shared(a)'
    <3>1. PICK p, q, pc2 : p = row'[a]["draft"] /\ q = row'[a]["order"] /\ pc2 = run'[a].pc OBVIOUS
    <3>2. Own(a, doc[a], p, q, "idle") BY <2>3, <3>1
    <3>3. Own(a, doc[a], p, q, pc2) BY <1>3, <2>1, <3>2, OwnStays
    <3> QED BY <2>3, <3>1, <3>3
  <2> QED BY <2>2, <2>3
<1>5. Heard' BY <1>2, HeardStays
<1> QED BY <1>4, <1>5, FinalIs

\* A step of a pass that is not about its own draft's advance.
LEMMA AlikeChain ==
  ASSUME Typed, Calm, FinalInv, NEW d \in Doc, doc[d].state = "draft",
         run[d].pc \notin OwnPc \cup {"reserveRow"},
         \A t \in Slot \ {d} : run[t].pc = "idle" /\ run'[t].pc = "idle",
         UNCHANGED <<case, row, hooks>>, \A e \in Doc \ {d} : doc'[e] = doc[e],
         Alike(doc[d], doc'[d]), doc'[d].tag = doc[d].tag,
         \A a \in Advance : doc[d].legs[a] > 0 => doc'[d].legs[a] > 0,
         AtRun(d, run[d])'
  PROVE  FinalInv'
<1>1. d \in Advance => Own(d, doc'[d], row'[d]["draft"], row'[d]["order"], run'[d].pc)
  <2> SUFFICES ASSUME d \in Advance PROVE Own(d, doc'[d], row[d]["draft"], row[d]["order"], run'[d].pc) OBVIOUS
  <2>1. Own(d, doc[d], row[d]["draft"], row[d]["order"], run[d].pc) BY DEF FinalInv
  <2> QED BY <2>1, OwnStays
<1>2. doc'[d].state = "draft" /\ doc'[d].order = doc[d].order /\ doc'[d].status = doc[d].status BY DEF Alike
<1>3. run[d].pc # "reserveRow" OBVIOUS
<1> QED BY <1>1, <1>2, <1>3, OwnChain

\* The calls of a pass that looks for an advance: where it is, and alone.
SeekPc == {"redeem", "gate", "absorb", "unconfirmed", "reserve", "tag", "reserveRow", "clear"}

LEMMA SeekAt ==
  ASSUME Typed, Calm, OneRequest, FinalInv, NEW s \in Slot, run[s].pc \in SeekPc, Step(s)
  PROVE  /\ s \in Doc /\ run[s].d = s /\ doc[s].state = "draft" /\ doc[s] \in DocRec /\ run[s] \in PassRun
         /\ AtPass(s, run[s])
         /\ \A t \in Slot \ {s} : run[t].pc = "idle" /\ run'[t].pc = "idle"
         /\ run[s].pc \notin OwnPc
         /\ run[s].pc \in {"gate", "absorb", "unconfirmed", "reserve", "tag", "reserveRow"} => run[s].src \in Advance
         /\ run[s].pc \in {"absorb", "reserve", "tag", "reserveRow"} =>
              run[s].src # s /\ doc[run[s].src].state = "order"
  BY PassAt, AdvanceAssumption DEF SeekPc, PassPc, OwnPc, AtPass, FinalInv, Heard

\* Whether there is an advance to absorb: the row of its order is nobody's, or
\* another bill has it and its order was told twice.
LEMMA OpenIsFree ==
  ASSUME Typed, Calm, FinalInv, NEW a \in Advance, NEW d \in Doc,
         doc[d].state = "draft", doc[a].order = "open", doc[a].age # "over"
  PROVE  doc[a].status = "open" /\ Free(a, d)
<1>1. PICK x, q : x = doc[a] /\ q = row[a]["order"] OBVIOUS
<1>2. Own(a, doc[a], row[a]["draft"], row[a]["order"], run[a].pc) /\ Shared(a) BY DEF FinalInv
<1>3. x.order = "open" /\ x.age # "over" BY <1>1
<1>4. PICK p, pc : p = row[a]["draft"] /\ pc = run[a].pc OBVIOUS
<1>5. Own(a, x, p, q, pc) BY <1>1, <1>2, <1>4
<1>6. x.status = "open" /\ q.status \notin {"expired", "refunded", "deleted"} BY <1>3, <1>5 DEF Own
<1>7. /\ ~Allowed("again") => q.status \notin {"applied", "redeemed"}
      /\ q.status = "redeemed" => \E e \in Doc : doc[e].state = "order" /\ doc[e].legs[a] > 0
  BY <1>1, <1>2, <1>6 DEF Shared
<1>8. q.status \in {"none", "open", "applied", "redeemed", "expired", "refunded", "deleted"}
  BY <1>1 DEF Typed, Name, RowRec, RowStatus, Status
<1>9. q.status = "redeemed" => \E e \in Doc \ {d} : doc[e].legs[a] > 0 BY <1>7
<1> QED BY <1>1, <1>6, <1>7, <1>8, <1>9 DEF Free

LEMMA GateFinal ==
  ASSUME Typed, Calm, OneRequest, FinalInv, NEW s \in Slot, ReadRef(s) \/ Gate(s) PROVE FinalInv'
<1>0. /\ run[s].pc \in {"redeem", "gate"} /\ UNCHANGED <<case, doc, row, hooks>> /\ Step(s)
      /\ run[s].pc \in SeekPc
  BY DEF ReadRef, Gate, Handling, Step, SeekPc
<1>1. /\ s \in Doc /\ run[s].d = s /\ doc[s].state = "draft" /\ run[s] \in PassRun
      /\ AtPass(s, run[s]) /\ run[s].pc \notin OwnPc
      /\ \A t \in Slot \ {s} : run[t].pc = "idle" /\ run'[t].pc = "idle"
      /\ run[s].pc = "gate" => run[s].src \in Advance
  BY <1>0, SeekAt
<1>2. AtRun(s, run[s])'
  <2>1. CASE ReadRef(s)
    <3>1. CASE \E pc \in {"refund", "clear"} : Goto(s, pc)
      BY <1>1, <3>1, GoesOn, <1>0 DEF AtRun, AtPass, PassPc, HookPc
    <3>2. CASE /\ run' = [run EXCEPT ![s].pc = "gate", ![s].src = doc[s].ref, ![s].read = doc[s].legs[doc[s].ref]]
               /\ run[s].tag = {}
      <4>1. PICK m : m = [run[s] EXCEPT !.pc = "gate", !.src = doc[s].ref, !.read = doc[s].legs[doc[s].ref]] OBVIOUS
      <4>2. run'[s] = m BY <3>2, <4>1 DEF Typed
      <4>3. m.pc = "gate" /\ m.d = s /\ m.tag = {} BY <1>1, <3>2, <4>1 DEF PassRun
      <4>4. run'[s].pc = "gate" /\ run'[s].d = s /\ run'[s].tag = {} BY <4>2, <4>3
      <4> QED BY <1>0, <1>1, <4>4 DEF AtRun, AtPass, PassPc, HookPc
    <3> QED BY <1>1, <2>1, <3>1, <3>2 DEF ReadRef
  <2>2. CASE Gate(s)
    <3>1. run[s].pc = "gate" BY <2>2 DEF Gate
    <3>2. PICK a \in Advance : a = run[s].src BY <1>1, <3>1
    <3>3. run[s].tag = {} BY <1>1, <3>1 DEF AtPass
    <3>4. CASE doc[a].state = "order" /\ doc[a].order = "open" /\ doc[a].age # "over"
      BY <2>2, <3>2, <3>4, <1>1, <3>3, GoesOn, OpenIsFree, <1>0 DEF Gate, Free, Allowed, AtRun, AtPass, PassPc,
         HookPc
    <3>5. CASE ~(doc[a].state = "order" /\ doc[a].order = "open" /\ doc[a].age # "over")
      BY <2>2, <3>2, <3>5, <1>1, GoesOn, <1>0 DEF Gate, AtRun, AtPass, PassPc, HookPc
    <3> QED BY <3>4, <3>5
  <2> QED BY <2>1, <2>2
<1>3. Alike(doc[s], doc'[s]) BY <1>0 DEF Alike
<1>4. run[s].pc \notin OwnPc \cup {"reserveRow"} BY <1>0, <1>1
<1>5. /\ doc'[s].tag = doc[s].tag /\ (\A a \in Advance : doc[s].legs[a] > 0 => doc'[s].legs[a] > 0)
      /\ \A e \in Doc \ {s} : doc'[e] = doc[e]
  BY <1>0
<1> QED BY <1>0, <1>1, <1>2, <1>3, <1>4, <1>5, AlikeChain

\* One leg more on the draft's bill, or a value Shopify rejects.
LEMMA AbsorbFinal ==
  ASSUME Typed, Calm, OneRequest, FinalInv, NEW s \in Slot, Absorb(s) PROVE FinalInv'
<1>0. run[s].pc = "absorb" /\ UNCHANGED <<case, row, hooks>> /\ Step(s) /\ run[s].pc \in SeekPc
  BY DEF Absorb, Step, SeekPc
<1>1. /\ s \in Doc /\ run[s].d = s /\ doc[s].state = "draft" /\ run[s] \in PassRun /\ doc[s] \in DocRec
      /\ AtPass(s, run[s])
      /\ \A t \in Slot \ {s} : run[t].pc = "idle" /\ run'[t].pc = "idle"
  BY <1>0, SeekAt
<1>2. PICK a \in Advance : a = run[s].src BY <1>0, SeekAt
<1>3. a # s /\ doc[a].state = "order" /\ a \in Doc BY <1>0, <1>2, SeekAt, AdvanceAssumption
<1>4. run[s].tag = {} /\ doc[a].status = "open" /\ doc[a].order = "open" /\ Free(a, s)
  BY <1>0, <1>1, <1>2 DEF AtPass
<1>5. ASSUME Write(s, Leg(s))
      PROVE  /\ \A e \in Doc \ {s} : doc'[e] = doc[e]
             /\ Alike(doc[s], doc'[s]) /\ doc'[s].tag = doc[s].tag
             /\ \A b \in Advance : doc[s].legs[b] > 0 => doc'[s].legs[b] > 0
             /\ doc'[s].legs[a] > 0
  <2>1. PICK k \in 1..MaxLegs : Leg(s) = [doc[s] EXCEPT !.legs = [@ EXCEPT ![a] = k]] /\ Leg(s) \in DocRec
    BY <1>0, <1>1, <1>2, LegTyped
  <2>2. PICK r : r = Leg(s) OBVIOUS
  <2>3. /\ r.state = doc[s].state /\ r.line = doc[s].line /\ r.piece = doc[s].piece
        /\ r.refunded = doc[s].refunded /\ r.status = doc[s].status /\ r.order = doc[s].order
        /\ r.age = doc[s].age /\ r.tag = doc[s].tag
        /\ r.legs = [doc[s].legs EXCEPT ![a] = k]
    BY <1>1, <2>1, <2>2 DEF DocRec
  <2>4. /\ \A e \in Doc \ {s} : doc'[e] = doc[e]
        /\ doc'[s].state = r.state /\ doc'[s].line = r.line /\ doc'[s].piece = r.piece
        /\ doc'[s].refunded = r.refunded /\ doc'[s].status = r.status /\ doc'[s].order = r.order
        /\ doc'[s].age = r.age /\ doc'[s].legs = r.legs /\ doc'[s].tag = r.tag /\ doc'[s].dirty
    <3>1. r \in DocRec BY <2>1, <2>2
    <3>2. Write(s, r) BY <1>5, <2>2
    <3> QED BY <1>1, <3>1, <3>2, DraftWritten
  <2>5. doc[s].legs \in [Advance -> 0..MaxLegs] BY <1>1 DEF DocRec
  <2>6. k > 0 BY AdvanceAssumption
  <2>7. r.legs[a] = k /\ \A b \in Advance \ {a} : r.legs[b] = doc[s].legs[b] BY <2>3, <2>5
  <2> QED BY <2>3, <2>4, <2>6, <2>7 DEF Alike
<1>6. CASE Write(s, Leg(s)) /\ Goto(s, "reserve")
  <2>1. /\ run'[s].pc = "reserve" /\ run'[s].d = s /\ run'[s].tag = {} /\ run'[s].src = a
    BY <1>1, <1>2, <1>4, <1>6, GoesOn
  <2>2. doc'[a] = doc[a] /\ doc'[s].legs[a] > 0 /\ doc'[s].state = "draft" BY <1>1, <1>3, <1>5, <1>6 DEF Alike
  <2>3. Free(a, s)' BY <1>0, <1>4, <1>5, <1>6 DEF Free, Allowed
  <2>4. AtRun(s, run[s])' BY <1>4, <2>1, <2>2, <2>3 DEF AtRun, AtPass, PassPc, HookPc, Free, Allowed
  <2>5. run[s].pc \notin OwnPc \cup {"reserveRow"} BY <1>0 DEF OwnPc
  <2> QED BY <1>0, <1>1, <1>5, <1>6, <2>4, <2>5, AlikeChain
<1>7. CASE (Write(s, Leg(s)) \/ UNCHANGED doc) /\ Goto(s, "unconfirmed")
  BY <1>1, <1>7, GoesOn, <1>5, <1>0, AlikeChain DEF Alike, AtRun, AtPass, PassPc, HookPc, OwnPc
<1> QED BY <1>1, <1>6, <1>7 DEF Absorb

LEMMA ClearFinal ==
  ASSUME Typed, Calm, OneRequest, FinalInv, NEW s \in Slot, Unconfirmed(s) \/ Clear(s) PROVE FinalInv'
<1>0. /\ run[s].pc \in {"unconfirmed", "clear"} /\ UNCHANGED <<case, row, hooks>> /\ Step(s)
      /\ run[s].pc \in SeekPc
  BY DEF Unconfirmed, Clear, Step, SeekPc, Handling
<1>1. /\ s \in Doc /\ run[s].d = s /\ doc[s].state = "draft" /\ run[s] \in PassRun /\ doc[s] \in DocRec
      /\ \A t \in Slot \ {s} : run[t].pc = "idle" /\ run'[t].pc = "idle"
  BY <1>0, SeekAt
<1>2. PICK r : /\ Write(s, r) /\ r \in DocRec
               /\ r.state = doc[s].state /\ r.line = doc[s].line /\ r.piece = doc[s].piece
               /\ r.refunded = doc[s].refunded /\ r.status = doc[s].status /\ r.order = doc[s].order
               /\ r.age = doc[s].age /\ r.tag = doc[s].tag /\ r.legs = doc[s].legs
  <2>1. CASE Unconfirmed(s) BY <1>1, <2>1 DEF Unconfirmed
  <2>2. CASE Clear(s)
    <3>1. PICK r : r = [doc[s] EXCEPT !.ref = None] OBVIOUS
    <3>2. r \in DocRec BY <1>1, <3>1, ValueTyped
    <3>3. /\ r.state = doc[s].state /\ r.line = doc[s].line /\ r.piece = doc[s].piece
          /\ r.refunded = doc[s].refunded /\ r.status = doc[s].status /\ r.order = doc[s].order
          /\ r.age = doc[s].age /\ r.tag = doc[s].tag /\ r.legs = doc[s].legs
      BY <1>1, <3>1 DEF DocRec
    <3>4. Write(s, r) BY <1>1, <2>2, <3>1 DEF Clear
    <3> QED BY <3>2, <3>3, <3>4
  <2> QED BY <2>1, <2>2
<1>3. /\ \A e \in Doc \ {s} : doc'[e] = doc[e]
      /\ doc'[s].state = r.state /\ doc'[s].line = r.line /\ doc'[s].piece = r.piece
      /\ doc'[s].refunded = r.refunded /\ doc'[s].status = r.status /\ doc'[s].order = r.order
      /\ doc'[s].age = r.age /\ doc'[s].legs = r.legs /\ doc'[s].tag = r.tag /\ doc'[s].dirty
  BY <1>1, <1>2, DraftWritten
<1>4. Goto(s, "refund") BY DEF Unconfirmed, Clear
<1>5. run'[s].pc = "refund" /\ run'[s].d = s BY <1>1, <1>4, GoesOn
<1>6. AtRun(s, run[s])' BY <1>1, <1>2, <1>3, <1>5 DEF AtRun, AtPass, PassPc, HookPc
<1>7. Alike(doc[s], doc'[s]) /\ doc'[s].tag = doc[s].tag
      /\ \A b \in Advance : doc[s].legs[b] > 0 => doc'[s].legs[b] > 0
  BY <1>2, <1>3 DEF Alike
<1>8. run[s].pc \notin OwnPc \cup {"reserveRow"} BY <1>0 DEF OwnPc
<1> QED BY <1>0, <1>1, <1>3, <1>6, <1>7, <1>8, AlikeChain

LEMMA ReserveFinal ==
  ASSUME Typed, Calm, OneRequest, FinalInv, NEW s \in Slot, Reserve(s) PROVE FinalInv'
<1>0. run[s].pc = "reserve" /\ UNCHANGED <<case, row, hooks>> /\ Step(s) /\ run[s].pc \in SeekPc
  BY DEF Reserve, Step, SeekPc, Handling
<1>1. /\ s \in Doc /\ run[s].d = s /\ doc[s].state = "draft" /\ run[s] \in PassRun
      /\ AtPass(s, run[s])
      /\ \A t \in Slot \ {s} : run[t].pc = "idle" /\ run'[t].pc = "idle"
  BY <1>0, SeekAt
<1>2. PICK a \in Advance : a = run[s].src BY <1>0, SeekAt
<1>3. a # s /\ doc[a].state = "order" /\ a \in Doc BY <1>0, <1>2, SeekAt, AdvanceAssumption
<1>4. /\ run[s].tag = {} /\ doc[a].status = "open" /\ doc[a].order = "open" /\ doc[s].legs[a] > 0
      /\ Free(a, s)
  BY <1>0, <1>1, <1>2 DEF AtPass
<1>5. OnOrder(a, "applied") /\ Goto(s, "tag") /\ "applied" \in Status \ {"none"} /\ "applied" # "open"
  BY <1>2 DEF Reserve, Status
<1>6. (\A e \in Doc \ {a} : doc'[e] = doc[e]) /\ doc'[a] = [doc[a] EXCEPT !.order = "applied"]
  BY <1>3, <1>5, OrderIs
<1>7. doc'[a].status = "open" /\ doc'[a].order = "applied"
      /\ \A e \in Doc : doc'[e].legs = doc[e].legs
  <2>1. PICK x, y : x = doc[a] /\ y = doc'[a] OBVIOUS
  <2>2. x \in DocRec BY <1>3, <2>1 DEF Typed
  <2>3. y.status = x.status /\ y.order = "applied" /\ y.legs = x.legs BY <1>6, <2>1, <2>2 DEF DocRec
  <2> QED BY <1>4, <1>6, <2>1, <2>3
<1>8. run'[s].pc = "tag" /\ run'[s].d = s /\ run'[s].tag = {} /\ run'[s].src = a
  BY <1>1, <1>2, <1>4, <1>5, GoesOn
<1>9. Free(a, s)' BY <1>0, <1>4, <1>7 DEF Free, Allowed
<1>10. doc'[s] = doc[s] BY <1>1, <1>3, <1>6
<1>11. AtRun(s, run[s])' BY <1>1, <1>4, <1>7, <1>8, <1>9, <1>10 DEF AtRun, AtPass, PassPc, HookPc, Free, Allowed
<1>12. \A t \in Slot \ {s} : AtRun(t, run[t])' BY <1>1 DEF AtRun, PassPc, HookPc
<1>13. \A t \in Slot : AtRun(t, run[t])' BY <1>11, <1>12
<1>14. \A t \in Slot : run[t].pc \notin OwnPc \cup {"reserveRow"} BY <1>0, <1>1 DEF OwnPc
<1>15. doc[a].status # "none" /\ doc[a].order # "none" BY <1>4
<1> QED BY <1>0, <1>3, <1>5, <1>13, <1>14, <1>15, OrderFinal

\* The draft is marked: from here its bill is known by its tag, and the row
\* of the order will name it.
LEMMA TagFinal ==
  ASSUME Typed, Calm, OneRequest, FinalInv, NEW s \in Slot, Tag(s) PROVE FinalInv'
<1>0. run[s].pc = "tag" /\ UNCHANGED <<case, row, hooks>> /\ Step(s) /\ run[s].pc \in SeekPc
  BY DEF Tag, Step, SeekPc, Handling
<1>1. /\ s \in Doc /\ run[s].d = s /\ doc[s].state = "draft" /\ run[s] \in PassRun /\ doc[s] \in DocRec
      /\ AtPass(s, run[s])
      /\ \A t \in Slot \ {s} : run[t].pc = "idle" /\ run'[t].pc = "idle"
  BY <1>0, SeekAt
<1>2. PICK a \in Advance : a = run[s].src BY <1>0, SeekAt
<1>3. a # s /\ a \in Doc /\ Advance \subseteq Doc /\ Doc \subseteq Slot
  BY <1>0, <1>2, SeekAt, AdvanceAssumption DEF Slot
<1>4. /\ run[s].tag = {} /\ doc[a].status = "open" /\ doc[a].order = "applied" /\ doc[s].legs[a] > 0
      /\ Free(a, s)
  BY <1>0, <1>1, <1>2 DEF AtPass
<1>5. PICK r : r = [doc[s] EXCEPT !.tag = {a}] OBVIOUS
<1>6. /\ r \in DocRec /\ r.tag = {a}
      /\ r.state = doc[s].state /\ r.line = doc[s].line /\ r.piece = doc[s].piece
      /\ r.refunded = doc[s].refunded /\ r.status = doc[s].status /\ r.order = doc[s].order
      /\ r.age = doc[s].age /\ r.legs = doc[s].legs
  <2>1. r \in DocRec BY <1>1, <1>5, ValueTyped
  <2> QED BY <1>1, <1>5, <2>1 DEF DocRec
<1>7. Write(s, r) BY <1>2, <1>4, <1>1, <1>5 DEF Tag
<1>8. /\ \A e \in Doc \ {s} : doc'[e] = doc[e]
      /\ doc'[s].state = r.state /\ doc'[s].line = r.line /\ doc'[s].piece = r.piece
      /\ doc'[s].refunded = r.refunded /\ doc'[s].status = r.status /\ doc'[s].order = r.order
      /\ doc'[s].age = r.age /\ doc'[s].legs = r.legs /\ doc'[s].tag = r.tag /\ doc'[s].dirty
  BY <1>1, <1>6, <1>7, DraftWritten
<1>9. run'[s].pc = "reserveRow" /\ run'[s].d = s /\ run'[s].src = a BY <1>1, <1>2, GoesOn DEF Tag
<1>10. /\ \A b \in Advance : Own(b, doc[b], row[b]["draft"], row[b]["order"], run[b].pc) /\ Shared(b)
       /\ Heard
  BY DEF FinalInv
<1>11. ASSUME NEW b \in Advance PROVE Own(b, doc'[b], row'[b]["draft"], row'[b]["order"], run'[b].pc)
  BY <1>6, <1>8, <1>3, <1>0, <1>1, <1>10, OwnStays DEF Alike, OwnPc
<1>12. \A e \in Doc : /\ doc'[e].legs = doc[e].legs /\ doc'[e].state = doc[e].state
                      /\ doc'[e].order = doc[e].order /\ doc'[e].status = doc[e].status
                      /\ doc'[e].piece = doc[e].piece
                      /\ e # s => doc'[e].tag = doc[e].tag
  BY <1>6, <1>8
<1>13. \A e \in Doc : run[e].pc # "reserveRow" BY <1>0, <1>1, <1>3
<1>14. ASSUME NEW b \in Advance \ {a} PROVE Shared(b)' BY <1>6, <1>8, <1>12, <1>3, <1>10, <1>0, <1>13, SharedStays
<1>15. Shared(a)' BY <1>10, <1>0, <1>12, <1>13, <1>3, <1>4, <1>9 DEF Allowed, Twice, BothBill, Bound, Shared
<1>16. Heard' BY <1>1, <1>12, <1>0, <1>10, HeardStays DEF Typed, HookRec
<1>17. Free(a, s)' BY <1>0, <1>4, <1>12 DEF Free, Allowed
<1>18. AtRun(s, run[s])'
  BY <1>1, <1>3, <1>4, <1>9, <1>12, <1>17 DEF AtRun, AtPass, PassPc, HookPc, Free, Allowed
<1>19. \A t \in Slot \ {s} : AtRun(t, run[t])' BY <1>1 DEF AtRun, PassPc, HookPc
<1>20. \A t \in Slot : AtRun(t, run[t])' BY <1>18, <1>19
<1> QED BY <1>11, <1>14, <1>15, <1>16, <1>20, FinalIs

\* The row of the order is reserved for the sale.
LEMMA ReserveRowFinal ==
  ASSUME Typed, Calm, OneRequest, FinalInv, NEW s \in Slot, ReserveRow(s) PROVE FinalInv'
<1>0. run[s].pc = "reserveRow" /\ UNCHANGED <<case, doc, hooks>> /\ Step(s) /\ run[s].pc \in SeekPc
  BY DEF ReserveRow, Step, SeekPc, Handling
<1>1. /\ s \in Doc /\ run[s].d = s /\ doc[s].state = "draft" /\ run[s] \in PassRun
      /\ AtPass(s, run[s])
      /\ \A t \in Slot \ {s} : run[t].pc = "idle" /\ run'[t].pc = "idle"
  BY <1>0, SeekAt
<1>2. PICK a \in Advance : a = run[s].src BY <1>0, SeekAt
<1>3. a # s /\ a \in Doc /\ Doc \subseteq Slot BY <1>0, <1>2, SeekAt, AdvanceAssumption DEF Slot
<1>4. doc[a].status = "open" /\ doc[a].order = "applied" /\ doc[s].legs[a] > 0 /\ Free(a, s)
  BY <1>0, <1>1, <1>2 DEF AtPass
<1>5. Own(a, doc[a], row[a]["draft"], row[a]["order"], run[a].pc) /\ Shared(a) BY DEF FinalInv
<1>6. /\ \A b \in Advance \ {a} : row'[b] = row[b]
      /\ row'[a]["draft"] = row[a]["draft"]
      /\ row'[a]["order"].status = "applied" /\ row'[a]["order"].target = s
  <2>1. Retargets(a, "order", s, "applied") BY <1>1, <1>2 DEF ReserveRow, Apply, Retargets
  <2>2. "order" \in Name /\ "draft" \in Name \ {"order"} BY DEF Name
  <2> QED BY <2>1, <2>2, TargetWrites
<1>7. PICK x, p, q, q2 : /\ x = doc[a] /\ p = row[a]["draft"] /\ q = row[a]["order"] /\ q2 = row'[a]["order"] OBVIOUS
<1>8. Own(a, doc[a], row'[a]["draft"], row'[a]["order"], "idle") BY <1>1, <1>3, <1>5, <1>7, <1>4, <1>6 DEF Own
<1>9. Shared(a)' BY <1>0, <1>5, <1>6, <1>1, <1>3, <1>4 DEF Allowed, Shared, Bound, BothBill, Free, Twice
<1>10. run'[s].pc = "clear" /\ run'[s].d = s BY <1>1, GoesOn DEF ReserveRow
<1>11. AtRun(s, run[s])' BY <1>0, <1>1, <1>10 DEF AtRun, AtPass, PassPc, HookPc
<1>12. \A t \in Slot \ {s} : AtRun(t, run[t])' BY <1>1 DEF AtRun, PassPc, HookPc
<1>13. \A t \in Slot : AtRun(t, run[t])' BY <1>11, <1>12
<1>14. \A t \in Slot : run[t].pc \notin OwnPc BY <1>0, <1>1 DEF OwnPc
<1>15. \A b \in Advance : \/ row'[b] = row[b] /\ \A e \in Doc : run[e].pc # "reserveRow" \/ run[e].src # b
                          \/ Own(b, doc[b], row'[b]["draft"], row'[b]["order"], "idle") /\ Shared(b)'
  BY <1>1, <1>2, <1>3, <1>6, <1>8, <1>9
<1> QED BY <1>0, <1>13, <1>14, <1>15, RowFinal

\* A webhook is taken up, between two requests.
LEMMA HandledFinal ==
  ASSUME Typed, Calm, FinalInv, NEW h \in hooks, HandleCompleted(h) \/ HandleDeleted(h) PROVE FinalInv'
<1>1. Hook \in Slot /\ UNCHANGED <<case, doc, row>> /\ hooks' \subseteq hooks /\ h.d \in Doc
  BY DEF HandleCompleted, HandleDeleted, Slot, Typed, HookRec
<1>2. \A t \in Slot : run[t].pc = "idle"
  BY CalmIs DEF HandleCompleted, HandleDeleted, CanStart, Quiet, Busy
<1>3. Heard BY DEF FinalInv
<1>4. AtRun(Hook, run[Hook])' /\ \A t \in Slot \ {Hook} : run'[t].pc = "idle"
  <2>1. CASE HandleCompleted(h)
    <3>1. PICK m : m = [pc |-> "copy", d |-> h.d, tag |-> h.tag, piece |-> h.piece, own |-> "none"] OBVIOUS
    <3>2. run' = [run EXCEPT ![Hook] = m] BY <2>1, <3>1 DEF HandleCompleted
    <3>3. run'[Hook] = m /\ \A t \in Slot \ {Hook} : run'[t].pc = "idle" BY <1>1, <1>2, <3>2 DEF Typed
    <3>4. m.pc = "copy" /\ m.d = h.d /\ m.tag = h.tag /\ m.piece = h.piece BY <3>1
    <3>5. /\ run'[Hook].pc = "copy" /\ run'[Hook].d = h.d /\ run'[Hook].tag = h.tag
          /\ run'[Hook].piece = h.piece
      BY <3>3, <3>4
    <3>6. /\ doc[h.d].state = "order" /\ h.tag \subseteq doc[h.d].tag /\ (h.piece => doc[h.d].piece)
          /\ ~Allowed("again") => doc[h.d].order = "none"
      BY <1>3, <2>1 DEF HandleCompleted, Heard, Told
    <3>7. ~Allowed("again") => \A g \in hooks' : g.kind = "completed" => g.d # h.d
      BY <1>3, <2>1 DEF HandleCompleted, Heard
    <3>8. Allowed("again")' <=> Allowed("again") BY <1>1 DEF Allowed
    <3>9. AtHook(run[Hook])' BY <1>1, <3>5, <3>6, <3>7, <3>8 DEF AtHook, Told
    <3> QED BY <3>3, <3>5, <3>9 DEF AtRun, PassPc
  <2>2. CASE HandleDeleted(h)
    <3>1. PICK m : m = [pc |-> "deleted", d |-> h.d, todo |-> {"close", "revert"}] OBVIOUS
    <3>2. run' = [run EXCEPT ![Hook] = m] BY <2>2, <3>1 DEF HandleDeleted
    <3>3. run'[Hook] = m /\ \A t \in Slot \ {Hook} : run'[t].pc = "idle" BY <1>1, <1>2, <3>2 DEF Typed
    <3>4. m.pc = "deleted" /\ m.d = h.d BY <3>1
    <3>5. doc[h.d].state = "gone" BY <1>3, <2>2 DEF HandleDeleted, Heard
    <3>6. run'[Hook].pc = "deleted" /\ doc'[run'[Hook].d].state = "gone" BY <1>1, <3>3, <3>4, <3>5
    <3> QED BY <3>3, <3>6 DEF AtRun, PassPc, HookPc
  <2> QED BY <2>1, <2>2
<1>5. \A t \in Slot : AtRun(t, run[t])' BY <1>4 DEF AtRun, PassPc, HookPc
<1>6. \A t \in Slot : run[t].pc \notin OwnPc \cup {"reserveRow"} BY <1>2 DEF OwnPc
<1> QED BY <1>1, <1>5, <1>6, PlainFinal

\* A conversion at work, alone.
LEMMA HookAt ==
  ASSUME Typed, OneRequest, Calm, FinalInv, NEW s \in Slot, run[s].pc \in HookPc, Step(s)
  PROVE  /\ run[s] \in HookRun /\ run[s].d \in Doc /\ AtHook(run[s])
         /\ doc[run[s].d].state = "order" /\ run[s].tag \subseteq doc[run[s].d].tag
         /\ run[s].piece => doc[run[s].d].piece
         /\ \A t \in Slot \ {s} : run[t].pc = "idle" /\ run'[t].pc = "idle"
         /\ \A t \in Slot : run[t].pc \notin OwnPc \cup {"reserveRow"}
  BY HookRunning, StepRuns, QuietOrOne DEF FinalInv, AtRun, Busy, HookPc, OwnPc, AtHook, Told

LEMMA HookGoesOn ==
  ASSUME Typed, NEW s \in Slot, run[s] \in HookRun, NEW pc, Goto(s, pc)
  PROVE  /\ run'[s].pc = pc /\ run'[s].d = run[s].d /\ run'[s].tag = run[s].tag
         /\ run'[s].piece = run[s].piece
<1>1. PICK m : m = [run[s] EXCEPT !.pc = pc] OBVIOUS
<1>2. run'[s] = m BY <1>1 DEF Goto, Typed
<1>3. m.pc = pc /\ m.d = run[s].d /\ m.tag = run[s].tag /\ m.piece = run[s].piece BY <1>1 DEF HookRun
<1> QED BY <1>2, <1>3

LEMMA HookKnows ==
  ASSUME Typed, NEW s \in Slot, run[s] \in HookRun, run[s].d \in Doc, AtHook(run[s]),
         UNCHANGED <<case, hooks>>,
         doc'[run[s].d].state = doc[run[s].d].state, doc'[run[s].d].tag = doc[run[s].d].tag,
         doc'[run[s].d].piece = doc[run[s].d].piece,
         \A t \in Slot \ {s} : run'[t].pc = "idle",
         \/ run'[s].pc = "idle"
         \/ /\ run'[s].pc \in HookPc \ {"copy"}
            /\ run'[s].d = run[s].d /\ run'[s].tag = run[s].tag /\ run'[s].piece = run[s].piece
            /\ run'[s].pc \in {"rekey", "settle", "settleRow"} => doc'[run[s].d].order # "none"
            /\ run'[s].pc \in {"settle", "settleRow"} => run[s].piece
  PROVE  \A t \in Slot : AtRun(t, run[t])'
  BY NobodyKnows DEF Allowed, AtHook, Told, AtRun, HookPc, PassPc

LEMMA OrderWritten ==
  ASSUME Typed, NEW b \in Doc, NEW v \in Status, OnOrder(b, v)
  PROVE  /\ \A e \in Doc \ {b} : doc'[e] = doc[e]
         /\ doc'[b].order = v
         /\ doc'[b].state = doc[b].state /\ doc'[b].tag = doc[b].tag /\ doc'[b].piece = doc[b].piece
<1>1. (\A e \in Doc \ {b} : doc'[e] = doc[e]) /\ doc'[b] = [doc[b] EXCEPT !.order = v] BY OrderIs
<1>2. PICK x, y : x = doc[b] /\ y = doc'[b] OBVIOUS
<1>3. x \in DocRec BY <1>2 DEF Typed
<1>4. y.order = v /\ y.state = x.state /\ y.tag = x.tag /\ y.piece = x.piece BY <1>1, <1>2, <1>3 DEF DocRec
<1> QED BY <1>1, <1>2, <1>4

\* The order is told what its draft says.
LEMMA CopyFinal ==
  ASSUME Typed, Calm, OneRequest, FinalInv, NEW s \in Slot, Copy(s) PROVE FinalInv'
<1>0. run[s].pc = "copy" /\ run[s].pc \in HookPc /\ UNCHANGED <<case, row, hooks>> /\ Step(s)
  BY DEF Copy, Step, HookPc, Handling
<1>1. /\ run[s] \in HookRun /\ AtHook(run[s]) /\ run[s].d \in Doc
      /\ doc[run[s].d].state = "order"
      /\ \A t \in Slot \ {s} : run[t].pc = "idle" /\ run'[t].pc = "idle"
      /\ \A t \in Slot : run[t].pc \notin OwnPc \cup {"reserveRow"}
  BY <1>0, HookAt
<1>2. PICK d \in Doc : d = run[s].d BY <1>1
<1>3. PICK pc \in {"own", "spend"} : Goto(s, pc) BY DEF Copy, AfterCopy
<1>4. run'[s].pc = pc /\ run'[s].d = d /\ run'[s].tag = run[s].tag /\ run'[s].piece = run[s].piece
  BY <1>1, <1>2, <1>3, HookGoesOn
<1>5. pc \in HookPc \ {"copy", "rekey", "settle", "settleRow"} BY DEF HookPc
<1>6. CASE doc[d].status = "none" BY <1>2, <1>6, <1>0, <1>1, <1>4, <1>5, HookKnows, PlainFinal DEF Copy
<1>7. CASE doc[d].status # "none"
  <2>1. PICK v : v = doc[d].status OBVIOUS
  <2>2. v \in Status \ {"none"} BY <1>7, <2>1 DEF Typed, DocRec
  <2>3. OnOrder(d, v) BY <1>2, <1>7, <2>1 DEF Copy
  <2>4. doc'[d].state = doc[d].state /\ doc'[d].tag = doc[d].tag /\ doc'[d].piece = doc[d].piece
    BY <2>2, <2>3, OrderWritten
  <2>5. \A t \in Slot : AtRun(t, run[t])' BY <1>0, <1>1, <1>2, <1>4, <1>5, <2>4, HookKnows
  <2>6. ~Allowed("again") => /\ doc[d].order = "none"
                             /\ \A h \in hooks : h.kind = "completed" => h.d # d
    BY <1>0, <1>1, <1>2 DEF AtHook
  <2>7. d \in Advance => (doc[d].order = "none" => row[d]["order"].status = "none") BY DEF FinalInv, Own
  <2>8. d \in Advance => /\ doc[d].status # "none"
                         /\ v = "open" => /\ doc[d].status = "open"
                                          /\ Allowed("again") \/ row[d]["order"].status = "none"
    BY <1>7, <2>1, <2>6, <2>7
  <2> QED BY <1>0, <1>1, <1>2, <2>2, <2>3, <2>5, <2>6, <2>8, OrderFinal
<1> QED BY <1>6, <1>7

\* The order of the sale's advance is told it is spent, and then its row.
LEMMA SpendFinal ==
  ASSUME Typed, Calm, OneRequest, FinalInv, NEW s \in Slot, Spend(s) PROVE FinalInv'
<1>0. run[s].pc = "spend" /\ run[s].pc \in HookPc /\ UNCHANGED <<case, row, hooks>> /\ Step(s)
  BY DEF Spend, Step, HookPc, Handling
<1>1. /\ run[s] \in HookRun /\ AtHook(run[s]) /\ run[s].d \in Doc
      /\ doc[run[s].d].state = "order" /\ run[s].tag \subseteq doc[run[s].d].tag
      /\ \A t \in Slot \ {s} : run[t].pc = "idle" /\ run'[t].pc = "idle"
      /\ \A t \in Slot : run[t].pc \notin OwnPc \cup {"reserveRow"}
  BY <1>0, HookAt
<1>2. PICK a \in run[s].tag : OnOrder(a, "redeemed") BY DEF Spend
<1>3. a \in Advance /\ a \in Doc BY <1>1, <1>2, AdvanceAssumption DEF HookRun
<1>4. doc[a].order # "none" BY <1>3, <1>1, <1>2 DEF FinalInv, Shared
<1>5. doc[a].state = "order" /\ doc[a].status # "none" BY <1>3, <1>4 DEF FinalInv, Heard, Own
<1>6. "redeemed" \in Status \ {"none"} /\ "redeemed" # "open" BY DEF Status
<1>7. \A e \in Doc : doc'[e].state = doc[e].state /\ doc'[e].tag = doc[e].tag /\ doc'[e].piece = doc[e].piece
  BY <1>2, <1>3, <1>6, OrderWritten
<1>8. /\ run'[s].pc = "spendRow" /\ run'[s].d = run[s].d /\ run'[s].tag = run[s].tag
      /\ run'[s].piece = run[s].piece
  BY <1>1, HookGoesOn DEF Spend
<1>9. "spendRow" \in HookPc \ {"copy", "rekey", "settle", "settleRow"} BY DEF HookPc
<1>10. \A t \in Slot : AtRun(t, run[t])' BY <1>0, <1>1, <1>7, <1>8, <1>9, HookKnows
<1> QED BY <1>0, <1>1, <1>2, <1>3, <1>4, <1>5, <1>6, <1>10, OrderFinal

\* What a row becomes that a sale closes.
LEMMA SpentRow ==
  ASSUME Typed, Calm, FinalInv, NEW a \in Advance, UNCHANGED <<case, doc>>,
         row'[a]["draft"] = row[a]["draft"], row'[a]["order"].status = "redeemed",
         \A e \in Doc : run[e].pc # "reserveRow", run[a].pc \notin OwnPc,
         doc[a].order # "none",
         ~Allowed("again") => doc[a].order # "open",
         doc[a].status = "open" => \E e \in Doc : doc[e].state = "order" /\ doc[e].legs[a] > 0
  PROVE  Own(a, doc[a], row'[a]["draft"], row'[a]["order"], "idle") /\ Shared(a)'
<1>0. Own(a, doc[a], row[a]["draft"], row[a]["order"], run[a].pc) /\ Shared(a) BY DEF FinalInv
<1>1. PICK x, p, q, q2, pc : /\ x = doc[a] /\ p = row[a]["draft"] /\ q = row[a]["order"]
                             /\ q2 = row'[a]["order"] /\ pc = run[a].pc OBVIOUS
<1>2. Own(a, x, p, q, pc) /\ pc \notin OwnPc BY <1>0, <1>1
<1>3. q2.status = "redeemed" /\ x.order # "none" BY <1>1
<1>4. Own(a, x, p, q2, "idle") BY <1>2, <1>3 DEF Own, OwnPc
<1>5. Allowed("again")' <=> Allowed("again") BY DEF Allowed
<1>6. \A e \in Doc : Bound(a, e)' BY DEF Bound
<1>7. \A e \in Doc : a \in doc[e].tag => doc[e].legs[a] > 0 BY <1>0 DEF Shared
<1>8. Shared(a)' BY <1>5, <1>6, <1>7 DEF Shared
<1> QED BY <1>1, <1>4, <1>8

LEMMA SpendRowFinal ==
  ASSUME Typed, Calm, OneRequest, FinalInv, NEW s \in Slot, SpendRow(s) PROVE FinalInv'
<1>0. run[s].pc = "spendRow" /\ run[s].pc \in HookPc /\ UNCHANGED <<case, doc, hooks>> /\ Step(s)
  BY DEF SpendRow, Step, HookPc, Handling
<1>1. /\ run[s] \in HookRun /\ AtHook(run[s]) /\ run[s].d \in Doc
      /\ doc[run[s].d].state = "order" /\ run[s].tag \subseteq doc[run[s].d].tag
      /\ \A t \in Slot \ {s} : run[t].pc = "idle" /\ run'[t].pc = "idle"
      /\ \A t \in Slot : run[t].pc \notin OwnPc \cup {"reserveRow"}
  BY <1>0, HookAt
<1>2. PICK a \in run[s].tag : RedeemKnown(a, "order", run[s].d) BY DEF SpendRow
<1>3. a \in Advance /\ a \in Doc /\ Doc \subseteq Slot BY <1>1, <1>2, AdvanceAssumption DEF HookRun, Slot
<1>4. /\ run'[s].pc = "own" /\ run'[s].d = run[s].d /\ run'[s].tag = run[s].tag
      /\ run'[s].piece = run[s].piece
  BY <1>1, HookGoesOn DEF SpendRow
<1>5. "own" \in HookPc \ {"copy", "rekey", "settle", "settleRow"} BY DEF HookPc
<1>6. \A t \in Slot : AtRun(t, run[t])' BY <1>0, <1>1, <1>4, <1>5, HookKnows
<1>7. \A t \in Slot : run[t].pc \notin OwnPc BY <1>1
<1>8. \A e \in Doc : run[e].pc # "reserveRow" BY <1>1, <1>3
<1>9. CASE row[a]["order"].status = "none" BY <1>2, <1>9, <1>0, <1>6, <1>7, <1>8, RowFinal DEF RedeemKnown
<1>10. CASE row[a]["order"].status # "none"
  <2>1. /\ \A b \in Advance \ {a} : row'[b] = row[b]
        /\ row'[a]["draft"] = row[a]["draft"] /\ row'[a]["order"].status = "redeemed"
    <3>1. Retargets(a, "order", run[s].d, "redeemed") BY <1>2, <1>10 DEF RedeemKnown, Retargets
    <3>2. "order" \in Name /\ "draft" \in Name \ {"order"} BY DEF Name
    <3> QED BY <1>3, <3>1, <3>2, TargetWrites
  <2>2. /\ doc[run[s].d].legs[a] > 0 /\ doc[a].order # "none"
        /\ ~Allowed("again") => doc[a].order # "open" BY <1>3, <1>1, <1>2, <1>8 DEF FinalInv, Shared, Bound, Twice
  <2>3. Own(a, doc[a], row'[a]["draft"], row'[a]["order"], "idle") /\ Shared(a)'
    BY <1>0, <1>1, <1>3, <1>7, <1>8, <2>1, <2>2, SpentRow
  <2> QED BY <1>0, <1>6, <1>7, <1>8, <2>1, <2>3, RowFinal
<1> QED BY <1>9, <1>10

\* A sale of the piece beside the advance.
LEMMA SoldHere ==
  ASSUME Typed, Calm, FinalInv, NEW d \in Advance, doc[d].state = "order", doc[d].piece, doc[d].order # "none"
  PROVE  /\ doc[d].status = "applied" /\ doc[d].order # "open"
         /\ row[d]["order"].status \in {"redeemed", "applied", "none"}
  BY DEF FinalInv, Own

LEMMA SettleFinal ==
  ASSUME Typed, Calm, OneRequest, FinalInv, NEW s \in Slot, Settle(s) \/ SettleRow(s) PROVE FinalInv'
<1>0. run[s].pc \in {"settle", "settleRow"} /\ run[s].pc \in HookPc /\ UNCHANGED <<case, hooks>> /\ Step(s)
  BY DEF Settle, SettleRow, Step, HookPc, Handling
<1>1. /\ run[s] \in HookRun /\ AtHook(run[s]) /\ run[s].d \in Doc
      /\ doc[run[s].d].state = "order" /\ (run[s].piece => doc[run[s].d].piece)
      /\ \A t \in Slot \ {s} : run[t].pc = "idle" /\ run'[t].pc = "idle"
      /\ \A t \in Slot : run[t].pc \notin OwnPc \cup {"reserveRow"}
  BY <1>0, HookAt
<1>2. PICK d \in Doc : d = run[s].d BY <1>1
<1>3. run[s].piece /\ doc[d].order # "none" /\ doc[d].piece /\ doc[d].state = "order"
  BY <1>0, <1>1, <1>2 DEF AtHook
<1>4. CASE Settle(s)
  BY <1>2, <1>4, OrderWritten, <1>1, HookGoesOn, <1>0, <1>3, HookKnows, SoldHere, OrderFinal DEF Settle, Handling,
     Status, HookPc
<1>5. CASE SettleRow(s)
  <2>1. Redeem(d, "order", d) /\ Done(s) /\ UNCHANGED doc BY <1>2, <1>5 DEF SettleRow, Handling
  <2>2. /\ \A b \in Advance \ {d} : row'[b] = row[b]
        /\ d \in Advance => row'[d]["draft"] = row[d]["draft"] /\ row'[d]["order"].status = "redeemed"
    <3>1. Retargets(d, "order", d, "redeemed") BY <2>1 DEF Redeem, Retargets
    <3>2. "order" \in Name /\ "draft" \in Name \ {"order"} BY DEF Name
    <3> QED BY <3>1, <3>2, TargetWrites
  <2>3. run'[s].pc = "idle" BY <2>1, Ended
  <2>4. \A t \in Slot : AtRun(t, run[t])' BY <1>0, <1>1, <2>1, <2>3, HookKnows
  <2>5. (\A t \in Slot : run[t].pc \notin OwnPc) /\ \A e \in Doc : run[e].pc # "reserveRow"
    BY <1>1 DEF Slot
  <2>6. d \in Advance => Own(d, doc[d], row'[d]["draft"], row'[d]["order"], "idle") /\ Shared(d)'
    <3> SUFFICES ASSUME d \in Advance
                 PROVE  Own(d, doc[d], row'[d]["draft"], row'[d]["order"], "idle") /\ Shared(d)'
      OBVIOUS
    <3>1. doc[d].status # "open" /\ doc[d].order # "open" BY <1>3, SoldHere
    <3>2. run[d].pc \notin OwnPc BY <2>5 DEF Slot
    <3> QED BY <1>0, <1>3, <2>1, <2>2, <2>5, <3>1, <3>2, SpentRow
  <2> QED BY <1>0, <2>1, <2>2, <2>4, <2>5, <2>6, RowFinal
<1> QED BY <1>4, <1>5

\* Its own advance's row takes the order's name.
LEMMA RekeyFinal ==
  ASSUME Typed, Calm, OneRequest, FinalInv, NEW s \in Slot, ReadOwn(s) \/ RekeyRow(s) PROVE FinalInv'
<1>0. run[s].pc \in {"own", "rekey"} /\ run[s].pc \in HookPc /\ UNCHANGED <<case, doc, hooks>> /\ Step(s)
  BY DEF ReadOwn, RekeyRow, Step, HookPc, Handling
<1>1. /\ run[s] \in HookRun /\ AtHook(run[s]) /\ run[s].d \in Doc
      /\ doc[run[s].d].state = "order"
      /\ \A t \in Slot \ {s} : run[t].pc = "idle" /\ run'[t].pc = "idle"
      /\ \A t \in Slot : run[t].pc \notin OwnPc \cup {"reserveRow"}
  BY <1>0, HookAt
<1>2. PICK d \in Doc : d = run[s].d BY <1>1
<1>3. CASE ReadOwn(s)
  <2>1. UNCHANGED row BY <1>3 DEF ReadOwn
  <2>2. CASE Done(s) BY <2>2, Ended, <1>0, <1>1, HookKnows, <2>1, PlainFinal
  <2>3. CASE run' = [run EXCEPT ![s].pc = "rekey", ![s].own = doc[d].order] /\ doc[d].order # "none"
    <3>1. PICK m : m = [run[s] EXCEPT !.pc = "rekey", !.own = doc[d].order] OBVIOUS
    <3>2. run'[s] = m BY <2>3, <3>1 DEF Typed
    <3>3. m.pc = "rekey" /\ m.d = d /\ m.tag = run[s].tag /\ m.piece = run[s].piece
      BY <1>1, <1>2, <3>1 DEF HookRun
    <3>4. /\ run'[s].pc = "rekey" /\ run'[s].d = d /\ run'[s].tag = run[s].tag
          /\ run'[s].piece = run[s].piece
      BY <3>2, <3>3
    <3>5. "rekey" \in HookPc \ {"copy"} BY DEF HookPc
    <3>6. \A t \in Slot : AtRun(t, run[t])' BY <1>0, <1>1, <1>2, <2>3, <3>4, <3>5, HookKnows
    <3> QED BY <1>0, <1>1, <2>1, <3>6, PlainFinal
  <2> QED BY <1>2, <1>3, <2>2, <2>3 DEF ReadOwn
<1>4. CASE RekeyRow(s)
  <2>1. Rekey(d) /\ run[s].pc = "rekey" BY <1>2, <1>4 DEF RekeyRow
  <2>2. doc[d].order # "none" /\ doc[d].state = "order" BY <1>1, <1>2, <2>1 DEF AtHook
  <2>3. \A t \in Slot : AtRun(t, run[t])'
    BY Ended, <1>0, <1>1, HookKnows, <1>2, HookGoesOn, <2>2, <1>4 DEF HookPc, RekeyRow, AfterRekey
  <2>4. (\A t \in Slot : run[t].pc \notin OwnPc) /\ \A e \in Doc : run[e].pc # "reserveRow"
    BY <1>1 DEF Slot
  <2>5. /\ \A b \in Advance \ {d} : row'[b] = row[b]
        /\ d \in Advance => \/ row'[d] = row[d]
                            \/ /\ row[d]["order"].status = "none" /\ row[d]["draft"].status # "none"
                               /\ row'[d]["order"] = row[d]["draft"] /\ row'[d]["draft"] = NoRow
    BY <2>1, RekeyWrites
  <2>6. ASSUME d \in Advance, row'[d] # row[d]
        PROVE  Own(d, doc[d], row'[d]["draft"], row'[d]["order"], "idle") /\ Shared(d)'
    <3>0. Own(d, doc[d], row[d]["draft"], row[d]["order"], run[d].pc) /\ Shared(d) BY <2>6 DEF FinalInv
    <3>1. PICK x, p, q, pc : x = doc[d] /\ p = row[d]["draft"] /\ q = row[d]["order"] /\ pc = run[d].pc OBVIOUS
    <3>2. Own(d, x, p, q, pc) /\ pc \notin OwnPc BY <2>4, <3>0, <3>1 DEF Slot
    <3>3. q.status = "none" /\ p.status # "none" /\ row'[d]["order"] = p /\ row'[d]["draft"] = NoRow
      BY <2>5, <2>6, <3>1
    <3>4. x.order # "none" /\ x.state = "order" BY <2>2, <3>1
    <3>5. NoRow.status = "none" BY DEF NoRow
    <3>6. Own(d, x, NoRow, p, "idle") BY <3>2, <3>3, <3>4, <3>5 DEF Own, OwnPc
    <3>7. Allowed("again")' <=> Allowed("again") BY <1>0 DEF Allowed
    <3>8. Twice(d) => Twice(d)' BY <1>0, <3>7 DEF Twice, BothBill
    <3>9. p.status # "redeemed" /\ (p.status = "applied" => x.order # "open") BY <3>2 DEF Own
    <3>11. \A e \in Doc : d \in doc[e].tag =>
              doc[e].legs[d] > 0 /\ (doc[e].state = "gone" \/ Twice(d))
      BY <2>4, <3>0, <3>1, <3>3 DEF Shared, Bound
    <3>12. Shared(d)' BY <1>0, <3>1, <3>3, <3>4, <3>7, <3>8, <3>9, <3>11 DEF Shared, Bound
    <3> QED BY <3>1, <3>3, <3>6, <3>12
  <2> QED BY <1>0, <2>3, <2>4, <2>5, <2>6, RowFinal
<1> QED BY <1>3, <1>4

\* A deleted draft: what was applied to it is open again.
LEMMA DeletedFinal ==
  ASSUME Typed, Calm, OneRequest, FinalInv, NEW s \in Slot, CloseDeleted(s) \/ Revert(s) PROVE FinalInv'
<1>0. run[s].pc = "deleted" /\ UNCHANGED <<case, doc, hooks>> /\ Step(s)
  BY DEF CloseDeleted, Revert, Step, Handling
<1>1. run[s] \in DeleteRun /\ run[s].d \in Doc BY <1>0, OtherRunning DEF DeleteRun
<1>2. PICK d \in Doc : d = run[s].d BY <1>1
<1>3. doc[d].state = "gone" BY <1>0, <1>2 DEF FinalInv, AtRun
<1>4. \A t \in Slot \ {s} : run[t].pc = "idle" /\ run'[t].pc = "idle"
  BY <1>0, StepRuns, QuietOrOne DEF Busy
<1>5. Doc \subseteq Slot /\ Advance \subseteq Doc BY AdvanceAssumption DEF Slot
<1>6. (\A t \in Slot : run[t].pc \notin OwnPc) /\ \A e \in Doc : run[e].pc # "reserveRow"
  BY <1>0, <1>4, <1>5 DEF OwnPc
<1>7. \A t \in Slot : AtRun(t, run[t])'
  <2>1. PICK what : Tidied(s, what) BY DEF CloseDeleted, Revert
  <2>2. CASE Done(s) BY <2>2, Ended, <1>4, NobodyKnows
  <2>3. CASE run' = [run EXCEPT ![s].todo = @ \ {what}]
    <3>1. PICK m : m = [run[s] EXCEPT !.todo = @ \ {what}] OBVIOUS
    <3>2. run'[s] = m BY <2>3, <3>1 DEF Typed
    <3>3. m.pc = "deleted" /\ m.d = d BY <1>0, <1>1, <1>2, <3>1 DEF DeleteRun
    <3>4. run'[s].pc = "deleted" /\ doc'[run'[s].d].state = "gone" BY <1>0, <1>3, <3>2, <3>3
    <3> QED BY <1>4, <3>4, NobodyKnows
  <2> QED BY <2>1, <2>2, <2>3 DEF Tidied
<1>8. CASE UNCHANGED row BY <1>0, <1>6, <1>7, <1>8, RowFinal
<1>9. CASE d \in Advance /\ row' = [row EXCEPT ![d]["draft"].status = "deleted"]
  <2>1. /\ \A b \in Advance \ {d} : row'[b] = row[b]
        /\ row'[d]["order"] = row[d]["order"] /\ row'[d]["draft"].status = "deleted" BY <1>9, StatusWrites DEF Name
  <2>2. Own(d, doc[d], row[d]["draft"], row[d]["order"], run[d].pc) /\ Shared(d) BY <1>9 DEF FinalInv
  <2>3. PICK x, p, q, p2, pc : /\ x = doc[d] /\ p = row[d]["draft"] /\ q = row[d]["order"] /\ pc = run[d].pc
                               /\ p2 = row'[d]["draft"] OBVIOUS
  <2>4. Own(d, x, p, q, pc) /\ pc \notin OwnPc BY <1>5, <1>6, <2>2, <2>3
  <2>5. x.state = "gone" /\ p2.status = "deleted" BY <1>3, <2>1, <2>3
  <2>6. Own(d, x, p2, q, "idle") BY <2>4, <2>5 DEF Own, OwnPc
  <2>7. Shared(d)' BY <1>6, <1>9, <2>1, <1>0, <2>2, SharedStays
  <2>8. Own(d, doc[d], row'[d]["draft"], row'[d]["order"], "idle") BY <2>1, <2>3, <2>6
  <2> QED BY <1>0, <1>6, <1>7, <2>1, <2>7, <2>8, RowFinal
<1>10. CASE RevertApplied(d)
  <2>1. ASSUME NEW a \in Advance
        PROVE  Own(a, doc[a], row'[a]["draft"], row'[a]["order"], "idle") /\ Shared(a)'
    <3>0. Own(a, doc[a], row[a]["draft"], row[a]["order"], run[a].pc) /\ Shared(a) BY DEF FinalInv
    <3>1. PICK x, p, q, p2, q2, pc : /\ x = doc[a] /\ p = row[a]["draft"] /\ q = row[a]["order"]
                                     /\ p2 = row'[a]["draft"] /\ q2 = row'[a]["order"] /\ pc = run[a].pc OBVIOUS
    <3>2. Own(a, x, p, q, pc) /\ pc \notin OwnPc BY <1>5, <1>6, <3>0, <3>1
    <3>3. /\ p2 = p \/ (p.status = "applied" /\ p.target = d /\ p2.status = "open")
          /\ q2 = q \/ (q.status = "applied" /\ q.target = d /\ q2.status = "open")
      BY <1>10, <3>1, RevertWrites DEF Name
    <3>4. a = d => x.state = "gone" BY <1>3, <3>1
    <3>5. Own(a, x, p2, q2, "idle") BY <3>2, <3>3, <3>4 DEF Own, OwnPc
    <3>6. Allowed("again")' <=> Allowed("again") BY <1>0 DEF Allowed
    <3>7. Twice(a) => Twice(a)' BY <1>0, <3>6 DEF Twice, BothBill
    <3>8. \A e \in Doc : Bound(a, e) => e = d \/ Bound(a, e)' BY <3>1, <3>3, <3>7 DEF Bound
    <3>9. \A e \in Doc : a \in doc[e].tag =>
              /\ doc[e].legs[a] > 0 /\ doc[a].order # "none"
              /\ doc[e].state = "gone" \/ Bound(a, e)'
      BY <1>3, <1>6, <3>0, <3>8 DEF Shared
    <3>10. /\ ~Allowed("again")' /\ row'[a]["order"].status \in {"applied", "redeemed"} => doc'[a].order # "open"
           /\ row'[a]["order"].status = "redeemed" /\ doc'[a].status = "open" =>
                \E e \in Doc : doc'[e].state = "order" /\ doc'[e].legs[a] > 0
      BY <1>0, <3>0, <3>1, <3>3, <3>6 DEF Shared
    <3>11. Shared(a)' BY <1>0, <3>9, <3>10 DEF Shared
    <3> QED BY <3>1, <3>5, <3>11
  <2> QED BY <1>0, <1>6, <1>7, <2>1, RowFinal
<1> QED BY <1>2, <1>8, <1>9, <1>10 DEF CloseDeleted, Revert, CloseInstrument

\* The daily sweep, between two requests, and the order it tells.
LEMMA SweepFinal ==
  ASSUME Typed, Calm, FinalInv, NEW a \in Advance, NEW n \in Name, SweepStale(a) \/ SweepOverdue(a, n)
  PROVE  FinalInv'
<1>0. Sweep \in Slot /\ UNCHANGED <<case, doc, hooks>> /\ Doc \subseteq Slot /\ a \in Doc
  BY AdvanceAssumption DEF SweepStale, SweepOverdue, Handling, Slot
<1>1. \A t \in Slot : run[t].pc = "idle"
  BY CalmIs DEF SweepStale, SweepOverdue, CanStart, Quiet, Busy
<1>2. (\A t \in Slot : run[t].pc \notin OwnPc) /\ \A e \in Doc : run[e].pc # "reserveRow"
  BY <1>0, <1>1 DEF OwnPc
<1>3. CASE SweepStale(a)
  <2>1. PICK m : m = [pc |-> "convert", d |-> a] OBVIOUS
  <2>2. run' = [run EXCEPT ![Sweep] = m] /\ UNCHANGED row BY <1>3, <2>1 DEF SweepStale
  <2>3. run'[Sweep] = m /\ \A t \in Slot \ {Sweep} : run'[t].pc = "idle" BY <1>0, <1>1, <2>2 DEF Typed
  <2>4. m.pc = "convert" /\ m.d = a BY <2>1
  <2>5. ~doc[a].piece BY <1>3 DEF SweepStale, Convertible
  <2>6. run'[Sweep].pc = "convert" /\ ~doc'[run'[Sweep].d].piece BY <1>0, <2>3, <2>4, <2>5
  <2>7. \A t \in Slot : AtRun(t, run[t])' BY <2>3, <2>6 DEF AtRun, PassPc, HookPc
  <2> QED BY <1>0, <1>2, <2>2, <2>7, RowFinal
<1>4. CASE SweepOverdue(a, n)
  <2>1. /\ doc[a].age = "over" /\ row[a][n].status = "open"
        /\ row' = [row EXCEPT ![a][n].status = "expired"]
    BY <1>4 DEF SweepOverdue, Overdue
  <2>2. /\ \A b \in Advance \ {a} : row'[b] = row[b]
        /\ \A m \in Name \ {n} : row'[a][m] = row[a][m]
        /\ row'[a][n].status = "expired"
    <3>1. row' = [row EXCEPT ![a][n].status = "expired"] BY <2>1
    <3>2. \A b \in Advance \ {a} : row'[b] = row[b] BY <3>1, StatusWrites
    <3>3. \A m \in Name \ {n} : row'[a][m] = row[a][m] BY <3>1, StatusWrites
    <3>4. row'[a][n].status = "expired" BY <3>1, StatusWrites
    <3> QED BY <3>2, <3>3, <3>4
  <2>3. Own(a, doc[a], row[a]["draft"], row[a]["order"], run[a].pc) /\ Shared(a) BY DEF FinalInv
  <2>4. PICK x, p, q, p2, q2, pc : /\ x = doc[a] /\ p = row[a]["draft"] /\ q = row[a]["order"]
                                   /\ p2 = row'[a]["draft"] /\ q2 = row'[a]["order"] /\ pc = run[a].pc OBVIOUS
  <2>5. Own(a, x, p, q, pc) /\ pc = "idle" /\ x.age = "over" BY <1>0, <1>1, <2>1, <2>3, <2>4
  <2>6. \/ n = "draft" /\ p.status = "open" /\ p2.status = "expired" /\ q2 = q
        \/ n = "order" /\ q.status = "open" /\ q2.status = "expired" /\ p2 = p
    BY <2>1, <2>2, <2>4 DEF Name
  <2>7. Own(a, x, p2, q2, "idle") BY <2>5, <2>6 DEF Own
  <2>8. Allowed("again")' <=> Allowed("again") BY <1>0 DEF Allowed
  <2>9. Twice(a) => Twice(a)' BY <1>0, <2>8 DEF Twice, BothBill
  <2>10. \A e \in Doc : Bound(a, e) => Bound(a, e)' BY <2>4, <2>6, <2>9 DEF Bound
  <2>11. Shared(a)' BY <1>2, <2>3, <2>10, <2>6, <1>0, <2>4, <2>8 DEF Shared
  <2>12. \A t \in Slot : AtRun(t, run[t])'
    <3>1. CASE n = "order"
      <4>1. PICK m : m = [pc |-> "stamp", d |-> a] OBVIOUS
      <4>2. run' = [run EXCEPT ![Sweep] = m] BY <1>4, <3>1, <4>1 DEF SweepOverdue
      <4>3. run'[Sweep] = m /\ \A t \in Slot \ {Sweep} : run'[t].pc = "idle" BY <1>0, <1>1, <4>2 DEF Typed
      <4>4. m.pc = "stamp" /\ m.d = a BY <4>1
      <4>5. x.order # "none" BY <2>5, <2>6, <3>1 DEF Own
      <4>6. /\ run'[Sweep].pc = "stamp" /\ doc'[run'[Sweep].d].order # "none"
            /\ row'[run'[Sweep].d]["order"].status = "expired"
        BY <1>0, <2>2, <2>4, <3>1, <4>3, <4>4, <4>5
      <4> QED BY <4>3, <4>6 DEF AtRun, PassPc, HookPc
    <3>2. CASE n # "order" BY <1>4, <3>2, <1>0, <1>1, NobodyKnows DEF SweepOverdue, Typed, Idle
    <3> QED BY <3>1, <3>2
  <2>13. Own(a, doc[a], row'[a]["draft"], row'[a]["order"], "idle") BY <2>4, <2>7
  <2> QED BY <1>0, <1>2, <2>2, <2>11, <2>12, <2>13, RowFinal
<1> QED BY <1>3, <1>4

LEMMA StampFinal ==
  ASSUME Typed, Calm, OneRequest, FinalInv, NEW s \in Slot, Stamp(s) PROVE FinalInv'
<1>1. run[s] \in SweepRun /\ run[s].pc = "stamp" /\ UNCHANGED <<case, row, hooks>>
  BY OtherRunning DEF Stamp, Handling
<1>2. PICK d \in Advance : d = run[s].d BY <1>1 DEF SweepRun
<1>3. d \in Doc /\ doc[d].order # "none" BY <1>1, <1>2, AdvanceAssumption DEF FinalInv, AtRun
<1>4. doc[d].state = "order" /\ doc[d].status # "none" BY <1>3 DEF FinalInv, Heard, Own
<1>5. OnOrder(d, "expired") /\ "expired" \in Status \ {"none"} /\ "expired" # "open"
  BY <1>2 DEF Stamp, Status
<1>6. \A t \in Slot \ {s} : run[t].pc = "idle" BY <1>1, QuietOrOne DEF Busy
<1>7. \A t \in Slot : run'[t].pc = "idle" BY <1>6 DEF Stamp, Done, Typed, Idle
<1>8. \A t \in Slot : AtRun(t, run[t])' BY <1>7, NobodyKnows
<1>9. \A t \in Slot : run[t].pc \notin OwnPc \cup {"reserveRow"} BY <1>1, <1>6 DEF OwnPc
<1> QED BY <1>1, <1>3, <1>4, <1>5, <1>8, <1>9, OrderFinal

LEMMA InitFinal == Init => FinalInv
<1> SUFFICES ASSUME Init PROVE FinalInv OBVIOUS
<1>1. \A s \in Slot : run[s].pc = "idle" BY DEF Init, Idle
<1>2. \A d \in Doc : /\ doc[d].order = "none" /\ doc[d].tag = {} /\ doc[d].status = "none"
                     /\ doc[d].state = "draft"
  BY DEF Init
<1>3. hooks = {} BY DEF Init
<1>4. \A a \in Advance : row[a]["order"].status = "none" /\ row[a]["draft"].status = "none"
  BY DEF Init, NoRow, Name
<1>5. \A s \in Slot : AtRun(s, run[s]) BY <1>1 DEF AtRun, PassPc, HookPc
<1>6. Heard BY <1>2, <1>3 DEF Heard
<1>7. ASSUME NEW a \in Advance
      PROVE  Own(a, doc[a], row[a]["draft"], row[a]["order"], run[a].pc) /\ Shared(a)
  <2>1. a \in Doc BY AdvanceAssumption
  <2>2. PICK x, p, q : x = doc[a] /\ p = row[a]["draft"] /\ q = row[a]["order"] OBVIOUS
  <2>3. x.order = "none" /\ x.status = "none" /\ x.state = "draft" /\ p.status = "none" /\ q.status = "none"
    BY <1>2, <1>4, <2>1, <2>2
  <2>4. Own(a, x, p, q, run[a].pc) BY <2>3 DEF Own
  <2>5. Shared(a) BY <1>2, <1>4, <2>1 DEF Shared
  <2> QED BY <2>2, <2>4, <2>5
<1> QED BY <1>5, <1>6, <1>7 DEF FinalInv

LEMMA CaseStays == [Next]_vars => case' = case
  BY DEF Next, vars, Take, AddPiece, PayBack, GrowOld, Refer, Keep, Complete, Delete, Pass, Forget, Handling,
         Step, Fails, Capture, Captures, Issue, RemoveLine, Commit, CommitRow, ReadRef, Gate, Absorb, Unconfirmed,
         Reserve, Tag, ReserveRow, Clear, Refund, Refunds, Close, Copy, Spend, SpendRow, ReadOwn, RekeyRow,
         Settle, SettleRow, CloseDeleted, Revert, Convert, Stamp, HandleCompleted, HandleDeleted,
         SweepStale, SweepOverdue, Restart

LEMMA FinalNext ==
  ASSUME Typed, ~Allowed("overlap") => OneRequest, FinalInv, [Next]_vars PROVE FinalInv'
<1> SUFFICES ASSUME Calm' PROVE FinalInv' BY DEF FinalInv
<1>1. Calm BY CaseStays DEF Calm, Only
<1>2. OneRequest BY <1>1, CalmIs
<1>3. CASE UNCHANGED vars
  BY <1>3 DEF vars, FinalInv, Calm, Only, Own, Shared, Bound, Twice, BothBill, Allowed, Heard, Told, AtRun, AtPass,
     AtHook, Free
<1>4. CASE \/ \E a \in Advance : Take(a) \/ AddPiece(a) \/ PayBack(a)
           \/ \E d \in Doc, a \in Advance : Refer(d, a)
  BY <1>1, <1>4, StaffFinal
<1>5. CASE \E a \in Advance : GrowOld(a) BY <1>1, <1>5, AgeFinal
<1>6. CASE \E d \in Doc : Complete(d) \/ Delete(d) BY <1>1, <1>2, <1>6, EndFinal
<1>7. CASE \E d \in Doc : Pass(d) BY <1>1, <1>7, PassFinal
<1>8. ASSUME NEW s \in Slot, Step(s) PROVE FinalInv'
  BY <1>1, <1>2, CaptureFinal, CommitFinal, GateFinal, AbsorbFinal, ClearFinal, ReserveFinal, TagFinal,
     ReserveRowFinal, RefundFinal, CopyFinal, SpendFinal, SpendRowFinal, RekeyFinal, SettleFinal, DeletedFinal,
     EndFinal, StampFinal, <1>8 DEF Step
<1>9. CASE \E h \in hooks : HandleCompleted(h) \/ HandleDeleted(h) BY <1>1, <1>9, HandledFinal
<1>10. CASE (\E a \in Advance : SweepStale(a)) \/ \E a \in Advance, n \in Name : SweepOverdue(a, n)
  BY <1>1, <1>10, SweepFinal DEF Name
<1>11. ~(Restart \/ (\E s \in Slot : Fails(s)) \/ \E d \in Doc : Forget(d))
  BY <1>1, CalmIs DEF Restart, Fails, Forget
<1> QED BY <1>3, <1>4, <1>5, <1>6, <1>7, <1>8, <1>9, <1>10, <1>11 DEF Next

\* The writers of a closed row: a bill that has it, and its sale.
LEMMA ClosedRow ==
  ASSUME Typed, Calm, OneRequest, FinalInv, NEW a \in Advance, NEW s \in Slot, Step(s),
         row[a]["order"].status \in {"redeemed", "expired", "deleted", "refunded"},
         Allowed("again") => \A d, e \in Bills(a) : d = e
  PROVE  row'[a]["order"].status = row[a]["order"].status
<1>0. "order" \in Name /\ "draft" \in Name /\ "order" \in Name \ {"draft"} /\ a \in Doc
  BY AdvanceAssumption DEF Name
<1>1. ~Twice(a) BY DEF Twice, BothBill, Bills
<1>2. Shared(a) BY DEF FinalInv
<1>3. CASE ReserveRow(s)
  <2>0. run[s].pc = "reserveRow" /\ run[s].pc \in SeekPc BY <1>3 DEF ReserveRow, SeekPc
  <2>1. PICK b \in Advance : b = run[s].src BY <2>0, SeekAt
  <2>2. s \in Doc /\ run[s].d = s /\ AtPass(s, run[s]) BY <2>0, SeekAt
  <2>3. Free(b, s) /\ doc[s].legs[b] > 0 BY <2>0, <2>1, <2>2 DEF AtPass
  <2>4. b # a BY <2>2, <1>1, <2>3 DEF Free, Twice, BothBill
  <2>5. Retargets(b, "order", s, "applied") BY <1>3, <2>1, <2>2 DEF ReserveRow, Apply, Retargets
  <2>6. \A c \in Advance \ {b} : row'[c] = row[c] BY <1>0, <2>5, TargetWrites
  <2> QED BY <2>4, <2>6
<1>4. CASE SpendRow(s)
  <2>0. run[s].pc = "spendRow" /\ run[s].pc \in HookPc BY <1>4 DEF SpendRow, HookPc
  <2>1. PICK b : b \in run[s].tag /\ RedeemKnown(b, "order", run[s].d) BY <1>4 DEF SpendRow
  <2>2. PICK d \in Doc : d = run[s].d BY <2>0, HookAt
  <2>3. /\ doc[d].state = "order" /\ b \in doc[d].tag
        /\ \A t \in Slot : run[t].pc # "reserveRow"
    BY <2>0, <2>1, <2>2, HookAt
  <2>4. b = a => row[a]["order"].status = "redeemed" BY <1>2, <2>3, <1>1 DEF Shared, Slot, Bound
  <2>5. row' = row \/ Retargets(b, "order", d, "redeemed") BY <2>1, <2>2 DEF RedeemKnown, Retargets
  <2>6. CASE Retargets(b, "order", d, "redeemed")
    <3>1. \A c \in Advance \ {b} : row'[c] = row[c] BY <1>0, <2>6, TargetWrites
    <3>2. ASSUME b \in Advance PROVE row'[b]["order"].status = "redeemed" BY <1>0, <2>6, <3>2, TargetWrites
    <3> QED BY <2>4, <3>1, <3>2
  <2> QED BY <2>5, <2>6
<1>5. CASE SettleRow(s)
  <2>0. run[s].pc = "settleRow" /\ run[s].pc \in HookPc BY <1>5 DEF SettleRow, HookPc
  <2>1. PICK d \in Doc : d = run[s].d BY <2>0, HookAt
  <2>2. AtHook(run[s]) /\ doc[d].state = "order" /\ (run[s].piece => doc[d].piece) BY <2>0, <2>1, HookAt
  <2>3. run[s].piece /\ doc[d].order # "none" BY <2>0, <2>1, <2>2 DEF AtHook
  <2>4. d = a => row[a]["order"].status = "redeemed" BY <2>2, <2>3, SoldHere
  <2>5. Retargets(d, "order", d, "redeemed") BY <1>5, <2>1 DEF SettleRow, Redeem, Retargets
  <2>6. \A c \in Advance \ {d} : row'[c] = row[c] BY <1>0, <2>5, TargetWrites
  <2>7. ASSUME d \in Advance PROVE row'[d]["order"].status = "redeemed" BY <1>0, <2>5, <2>7, TargetWrites
  <2> QED BY <2>4, <2>6, <2>7
<1>6. CASE RekeyRow(s) BY <1>6, RekeyWrites DEF RekeyRow
<1>7. CASE Revert(s) BY <1>7, <1>0, RevertWrites DEF Revert
<1>8. CASE Issue(s) BY <1>8, IssueWrites DEF Issue
<1>9. CASE CommitRow(s)
  <2>1. Retargets(run[s].d, "draft", run[s].d, "applied") BY <1>9 DEF CommitRow, Apply, Retargets
  <2>2. \A m \in Name \ {"draft"} : \A b \in Advance : row'[b][m] = row[b][m] BY <1>0, <2>1, TargetWrites
  <2> QED BY <1>0, <2>2
<1>10. CASE Close(s) \/ CloseDeleted(s)
  <2>1. row' = row \/ \E st \in {"refunded", "deleted"} : row' = [row EXCEPT ![run[s].d]["draft"].status = st]
    BY <1>10 DEF Close, CloseDeleted, CloseInstrument
  <2>2. CASE row' = row BY <2>2
  <2>3. ASSUME NEW st, row' = [row EXCEPT ![run[s].d]["draft"].status = st]
        PROVE  row'[a]["order"].status = row[a]["order"].status
    <3>1. \A m \in Name \ {"draft"} : \A b \in Advance : row'[b][m] = row[b][m] BY <1>0, <2>3, StatusWrites
    <3> QED BY <1>0, <3>1
  <2> QED BY <2>1, <2>2, <2>3
<1>11. CASE UNCHANGED row BY <1>11
<1> QED
  BY <1>3, <1>4, <1>5, <1>6, <1>7, <1>8, <1>9, <1>10, <1>11
  DEF Step, Capture, Captures, RemoveLine, Commit, ReadRef, Gate, Absorb, Unconfirmed, Reserve, Tag, Clear, Refund, Refunds,
      Copy, Spend, ReadOwn, Settle, Convert, Stamp

LEMMA ClosedStays ==
  ASSUME Typed, Calm, OneRequest, FinalInv, [Next]_vars, NEW a \in Advance,
         row[a]["order"].status \in {"redeemed", "expired", "deleted", "refunded"},
         Allowed("again") => \A d, e \in Bills(a) : d = e
  PROVE  row'[a]["order"].status = row[a]["order"].status
<1>1. CASE \E s \in Slot : Step(s) BY <1>1, ClosedRow
<1>2. ASSUME NEW b \in Advance, NEW n \in Name, SweepOverdue(b, n)
      PROVE  row'[a]["order"].status = row[a]["order"].status
  BY <1>2, StatusWrites DEF SweepOverdue, Overdue, Name
<1>3. CASE UNCHANGED row BY <1>3
<1>4. CASE \E s \in Slot : Fails(s) BY <1>3, <1>4 DEF Fails
<1> QED BY <1>1, <1>2, <1>3, <1>4
        DEF Next, vars, Take, AddPiece, PayBack, GrowOld, Refer, Keep, Complete, Delete, Pass, Forget, Handling,
            HandleCompleted, HandleDeleted, SweepStale, Restart

(* The register's last words are last: a row is reserved only for a bill   *)
(* that found the order open, spent only by the sale it was reserved for or *)
(* that its own piece made, reopened only while reserved, and a replayed    *)
(* conversion finds the order's name taken (handleAdvanceConversion, apply, *)
(* redeem, revertApplied and rekey of credit_instruments.js).               *)
THEOREM FinalStaysHolds == Spec => FinalStays
<1> DEFINE IInv == Typed /\ (~Allowed("overlap") => OneRequest) /\ FinalInv
<1>1. Init => IInv BY InitTyped, InitSettles, InitFinal
<1>2. IInv /\ [Next]_vars => IInv'
  <2> SUFFICES ASSUME IInv, [Next]_vars PROVE IInv' OBVIOUS
  <2>1. Typed' BY NextTyped
  <2>2. FinalInv' BY FinalNext
  <2>3. Allowed("overlap")' <=> Allowed("overlap") BY CaseStays DEF Allowed
  <2>4. ~Allowed("overlap")' => OneRequest' BY <2>3, OneRequestNext
  <2> QED BY <2>1, <2>2, <2>4
<1>3. IInv /\ [Next]_vars =>
        [Only({"again", "late", "abandon", "reject"}) =>
           \A a \in Advance :
              /\ row[a]["order"].status \in {"redeemed", "expired", "deleted", "refunded"}
              /\ Allowed("again") => \A d, e \in Bills(a) : d = e
              => row'[a]["order"].status = row[a]["order"].status]_vars
  BY ClosedStays, CalmIs DEF Calm
<1> QED BY <1>1, <1>2, <1>3, PTL DEF Spec, FinalStays

--------------------
(* What the accounts of an advance say                                     *)

\* One request at a time, none fails, every pass before its draft ends.
Plainly == Only({"late", "abandon", "stuck", "reject"})

\* The request under way.
Now == IF Quiet THEN Idle ELSE run[CHOOSE s \in Slot : Busy(s)]

\* Where a pass seeks an advance for the draft's bill.
Seeking == SeekPc \cup {"refund"}

HasTold(a) == \E h \in hooks : h.kind = "completed" /\ h.d = a
HasLost(a) == \E h \in hooks : h.kind = "deleted" /\ h.d = a

\* What the request r is at, as far as the advance a is concerned.
Work(r, a) ==
    IF r.pc \in PassPc \cup HookPc \cup {"stamp"} /\ r.d = a THEN r.pc
    ELSE IF r.pc \in {"tag", "reserveRow"} /\ r.src = a THEN "reserving"
    ELSE IF r.pc = "spendRow" /\ a \in r.tag THEN "spending"
    ELSE IF r.pc = "deleted" /\ r.d = a /\ "close" \in r.todo THEN "closing"
    ELSE "none"

\* The row is still under the draft's name.
Unmoved(told, w) == told \/ w \in {"copy", "spend", "spendRow", "own", "rekey"}

\* An advance before its row has moved: draft or order x, its rows p and q,
\* whether hooks have yet to tell of its end, the work w on it.
Early(a, x, p, q, told, lost, w, st) ==
    /\ x.status \in {"none", "open", "applied", "refunded"}
    /\ x.status # "none" \/ x.line \/ x.piece => x.paid
    /\ x.paid /\ x.status = "none" =>
          x.state = "gone" \/ (x.state = "draft" /\ x.line /\ (x.dirty \/ w = "capture"))
    /\ x.status = "none" => p = NoRow /\ q = NoRow /\ x.order = "none" /\ x.age = "new"
    /\ x.state # "order" => x.order = "none" /\ q = NoRow /\ ~told
    /\ x.state # "draft" => w \notin PassPc
    /\ w \in HookPc \cup {"reserving", "spending", "stamp"} => x.state = "order"
    /\ w = "issue" => x.state = "draft" /\ x.status = "open" /\ x.age = "new" /\ p = NoRow
    /\ w = "commit" => x.piece /\ x.status # "none"
    /\ w = "commitRow" => x.piece /\ x.status = "applied"
    /\ w = "close" => x.status = "refunded" /\ p.status \in {"open", "applied", "expired"}
    /\ p.status = "applied" => p.target = a
    /\ p.status # "expired" \/ st \/ x.state = "gone"

\* What its draft's row says.
Drafted(x, p, told, w, st) ==
    x.state = "draft" \/ (x.state = "order" /\ Unmoved(told, w)) =>
        /\ x.status = "open" =>
              w = "issue" \/ p.status = "open" \/ (st /\ p.status = "expired" /\ x.age = "over")
        /\ x.status = "applied" => x.piece /\ (w = "commitRow" \/ p.status = "applied")
        /\ x.status = "refunded" =>
              x.refunded /\ (w = "close" \/ p.status = "refunded" \/ (st /\ p.status = "expired"))
        /\ x.status # "none" /\ w # "issue" => p.status # "none" /\ p.issued
        /\ x.age = "over" /\ p.status = "open" => st

Lined(x, w) ==
    /\ x.state = "draft" /\ ~x.dirty /\ w \notin {"capture", "issue", "line"} /\ x.piece /\ x.status # "none"
         => ~x.line
    /\ ~x.line /\ x.status # "none" /\ w # "commit" => x.status \in {"applied", "refunded"}

Lost(x, p, lost, w) ==
    x.state = "gone" =>
        /\ p.status # "none" => p.issued
        /\ p.status \in Live => lost \/ w = "closing"

\* The order and its row.
Ordered(x, p, q, told, w, st, ab) ==
    x.state = "order" =>
        /\ x.status # "none"
        /\ told => x.order = "none" /\ w = "none"
        /\ w = "copy" => x.order = "none"
        /\ x.order = "none" => told \/ w = "copy"
        /\ w \in {"spend", "spendRow", "own", "rekey"} => x.order = x.status
        /\ Unmoved(told, w) => q = NoRow
        /\ ~Unmoved(told, w) =>
              /\ p = NoRow /\ q.issued
              /\ q.status \in {"open", "applied", "refunded", "redeemed", "expired"}
              /\ w \notin {"settle", "settleRow", "reserving", "spending", "stamp"} =>
                    \/ q.status = x.order
                    \/ st /\ q.status = "expired" /\ (x.order = "refunded" \/ (x.order = "open" /\ x.age = "over"))
                    \/ ab /\ q.status = "open" /\ x.order = "applied"
        /\ w = "settle" => x.piece /\ x.order = x.status
        /\ w = "settleRow" => x.piece /\ x.order = "redeemed"
        /\ w = "reserving" => x.order = "applied" /\ q.status = "open"
        /\ w = "spending" => x.order = "redeemed"
        /\ w = "stamp" => q.status = "expired" /\ (x.order = "open" \/ (ab /\ x.order = "applied"))
        /\ x.piece => Unmoved(told, w) \/ w = "settle" \/ x.order = "redeemed"

\* Money that was given back.
Returned(x, w) ==
    x.refunded =>
        /\ x.status # "none"
        /\ x.status = "refunded" \/ x.state = "gone"
             \/ (x.state = "draft" /\ (x.dirty \/ w \in PassPc \ {"close"}))
        /\ x.state = "order" => ~x.piece /\ x.order \in {"none", "refunded"}

Story(a, x, p, q, told, lost, w, st, ab) ==
    /\ Early(a, x, p, q, told, lost, w, st)
    /\ Drafted(x, p, told, w, st)
    /\ Lined(x, w)
    /\ Lost(x, p, lost, w)
    /\ Ordered(x, p, q, told, w, st, ab)
    /\ Returned(x, w)

\* What a write to x, which is then y, leaves alone.
Leaves(x, y, F) ==
    /\ "state" \in F \/ y.state = x.state
    /\ "line" \in F \/ y.line = x.line
    /\ "piece" \in F \/ y.piece = x.piece
    /\ "paid" \in F \/ y.paid = x.paid
    /\ "refunded" \in F \/ y.refunded = x.refunded
    /\ "status" \in F \/ y.status = x.status
    /\ "order" \in F \/ y.order = x.order
    /\ "age" \in F \/ y.age = x.age
    /\ "dirty" \in F \/ y.dirty = x.dirty

StoryOf(a, r) ==
    Story(a, doc[a], row[a]["draft"], row[a]["order"], HasTold(a), HasLost(a), Work(r, a),
          Allowed("stuck"), Allowed("abandon"))

\* The conversion of d that has not looked at what d carries.
Unspent(d, r) == HasTold(d) \/ (r.pc \in {"copy", "spend"} /\ r.d = d)

\* The bills an advance is on.
Billed(a, r) ==
    \A d \in Doc :
        /\ a \in doc[d].tag => doc[d].legs[a] > 0
        /\ doc[d].legs[a] > 0 =>
              /\ d # a /\ doc[a].state = "order" /\ doc[a].order # "none" /\ ~doc[a].refunded
              /\ doc[d].state = "gone" => Allowed("abandon")
              /\ Allowed("reject") \/ a \in doc[d].tag
                   \/ (r.pc \in {"reserve", "tag"} /\ r.d = d /\ r.src = a)
              /\ doc[d].state = "order" =>
                    Allowed("reject") \/ Unspent(d, r) \/ doc[a].order = "redeemed"

\* What is reserved, and what is spent, is on a bill.
Carried(a, r) ==
    /\ row[a]["order"].status = "applied" =>
          \/ row[a]["order"].target = a
          \/ row[a]["order"].target \in Doc /\ doc[row[a]["order"].target].legs[a] > 0
    /\ doc[a].order = "redeemed" =>
          doc[a].piece \/ \E d \in Doc : doc[d].state = "order" /\ doc[d].legs[a] > 0
    /\ doc[a].order = "applied" =>
          \/ Allowed("abandon") \/ Allowed("reject")
          \/ Unmoved(HasTold(a), Work(r, a)) \/ Work(r, a) = "settle"
          \/ \E d \in Doc : /\ doc[d].legs[a] > 0
                            /\ doc[d].state = "draft" \/ (doc[d].state = "order" /\ Unspent(d, r))

\* What the webhooks and the request under way know.
HooksKnow ==
    /\ \A h \in hooks :
          /\ h.kind = "completed" =>
                doc[h.d].state = "order" /\ h.tag = doc[h.d].tag /\ h.piece = doc[h.d].piece
          /\ h.kind = "deleted" => doc[h.d].state = "gone"
    /\ \A h, g \in hooks : h.kind = "completed" /\ g.kind = "completed" /\ h.d = g.d => h = g
    /\ \A d \in Doc : \A a, b \in doc[d].tag : a = b

RunKnows(r) ==
    /\ r.pc \in PassPc => doc[r.d].state = "draft"
    /\ r.pc \in {"capture", "issue", "line"} => r.line = doc[r.d].line /\ r.piece = doc[r.d].piece
    /\ r.pc \in PassPc \ {"reserveRow", "clear", "refund", "close", "unconfirmed"} => r.tag = doc[r.d].tag
    /\ r.pc \in {"gate", "absorb", "reserve", "tag"} => r.tag = {}
    /\ r.pc \in {"absorb", "reserve"} => doc[r.src].order = "open" /\ doc[r.src].age # "over"
    /\ r.pc \in {"reserve", "tag", "reserveRow"} => doc[r.d].legs[r.src] > 0
    /\ r.pc \in {"tag", "reserveRow"} => doc[r.src].order = "applied"
    /\ r.pc \in HookPc =>
          /\ doc[r.d].state = "order" /\ r.piece = doc[r.d].piece /\ r.tag = doc[r.d].tag
          /\ ~HasTold(r.d)
    /\ r.pc = "rekey" => r.own = doc[r.d].order /\ r.own # "none"
    /\ r.pc \in {"spend", "spendRow"} => r.tag # {}
    /\ r.pc = "deleted" => doc[r.d].state = "gone"
    /\ r.pc = "convert" => ~doc[r.d].dirty /\ ~doc[r.d].piece /\ doc[r.d].line

AccountInv ==
    Plainly =>
      /\ \A a \in Advance : StoryOf(a, Now) /\ Billed(a, Now) /\ Carried(a, Now)
      /\ HooksKnow
      /\ RunKnows(Now)

LEMMA WorkIs ==
  ASSUME NEW r, NEW a
  PROVE  /\ r.pc \in {"idle", "convert"} => Work(r, a) = "none"
         /\ r.pc \in PassPc /\ r.d = a => Work(r, a) = r.pc
         /\ r.pc \in PassPc \ {"tag", "reserveRow"} /\ r.d # a => Work(r, a) = "none"
         /\ r.pc \in {"tag", "reserveRow"} /\ r.d # a => Work(r, a) = IF r.src = a THEN "reserving" ELSE "none"
         /\ r.pc \in HookPc /\ r.d = a => Work(r, a) = r.pc
         /\ r.pc \in HookPc \ {"spendRow"} /\ r.d # a => Work(r, a) = "none"
         /\ r.pc = "spendRow" /\ r.d # a => Work(r, a) = IF a \in r.tag THEN "spending" ELSE "none"
         /\ r.pc = "deleted" => Work(r, a) = IF r.d = a /\ "close" \in r.todo THEN "closing" ELSE "none"
         /\ r.pc = "stamp" => Work(r, a) = IF r.d = a THEN "stamp" ELSE "none"
  BY DEF Work, PassPc, HookPc

\* The lemmas on single stories, down to HIDE: each says what one write, or one move of the request
\* under way, makes of the story of an advance, and follows from the parts of a story alone.
USE DEF Story, Early, Drafted, Lined, Lost, Ordered, Returned, Unmoved, Leaves, PassPc, HookPc, SeekPc, Seeking,
        DocRec, RowRec, NoRow, Live

\* The chain of its draft.
LEMMA CaptureStory ==
  ASSUME NEW a, NEW x \in DocRec, NEW y \in DocRec, NEW p \in RowRec, NEW q \in RowRec, NEW told \in BOOLEAN,
         NEW lost \in BOOLEAN, NEW st \in BOOLEAN, NEW ab \in BOOLEAN,
         Story(a, x, p, q, told, lost, "capture", st, ab), x.state = "draft",
         Leaves(x, y, {"status", "dirty"}), y.status = "open", y.dirty, x.status = "none", x.paid
  PROVE  Story(a, y, p, q, told, lost, "issue", st, ab)
  OBVIOUS

LEMMA NoCaptureStory ==
  ASSUME NEW a, NEW x \in DocRec, NEW p \in RowRec, NEW q \in RowRec, NEW told \in BOOLEAN,
         NEW lost \in BOOLEAN, NEW st \in BOOLEAN, NEW ab \in BOOLEAN,
         Story(a, x, p, q, told, lost, "capture", st, ab), x.state = "draft",
         x.line /\ x.paid => x.status # "none"
  PROVE  Story(a, x, p, q, told, lost, "line", st, ab)
  OBVIOUS

LEMMA IssueStory ==
  ASSUME NEW a, NEW x \in DocRec, NEW p \in RowRec, NEW q \in RowRec, NEW p2 \in RowRec, NEW told \in BOOLEAN,
         NEW lost \in BOOLEAN, NEW st \in BOOLEAN, NEW ab \in BOOLEAN,
         Story(a, x, p, q, told, lost, "issue", st, ab), x.state = "draft", p2.status = "open", p2.issued
  PROVE  Story(a, x, p2, q, told, lost, "line", st, ab)
  OBVIOUS

LEMMA RemoveLineStory ==
  ASSUME NEW a, NEW x \in DocRec, NEW y \in DocRec, NEW p \in RowRec, NEW q \in RowRec, NEW told \in BOOLEAN,
         NEW lost \in BOOLEAN, NEW st \in BOOLEAN, NEW ab \in BOOLEAN,
         Story(a, x, p, q, told, lost, "line", st, ab), x.state = "draft", Leaves(x, y, {"line", "dirty"}),
         x.piece, x.status # "none", ~y.line, y.dirty
  PROVE  Story(a, y, p, q, told, lost, "commit", st, ab)
  OBVIOUS

LEMMA KeepLineStory ==
  ASSUME NEW a, NEW x \in DocRec, NEW p \in RowRec, NEW q \in RowRec, NEW told \in BOOLEAN,
         NEW lost \in BOOLEAN, NEW st \in BOOLEAN, NEW ab \in BOOLEAN,
         Story(a, x, p, q, told, lost, "line", st, ab), x.state = "draft",
         ~(x.line /\ x.piece /\ x.status # "none")
  PROVE  Story(a, x, p, q, told, lost, "redeem", st, ab)
  OBVIOUS

LEMMA CommitStory ==
  ASSUME NEW a, NEW x \in DocRec, NEW y \in DocRec, NEW p \in RowRec, NEW q \in RowRec, NEW told \in BOOLEAN,
         NEW lost \in BOOLEAN, NEW st \in BOOLEAN, NEW ab \in BOOLEAN,
         Story(a, x, p, q, told, lost, "commit", st, ab), x.state = "draft",
         Leaves(x, y, {"status", "dirty"}), y.status = "applied", y.dirty
  PROVE  Story(a, y, p, q, told, lost, "commitRow", st, ab)
  OBVIOUS

LEMMA CommitRowStory ==
  ASSUME NEW a, NEW x \in DocRec, NEW p \in RowRec, NEW q \in RowRec, NEW p2 \in RowRec, NEW told \in BOOLEAN,
         NEW lost \in BOOLEAN, NEW st \in BOOLEAN, NEW ab \in BOOLEAN,
         Story(a, x, p, q, told, lost, "commitRow", st, ab), x.state = "draft",
         p2.status = "applied", p2.target = a, p2.issued = p.issued
  PROVE  Story(a, x, p2, q, told, lost, "redeem", st, ab)
  OBVIOUS

LEMMA RefundStory ==
  ASSUME NEW a, NEW x \in DocRec, NEW y \in DocRec, NEW p \in RowRec, NEW q \in RowRec, NEW told \in BOOLEAN,
         NEW lost \in BOOLEAN, NEW st \in BOOLEAN, NEW ab \in BOOLEAN,
         Story(a, x, p, q, told, lost, "refund", st, ab), x.state = "draft",
         Leaves(x, y, {"status", "dirty"}), y.status = "refunded", y.dirty, x.refunded, x.status \in Live
  PROVE  Story(a, y, p, q, told, lost, "close", st, ab)
  OBVIOUS

LEMMA NoRefundStory ==
  ASSUME NEW a, NEW x \in DocRec, NEW p \in RowRec, NEW q \in RowRec, NEW told \in BOOLEAN,
         NEW lost \in BOOLEAN, NEW st \in BOOLEAN, NEW ab \in BOOLEAN,
         Story(a, x, p, q, told, lost, "refund", st, ab), x.state = "draft",
         ~(x.status \in Live /\ x.refunded)
  PROVE  Story(a, x, p, q, told, lost, "none", st, ab)
  OBVIOUS

LEMMA CloseStory ==
  ASSUME NEW a, NEW x \in DocRec, NEW p \in RowRec, NEW q \in RowRec, NEW p2 \in RowRec, NEW told \in BOOLEAN,
         NEW lost \in BOOLEAN, NEW st \in BOOLEAN, NEW ab \in BOOLEAN,
         Story(a, x, p, q, told, lost, "close", st, ab), x.state = "draft",
         p2.issued = p.issued, p2.target = p.target,
         p2.status = IF p.status \in Live THEN "refunded" ELSE p.status
  PROVE  Story(a, x, p2, q, told, lost, "none", st, ab)
  OBVIOUS

\* A write its advance is not about.
LEMMA AlikeStory ==
  ASSUME NEW a, NEW x \in DocRec, NEW y \in DocRec, NEW p \in RowRec, NEW q \in RowRec, NEW told \in BOOLEAN,
         NEW lost \in BOOLEAN, NEW st \in BOOLEAN, NEW ab \in BOOLEAN, NEW w \in Seeking, NEW v \in Seeking,
         Story(a, x, p, q, told, lost, w, st, ab), Leaves(x, y, {"dirty"}), x.dirty => y.dirty
  PROVE  Story(a, y, p, q, told, lost, v, st, ab)
  OBVIOUS

LEMMA OtherStory ==
  ASSUME NEW a, NEW x \in DocRec, NEW y \in DocRec, NEW p \in RowRec, NEW q \in RowRec, NEW told \in BOOLEAN,
         NEW lost \in BOOLEAN, NEW st \in BOOLEAN, NEW ab \in BOOLEAN,
         Story(a, x, p, q, told, lost, "none", st, ab), Leaves(x, y, {"dirty"}), x.dirty => y.dirty
  PROVE  Story(a, y, p, q, told, lost, "none", st, ab)
  OBVIOUS

\* Staff and the calendar.
LEMMA TakeStory ==
  ASSUME NEW a, NEW x \in DocRec, NEW y \in DocRec, NEW p \in RowRec, NEW q \in RowRec, NEW told \in BOOLEAN,
         NEW lost \in BOOLEAN, NEW st \in BOOLEAN, NEW ab \in BOOLEAN,
         Story(a, x, p, q, told, lost, "none", st, ab), x.state = "draft",
         Leaves(x, y, {"line", "paid", "dirty"}), ~x.paid, y.paid, y.line, y.dirty
  PROVE  Story(a, y, p, q, told, lost, "none", st, ab)
  OBVIOUS

LEMMA AddPieceStory ==
  ASSUME NEW a, NEW x \in DocRec, NEW y \in DocRec, NEW p \in RowRec, NEW q \in RowRec, NEW told \in BOOLEAN,
         NEW lost \in BOOLEAN, NEW st \in BOOLEAN, NEW ab \in BOOLEAN,
         Story(a, x, p, q, told, lost, "none", st, ab), x.state = "draft", Leaves(x, y, {"piece", "dirty"}),
         x.paid, y.piece, y.dirty
  PROVE  Story(a, y, p, q, told, lost, "none", st, ab)
  OBVIOUS

LEMMA PayBackStory ==
  ASSUME NEW a, NEW x \in DocRec, NEW y \in DocRec, NEW p \in RowRec, NEW q \in RowRec, NEW told \in BOOLEAN,
         NEW lost \in BOOLEAN, NEW st \in BOOLEAN, NEW ab \in BOOLEAN,
         Story(a, x, p, q, told, lost, "none", st, ab), x.state = "draft",
         Leaves(x, y, {"refunded", "dirty"}), x.status \in Live, y.refunded, y.dirty
  PROVE  Story(a, y, p, q, told, lost, "none", st, ab)
  OBVIOUS

LEMMA GrowStory ==
  ASSUME NEW a, NEW x \in DocRec, NEW y \in DocRec, NEW p \in RowRec, NEW q \in RowRec, NEW told \in BOOLEAN,
         NEW lost \in BOOLEAN, NEW st \in BOOLEAN, NEW ab \in BOOLEAN,
         Story(a, x, p, q, told, lost, "none", st, ab), ~told, ~lost, Leaves(x, y, {"age"}),
         ~x.dirty, x.status # "none",
         \/ x.age = "new" /\ y.age = "stale"
         \/ /\ x.age = "stale" /\ y.age = "over"
            /\ p.status = "open" /\ p.issued /\ x.state = "draft" /\ x.line /\ ~x.piece => st
  PROVE  Story(a, y, p, q, told, lost, "none", st, ab)
  OBVIOUS

\* A pass begins.
LEMMA PassStory ==
  ASSUME NEW a, NEW x \in DocRec, NEW y \in DocRec, NEW p \in RowRec, NEW q \in RowRec, NEW told \in BOOLEAN,
         NEW lost \in BOOLEAN, NEW st \in BOOLEAN, NEW ab \in BOOLEAN,
         Story(a, x, p, q, told, lost, "none", st, ab), x.state = "draft", Leaves(x, y, {"dirty"})
  PROVE  Story(a, y, p, q, told, lost, "capture", st, ab)
  OBVIOUS

\* The conversion is heard of, and handled.
LEMMA HandledStory ==
  ASSUME NEW a, NEW x \in DocRec, NEW p \in RowRec, NEW q \in RowRec, NEW lost \in BOOLEAN,
         NEW st \in BOOLEAN, NEW ab \in BOOLEAN, Story(a, x, p, q, TRUE, lost, "none", st, ab)
  PROVE  Story(a, x, p, q, FALSE, lost, "copy", st, ab)
  OBVIOUS

LEMMA CopySpendStory ==
  ASSUME NEW a, NEW x \in DocRec, NEW y \in DocRec, NEW p \in RowRec, NEW q \in RowRec, NEW told \in BOOLEAN,
         NEW lost \in BOOLEAN, NEW st \in BOOLEAN, NEW ab \in BOOLEAN,
         Story(a, x, p, q, told, lost, "copy", st, ab), ~told, Leaves(x, y, {"order"}), y.order = x.status
  PROVE  Story(a, y, p, q, told, lost, "spend", st, ab)
  OBVIOUS

LEMMA CopyOwnStory ==
  ASSUME NEW a, NEW x \in DocRec, NEW y \in DocRec, NEW p \in RowRec, NEW q \in RowRec, NEW told \in BOOLEAN,
         NEW lost \in BOOLEAN, NEW st \in BOOLEAN, NEW ab \in BOOLEAN,
         Story(a, x, p, q, told, lost, "copy", st, ab), ~told, Leaves(x, y, {"order"}), y.order = x.status
  PROVE  Story(a, y, p, q, told, lost, "own", st, ab)
  OBVIOUS

LEMMA SpendOnStory ==
  ASSUME NEW a, NEW x \in DocRec, NEW p \in RowRec, NEW q \in RowRec, NEW told \in BOOLEAN,
         NEW lost \in BOOLEAN, NEW st \in BOOLEAN, NEW ab \in BOOLEAN,
         Story(a, x, p, q, told, lost, "spend", st, ab), ~told
  PROVE  Story(a, x, p, q, told, lost, "spendRow", st, ab)
  OBVIOUS

LEMMA SpendRowOnStory ==
  ASSUME NEW a, NEW x \in DocRec, NEW p \in RowRec, NEW q \in RowRec, NEW told \in BOOLEAN,
         NEW lost \in BOOLEAN, NEW st \in BOOLEAN, NEW ab \in BOOLEAN,
         Story(a, x, p, q, told, lost, "spendRow", st, ab), ~told
  PROVE  Story(a, x, p, q, told, lost, "own", st, ab)
  OBVIOUS

LEMMA OwnStory ==
  ASSUME NEW a, NEW x \in DocRec, NEW p \in RowRec, NEW q \in RowRec, NEW told \in BOOLEAN,
         NEW lost \in BOOLEAN, NEW st \in BOOLEAN, NEW ab \in BOOLEAN,
         Story(a, x, p, q, told, lost, "own", st, ab), ~told
  PROVE  Story(a, x, p, q, told, lost, "rekey", st, ab)
  OBVIOUS

LEMMA RekeyBesideStory ==
  ASSUME NEW a, NEW x \in DocRec, NEW p \in RowRec, NEW q \in RowRec, NEW told \in BOOLEAN,
         NEW lost \in BOOLEAN, NEW st \in BOOLEAN, NEW ab \in BOOLEAN,
         Story(a, x, p, q, told, lost, "rekey", st, ab), ~told, x.piece
  PROVE  Story(a, x, NoRow, p, told, lost, "settle", st, ab)
  OBVIOUS

LEMMA RekeyAloneStory ==
  ASSUME NEW a, NEW x \in DocRec, NEW p \in RowRec, NEW q \in RowRec, NEW told \in BOOLEAN,
         NEW lost \in BOOLEAN, NEW st \in BOOLEAN, NEW ab \in BOOLEAN,
         Story(a, x, p, q, told, lost, "rekey", st, ab), ~told, ~x.piece
  PROVE  Story(a, x, NoRow, p, told, lost, "none", st, ab)
  OBVIOUS

LEMMA SettleStory ==
  ASSUME NEW a, NEW x \in DocRec, NEW y \in DocRec, NEW p \in RowRec, NEW q \in RowRec, NEW told \in BOOLEAN,
         NEW lost \in BOOLEAN, NEW st \in BOOLEAN, NEW ab \in BOOLEAN,
         Story(a, x, p, q, told, lost, "settle", st, ab), ~told, Leaves(x, y, {"order"}),
         y.order = "redeemed"
  PROVE  Story(a, y, p, q, told, lost, "settleRow", st, ab)
  OBVIOUS

LEMMA SettleRowStory ==
  ASSUME NEW a, NEW x \in DocRec, NEW p \in RowRec, NEW q \in RowRec, NEW q2 \in RowRec, NEW told \in BOOLEAN,
         NEW lost \in BOOLEAN, NEW st \in BOOLEAN, NEW ab \in BOOLEAN,
         Story(a, x, p, q, told, lost, "settleRow", st, ab), ~told,
         q2.status = "redeemed", q2.issued = q.issued
  PROVE  Story(a, x, p, q2, told, lost, "none", st, ab)
  OBVIOUS

\* An advance spent on another bill.
LEMMA SpendStory ==
  ASSUME NEW a, NEW x \in DocRec, NEW y \in DocRec, NEW p \in RowRec, NEW q \in RowRec, NEW told \in BOOLEAN,
         NEW lost \in BOOLEAN, NEW st \in BOOLEAN, NEW ab \in BOOLEAN,
         Story(a, x, p, q, told, lost, "none", st, ab), Leaves(x, y, {"order"}),
         x.state = "order", x.order # "none", ~x.refunded, y.order = "redeemed"
  PROVE  Story(a, y, p, q, told, lost, "spending", st, ab)
  OBVIOUS

LEMMA SpendRowStory ==
  ASSUME NEW a, NEW x \in DocRec, NEW p \in RowRec, NEW q \in RowRec, NEW q2 \in RowRec, NEW told \in BOOLEAN,
         NEW lost \in BOOLEAN, NEW st \in BOOLEAN, NEW ab \in BOOLEAN,
         Story(a, x, p, q, told, lost, "spending", st, ab), q2.issued = q.issued,
         q2.status = IF q.status = "none" THEN "none" ELSE "redeemed"
  PROVE  Story(a, x, p, q2, told, lost, "none", st, ab)
  OBVIOUS

\* An advance reserved for another bill.
LEMMA ReserveStory ==
  ASSUME NEW a, NEW x \in DocRec, NEW y \in DocRec, NEW p \in RowRec, NEW q \in RowRec, NEW told \in BOOLEAN,
         NEW lost \in BOOLEAN, NEW st \in BOOLEAN, NEW ab \in BOOLEAN,
         Story(a, x, p, q, told, lost, "none", st, ab), Leaves(x, y, {"order"}),
         x.order = "open", x.age # "over", y.order = "applied"
  PROVE  Story(a, y, p, q, told, lost, "reserving", st, ab)
  OBVIOUS

LEMMA ReserveRowStory ==
  ASSUME NEW a, NEW x \in DocRec, NEW p \in RowRec, NEW q \in RowRec, NEW q2 \in RowRec, NEW told \in BOOLEAN,
         NEW lost \in BOOLEAN, NEW st \in BOOLEAN, NEW ab \in BOOLEAN,
         Story(a, x, p, q, told, lost, "reserving", st, ab), q2.status = "applied", q2.issued = q.issued
  PROVE  Story(a, x, p, q2, told, lost, "none", st, ab)
  OBVIOUS

\* A deleted draft.
LEMMA LostStory ==
  ASSUME NEW a, NEW x \in DocRec, NEW p \in RowRec, NEW q \in RowRec, NEW told \in BOOLEAN,
         NEW lost \in BOOLEAN, NEW lost2 \in BOOLEAN, NEW st \in BOOLEAN, NEW ab \in BOOLEAN,
         Story(a, x, p, q, told, lost, "none", st, ab), x.state = "gone"
  PROVE  Story(a, x, p, q, told, lost2, "closing", st, ab)
  OBVIOUS

LEMMA CloseDeletedStory ==
  ASSUME NEW a, NEW x \in DocRec, NEW p \in RowRec, NEW q \in RowRec, NEW p2 \in RowRec, NEW told \in BOOLEAN,
         NEW lost \in BOOLEAN, NEW st \in BOOLEAN, NEW ab \in BOOLEAN,
         Story(a, x, p, q, told, lost, "closing", st, ab), x.state = "gone",
         \/ p2 = p /\ ~(p.status \in Live /\ p.issued)
         \/ p.status \in Live /\ p2.status = "deleted" /\ p2.issued = p.issued
  PROVE  Story(a, x, p2, q, told, lost, "none", st, ab)
  OBVIOUS

LEMMA RevertStory ==
  ASSUME NEW a, NEW x \in DocRec, NEW p \in RowRec, NEW q \in RowRec, NEW p2 \in RowRec, NEW q2 \in RowRec,
         NEW told \in BOOLEAN, NEW lost \in BOOLEAN, NEW st \in BOOLEAN, NEW ab \in BOOLEAN, NEW w,
         Story(a, x, p, q, told, lost, w, st, ab), w \in {"none", "closing"},
         p2 = p \/ (x.state = "gone" /\ p.status = "applied" /\ p2.status = "open" /\ p2.issued = p.issued),
         q2 = q \/ (ab /\ q.status = "applied" /\ q2.status = "open" /\ q2.issued = q.issued)
  PROVE  Story(a, x, p2, q2, told, lost, w, st, ab)
  OBVIOUS

\* A year has passed.
LEMMA LapseStory ==
  ASSUME NEW a, NEW x \in DocRec, NEW p \in RowRec, NEW q \in RowRec, NEW p2 \in RowRec, NEW told \in BOOLEAN,
         NEW lost \in BOOLEAN, NEW st \in BOOLEAN, NEW ab \in BOOLEAN,
         Story(a, x, p, q, told, lost, "none", st, ab),
         x.age = "over", p.status = "open", p2.status = "expired", p2.issued = p.issued
  PROVE  Story(a, x, p2, q, told, lost, "none", st, ab)
  OBVIOUS

LEMMA OverdueStory ==
  ASSUME NEW a, NEW x \in DocRec, NEW p \in RowRec, NEW q \in RowRec, NEW q2 \in RowRec, NEW told \in BOOLEAN,
         NEW lost \in BOOLEAN, NEW st \in BOOLEAN, NEW ab \in BOOLEAN,
         Story(a, x, p, q, told, lost, "none", st, ab),
         x.age = "over", q.status = "open", q2.status = "expired", q2.issued = q.issued
  PROVE  Story(a, x, p, q2, told, lost, "stamp", st, ab)
  OBVIOUS

LEMMA StampStory ==
  ASSUME NEW a, NEW x \in DocRec, NEW y \in DocRec, NEW p \in RowRec, NEW q \in RowRec, NEW told \in BOOLEAN,
         NEW lost \in BOOLEAN, NEW st \in BOOLEAN, NEW ab \in BOOLEAN,
         Story(a, x, p, q, told, lost, "stamp", st, ab), Leaves(x, y, {"order"}), y.order = "expired"
  PROVE  Story(a, y, p, q, told, lost, "none", st, ab)
  OBVIOUS

HIDE DEF Story, Early, Drafted, Lined, Lost, Ordered, Returned, Unmoved, Leaves, PassPc, HookPc, SeekPc, Seeking,
         DocRec, RowRec, NoRow, Live
\* The cases at hand, and the request under way.
LEMMA PlainlyIs ==
  ASSUME Plainly
  PROVE  /\ \A t \in {"overlap", "fault", "again", "hasty", "bought", "orderRefund"} : ~Allowed(t)
         /\ UNCHANGED case => Plainly'
  BY DEF Plainly, Only, Allowed

LEMMA NowIs ==
  ASSUME OneRequest, NEW s \in Slot,
         run[s].pc # "idle" \/ (run[s] = Idle /\ \A t \in Slot \ {s} : run[t].pc = "idle")
  PROVE  Now = run[s]
  BY DEF OneRequest, Busy, Quiet, Now, Idle

LEMMA NextNow ==
  ASSUME NEW s \in Slot, \A t \in Slot \ {s} : run'[t].pc = "idle", run'[s].pc # "idle" \/ run'[s] = Idle
  PROVE  Now' = run'[s]
  BY DEF Busy, Quiet, Now

LEMMA QuietNow ==
  ASSUME Quiet PROVE Now = Idle /\ (UNCHANGED run => Now' = Idle)
  BY DEF Now, Quiet, Busy

\* What the accounts of an advance go by.
LEMMA AccountIs ==
  ASSUME NEW r2, r2 = Now', HooksKnow', RunKnows(r2)',
         \A a \in Advance : StoryOf(a, r2)' /\ Billed(a, r2)' /\ Carried(a, r2)'
  PROVE  AccountInv'
  BY DEF RunKnows, StoryOf, Billed, Carried, Unspent, AccountInv

LEMMA StoryNext ==
  ASSUME NEW a \in Advance, NEW r, UNCHANGED case,
         Story(a, doc'[a], row'[a]["draft"], row'[a]["order"], HasTold(a)', HasLost(a)', Work(r, a),
               Allowed("stuck"), Allowed("abandon"))
  PROVE  StoryOf(a, r)'
  BY DEF Allowed, StoryOf, Story, Early, Drafted, Lined, Lost, Ordered, Returned

LEMMA StoryRests ==
  ASSUME NEW a \in Advance, NEW r, NEW r2, StoryOf(a, r), UNCHANGED case,
         HasTold(a)' = HasTold(a), HasLost(a)' = HasLost(a),
         doc'[a] = doc[a], row'[a] = row[a], Work(r2, a) = Work(r, a)
  PROVE  StoryOf(a, r2)'
  BY StoryNext DEF StoryOf

LEMMA StoryStays ==
  ASSUME NEW a \in Advance, NEW r, NEW r2, StoryOf(a, r), UNCHANGED <<case, hooks>>,
         doc'[a] = doc[a], row'[a] = row[a], Work(r2, a) = Work(r, a)
  PROVE  StoryOf(a, r2)'
  BY StoryNext DEF HasTold, HasLost, StoryOf

LEMMA BilledStays ==
  ASSUME NEW a \in Advance, NEW r, NEW r2, Billed(a, r), UNCHANGED case,
         \A d \in Doc : /\ doc'[d].legs[a] = doc[d].legs[a] /\ doc'[d].state = doc[d].state
                        /\ a \in doc'[d].tag <=> a \in doc[d].tag
                        /\ doc[d].legs[a] > 0 /\ Unspent(d, r) => Allowed("reject") \/ Unspent(d, r2)',
         doc'[a].order = doc[a].order, doc'[a].refunded = doc[a].refunded \/ doc[a].state = "draft",
         r.pc \in {"reserve", "tag"} /\ r.src = a =>
             r2.pc \in {"reserve", "tag"} /\ r2.d = r.d /\ r2.src = a
  PROVE  Billed(a, r2)'
  BY AdvanceAssumption DEF Allowed, Billed

LEMMA CarriedStays ==
  ASSUME NEW a \in Advance, NEW r, NEW r2, Carried(a, r), UNCHANGED case,
         \A d \in Doc : /\ doc'[d].legs[a] = doc[d].legs[a] /\ doc'[d].state = doc[d].state
                        /\ doc[d].legs[a] > 0 /\ Unspent(d, r) => Allowed("reject") \/ Unspent(d, r2)',
         doc'[a].order = doc[a].order, doc[a].piece => doc'[a].piece,
         \/ row'[a]["order"] = row[a]["order"] \/ row'[a]["order"].status # "applied"
         \/ row'[a]["order"].target \in Doc /\ doc'[row'[a]["order"].target].legs[a] > 0,
         doc[a].order = "applied" /\ (Unmoved(HasTold(a), Work(r, a)) \/ Work(r, a) = "settle") =>
             Unmoved(HasTold(a)', Work(r2, a)) \/ Work(r2, a) = "settle"
  PROVE  Carried(a, r2)'
  BY AdvanceAssumption DEF Allowed, Unmoved, Carried

\* A pass at work, alone, on a draft.
LEMMA PassHere ==
  ASSUME Typed, Plainly, OneRequest, AccountInv, NEW s \in Slot, run[s].pc \in PassPc, Step(s)
  PROVE  /\ run[s] \in PassRun /\ run[s].d \in Doc
         /\ doc[run[s].d] \in DocRec /\ doc[run[s].d].state = "draft"
         /\ run[s].pc \in {"gate", "absorb", "unconfirmed", "reserve", "tag", "reserveRow"} => run[s].src \in Advance
         /\ Now = run[s] /\ RunKnows(run[s]) /\ HooksKnow
         /\ \A a \in Advance : StoryOf(a, run[s]) /\ Billed(a, run[s]) /\ Carried(a, run[s])
         /\ \A t \in Slot \ {s} : run'[t].pc = "idle"
  BY NowIs, StepRuns, QuietOrOne, PassRunning DEF PassPc, AccountInv, RunKnows, Busy, Typed

SetAside == {"reserve", "tag", "reserveRow"}

\* A step of a pass on its own draft.
LEMMA ChainAccount ==
  ASSUME Typed, Plainly, OneRequest, AccountInv, NEW s \in Slot, Step(s), UNCHANGED <<case, hooks>>,
         run[s].pc \in PassPc \ SetAside,
         NEW r2, r2 = run'[s], r2 = Idle \/ (r2.pc \in PassPc \ SetAside /\ r2.d = run[s].d),
         \A e \in Doc \ {run[s].d} : doc'[e] = doc[e],
         \A b \in Advance \ {run[s].d} : row'[b] = row[b],
         \A b \in Advance : row'[b]["order"] = row[b]["order"],
         NEW y, y = doc'[run[s].d], NEW x, x = doc[run[s].d],
         y.state = "draft", y.piece = x.piece, y.tag = x.tag, y.legs = x.legs, y.order = x.order,
         NEW d, d = run[s].d,
         d \in Advance => Story(d, y, row'[d]["draft"], row[d]["order"], HasTold(d), HasLost(d), Work(r2, d),
                                Allowed("stuck"), Allowed("abandon")),
         y.refunded = x.refunded,
         RunKnows(r2)'
  PROVE  AccountInv'
<1>1. /\ d \in Doc /\ x.state = "draft" /\ HooksKnow
      /\ \A a \in Advance : StoryOf(a, run[s]) /\ Billed(a, run[s]) /\ Carried(a, run[s])
      /\ \A t \in Slot \ {s} : run'[t].pc = "idle"
  BY PassHere
<1>2. Now' = r2 BY <1>1, NextNow DEF PassPc
<1>3. \A e \in Doc : /\ doc'[e].state = doc[e].state /\ doc'[e].tag = doc[e].tag
                     /\ doc'[e].legs = doc[e].legs /\ doc'[e].piece = doc[e].piece
                     /\ doc'[e].order = doc[e].order /\ doc'[e].refunded = doc[e].refunded
  BY <1>1
<1>4. HooksKnow' BY <1>1, <1>3 DEF Typed, HookRec, HooksKnow
<1>5. HasTold(d)' = HasTold(d) /\ HasLost(d)' = HasLost(d) BY DEF HasTold, HasLost
<1>6. \A e \in Doc : Unspent(e, run[s]) => Unspent(e, r2)' BY DEF HasTold, Unspent, PassPc
<1>7. \A a \in Advance \ {d} : Work(run[s], a) = "none" /\ Work(r2, a) = "none" BY WorkIs DEF Idle, SetAside
<1>8. ASSUME NEW a \in Advance PROVE StoryOf(a, r2)' /\ Billed(a, r2)' /\ Carried(a, r2)'
  <2>0. a \in Doc BY AdvanceAssumption
  <2>1. Billed(a, r2)' BY <1>1, <1>3, <1>6, <2>0, BilledStays DEF SetAside
  <2>2. StoryOf(a, r2)' BY <1>5, StoryNext, <1>1, <1>7, <2>0, StoryStays
  <2>3. HasTold(a)' = HasTold(a) BY DEF HasTold
  <2>4. a # d /\ (Unmoved(HasTold(a), Work(run[s], a)) \/ Work(run[s], a) = "settle") =>
             Unmoved(HasTold(a)', Work(r2, a)) \/ Work(r2, a) = "settle"
    BY <1>7, <2>3 DEF Unmoved
  <2>5. a = d => doc[a].order = "none" BY <1>1 DEF StoryOf, Story, Early
  <2>6. Carried(a, r2)' BY <1>1, <1>3, <1>6, <2>0, <2>4, <2>5, CarriedStays
  <2> QED BY <2>1, <2>2, <2>6
<1> QED BY <1>2, <1>4, <1>8, AccountIs

\* What is said of the advance of a draft at its pass.
LEMMA PassSays ==
  ASSUME Typed, Plainly, OneRequest, AccountInv, NEW s \in Slot, run[s].pc \in PassPc, Step(s),
         NEW r, r = run[s], NEW d, d = run[s].d, NEW p, p = row[d]["draft"], NEW q, q = row[d]["order"],
         NEW told, told = HasTold(d), NEW lost, lost = HasLost(d),
         NEW st, st = Allowed("stuck"), NEW ab, ab = Allowed("abandon")
  PROVE  /\ d \in Advance => p \in RowRec /\ q \in RowRec /\ Story(d, doc[d], p, q, told, lost, r.pc, st, ab)
         /\ told \in BOOLEAN /\ lost \in BOOLEAN /\ st \in BOOLEAN /\ ab \in BOOLEAN
         /\ \A v : v.pc \in PassPc /\ v.d = d => Work(v, d) = v.pc
<1>1. r \in PassRun /\ d \in Doc /\ \A a \in Advance : StoryOf(a, r) BY PassHere
<1>2. \A v : v.pc \in PassPc /\ v.d = d => Work(v, d) = v.pc BY WorkIs
<1>3. Work(r, d) = r.pc BY <1>2
<1>4. d \in Advance => Story(d, doc[d], p, q, told, lost, r.pc, st, ab) BY <1>1, <1>3 DEF StoryOf
<1>5. d \in Advance => p \in RowRec /\ q \in RowRec BY DEF Typed, Name
<1>6. told \in BOOLEAN /\ lost \in BOOLEAN /\ st \in BOOLEAN /\ ab \in BOOLEAN BY DEF HasTold, HasLost, Allowed
<1> QED BY <1>2, <1>4, <1>5, <1>6

LEMMA DraftLeaves ==
  ASSUME Typed, NEW d \in Doc, doc[d].state = "draft", NEW r \in DocRec, Write(d, r)
  PROVE  /\ Leaves(r, doc'[d], {"dirty"}) /\ doc'[d].dirty /\ doc'[d] \in DocRec
         /\ doc'[d].tag = r.tag /\ doc'[d].legs = r.legs
         /\ \A e \in Doc \ {d} : doc'[e] = doc[e]
  BY DraftWritten DEF Leaves

LEMMA StatusLeaves ==
  ASSUME Typed, NEW d \in Doc, doc[d].state = "draft", NEW v \in Status,
         Write(d, [doc[d] EXCEPT !.status = v])
  PROVE  /\ Leaves(doc[d], doc'[d], {"status", "dirty"}) /\ doc'[d].status = v /\ doc'[d].dirty
         /\ doc'[d] \in DocRec /\ doc'[d].tag = doc[d].tag /\ doc'[d].legs = doc[d].legs
         /\ \A e \in Doc \ {d} : doc'[e] = doc[e]
  BY StatusWritten DEF Leaves

LEMMA LineLeaves ==
  ASSUME Typed, NEW d \in Doc, doc[d].state = "draft", Write(d, [doc[d] EXCEPT !.line = FALSE])
  PROVE  /\ Leaves(doc[d], doc'[d], {"line", "dirty"}) /\ ~doc'[d].line /\ doc'[d].dirty
         /\ doc'[d] \in DocRec /\ doc'[d].tag = doc[d].tag /\ doc'[d].legs = doc[d].legs
         /\ \A e \in Doc \ {d} : doc'[e] = doc[e]
<1>1. PICK r : r = [doc[d] EXCEPT !.line = FALSE] OBVIOUS
<1>2. r \in DocRec /\ doc[d] \in DocRec BY <1>1, FieldTyped
<1>3. Leaves(doc[d], r, {"line"}) /\ ~r.line /\ r.tag = doc[d].tag /\ r.legs = doc[d].legs
  BY <1>1, <1>2 DEF DocRec, Leaves
<1>4. Write(d, r) BY <1>1
<1>5. /\ Leaves(r, doc'[d], {"dirty"}) /\ doc'[d].dirty /\ doc'[d] \in DocRec
      /\ doc'[d].tag = r.tag /\ doc'[d].legs = r.legs
      /\ \A e \in Doc \ {d} : doc'[e] = doc[e]
  BY <1>2, <1>4, DraftLeaves
<1> QED BY <1>3, <1>5 DEF Leaves

LEMMA RefLeaves ==
  ASSUME Typed, NEW d \in Doc, doc[d].state = "draft", NEW v \in Advance \cup {None},
         Write(d, [doc[d] EXCEPT !.ref = v])
  PROVE  /\ Leaves(doc[d], doc'[d], {"dirty"}) /\ doc'[d].dirty
         /\ doc'[d] \in DocRec /\ doc'[d].tag = doc[d].tag /\ doc'[d].legs = doc[d].legs
         /\ \A e \in Doc \ {d} : doc'[e] = doc[e]
<1>1. PICK r : r = [doc[d] EXCEPT !.ref = v] OBVIOUS
<1>2. r \in DocRec /\ doc[d] \in DocRec BY <1>1, FieldTyped, ValueTyped
<1>3. Leaves(doc[d], r, {}) /\ r.tag = doc[d].tag /\ r.legs = doc[d].legs BY <1>1, <1>2 DEF DocRec, Leaves
<1>4. Write(d, r) BY <1>1
<1>5. /\ Leaves(r, doc'[d], {"dirty"}) /\ doc'[d].dirty /\ doc'[d] \in DocRec
      /\ doc'[d].tag = r.tag /\ doc'[d].legs = r.legs
      /\ \A e \in Doc \ {d} : doc'[e] = doc[e]
  BY <1>2, <1>4, DraftLeaves
<1> QED BY <1>3, <1>5 DEF Leaves

Restates(a, n, st) == row' = [row EXCEPT ![a][n].status = st]

LEMMA RestateWrites ==
  ASSUME Typed, NEW a, NEW n \in Name, NEW st, Restates(a, n, st)
  PROVE  /\ \A b \in Advance \ {a} : row'[b] = row[b]
         /\ \A m \in Name \ {n} : \A b \in Advance : row'[b][m] = row[b][m]
         /\ a \in Advance => /\ row'[a][n].status = st
                             /\ row'[a][n].target = row[a][n].target /\ row'[a][n].issued = row[a][n].issued
  BY StatusWrites DEF Restates

\* Money has landed for the line.
LEMMA CaptureAccount ==
  ASSUME Typed, Plainly, OneRequest, AccountInv, NEW s \in Slot, Capture(s) \/ Issue(s) PROVE AccountInv'
<1>0. run[s].pc \in PassPc \ SetAside /\ UNCHANGED <<case, hooks>> /\ Step(s)
  BY DEF Capture, Captures, Issue, Handling, Step, PassPc, SetAside
<1>1. PICK r, r2, d, x, y : r = run[s] /\ r2 = run'[s] /\ d = run[s].d /\ x = doc[d] /\ y = doc'[d] OBVIOUS
<1>2. PICK p, q, told, lost, st, ab :
         /\ p = row[d]["draft"] /\ q = row[d]["order"] /\ told = HasTold(d) /\ lost = HasLost(d)
         /\ st = Allowed("stuck") /\ ab = Allowed("abandon")
  OBVIOUS
<1>3. r \in PassRun /\ d \in Doc /\ x \in DocRec /\ x.state = "draft" /\ RunKnows(r) BY <1>0, <1>1, PassHere
<1>4. /\ d \in Advance => p \in RowRec /\ q \in RowRec /\ Story(d, x, p, q, told, lost, r.pc, st, ab)
      /\ told \in BOOLEAN /\ lost \in BOOLEAN /\ st \in BOOLEAN /\ ab \in BOOLEAN
      /\ \A v : v.pc \in PassPc /\ v.d = d => Work(v, d) = v.pc
  BY <1>0, <1>1, <1>2, PassSays
<1>5. r.line = x.line /\ r.piece = x.piece /\ r.tag = x.tag BY <1>0, <1>1, <1>3 DEF RunKnows, Capture, Captures, Issue, PassPc
<1>6. CASE Capture(s)
  <2>0. r.pc = "capture" BY <1>1, <1>6 DEF Capture, Captures
  <2>1. CASE x.line /\ x.status = "none" /\ x.paid
    <3>1. Write(d, [doc[d] EXCEPT !.status = "open"]) /\ Goto(s, "issue") /\ UNCHANGED row
      BY <1>1, <1>3, <1>5, <1>6, <2>1 DEF Capture, Captures
    <3>2. "open" \in Status BY DEF Status
    <3>3. /\ Leaves(x, y, {"status", "dirty"}) /\ y.status = "open" /\ y.dirty /\ y \in DocRec
          /\ y.tag = x.tag /\ y.legs = x.legs /\ \A e \in Doc \ {d} : doc'[e] = doc[e]
      BY <1>1, <1>3, <3>1, <3>2, StatusLeaves
    <3>4. r2.pc = "issue" /\ r2.d = d /\ r2.line = r.line /\ r2.piece = r.piece /\ r2.tag = r.tag
      BY <1>1, <1>3, <3>1, GoesOn
    <3>5. d \in Advance => Story(d, y, p, q, told, lost, "issue", st, ab)
      BY <1>3, <1>4, <2>0, <2>1, <3>3, CaptureStory
    <3>6. y.state = "draft" /\ y.piece = x.piece /\ y.order = x.order /\ y.refunded = x.refunded /\ y.line = x.line
      BY <1>3, <3>3 DEF Leaves
    <3>7. RunKnows(r2)' BY <1>1, <1>5, <3>3, <3>4, <3>6 DEF RunKnows, HookPc
    <3> QED BY <1>0, <1>1, <1>2, <1>3, <1>4, <3>1, <3>3, <3>4, <3>5, <3>6, <3>7, ChainAccount DEF PassPc, SetAside
  <2>2. CASE ~(x.line /\ x.status = "none" /\ x.paid)
    <3>1. UNCHANGED doc /\ Goto(s, "line") /\ UNCHANGED row BY <1>1, <1>3, <1>5, <1>6, <2>2 DEF Capture, Captures
    <3>2. r2.pc = "line" /\ r2.d = d /\ r2.line = r.line /\ r2.piece = r.piece /\ r2.tag = r.tag
      BY <1>1, <1>3, <3>1, GoesOn
    <3>3. d \in Advance => Story(d, x, p, q, told, lost, "line", st, ab)
      BY <1>3, <1>4, <2>0, <2>2, NoCaptureStory
    <3>4. RunKnows(r2)' BY <1>1, <1>3, <1>5, <3>1, <3>2 DEF RunKnows, HookPc
    <3> QED BY <1>0, <1>1, <1>2, <1>3, <1>4, <3>1, <3>2, <3>3, <3>4, ChainAccount DEF PassPc, SetAside
  <2> QED BY <2>1, <2>2
<1>7. CASE Issue(s)
  <2>1. r.pc = "issue" /\ UpsertIssued(d) /\ Goto(s, "line") /\ UNCHANGED doc BY <1>1, <1>7 DEF Issue
  <2>2. r2.pc = "line" /\ r2.d = d /\ r2.line = r.line /\ r2.piece = r.piece /\ r2.tag = r.tag
    BY <1>1, <1>3, <2>1, GoesOn
  <2>3. /\ \A b \in Advance \ {d} : row'[b] = row[b]
        /\ \A b \in Advance : row'[b]["order"] = row[b]["order"]
    BY <2>1, IssueWrites
  <2>4. PICK v : v = [status |-> "open", target |-> None, issued |-> TRUE] OBVIOUS
  <2>5. v \in RowRec /\ v.status = "open" /\ v.issued BY <2>4 DEF RowRec, RowStatus, Status
  <2>6. d \in Advance => row'[d]["draft"] = v
    <3>1. d \in Advance => p.status = "none" BY <1>4, <2>1 DEF Story, Early, NoRow
    <3>2. d \in Advance => row' = [row EXCEPT ![d]["draft"] = v] BY <1>2, <2>1, <2>4, <3>1 DEF UpsertIssued
    <3> QED BY <3>2, OneRow DEF Name
  <2>7. d \in Advance => Story(d, x, v, q, told, lost, "line", st, ab)
    BY <1>3, <1>4, <2>1, <2>5, IssueStory
  <2>8. RunKnows(r2)' BY <1>1, <1>3, <1>5, <2>1, <2>2 DEF RunKnows, HookPc
  <2> QED BY <1>0, <1>1, <1>2, <1>3, <1>4, <2>1, <2>2, <2>3, <2>6, <2>7, <2>8, ChainAccount DEF PassPc, SetAside
<1> QED BY <1>6, <1>7

\* The piece is the bill, the advance a payment.
LEMMA CommitAccount ==
  ASSUME Typed, Plainly, OneRequest, AccountInv, NEW s \in Slot, RemoveLine(s) \/ Commit(s) \/ CommitRow(s)
  PROVE  AccountInv'
<1>0. run[s].pc \in PassPc \ SetAside /\ UNCHANGED <<case, hooks>> /\ Step(s)
  BY DEF RemoveLine, Commit, CommitRow, Handling, Step, PassPc, SetAside
<1>1. PICK r, r2, d, x, y : r = run[s] /\ r2 = run'[s] /\ d = run[s].d /\ x = doc[d] /\ y = doc'[d] OBVIOUS
<1>2. PICK p, q, told, lost, st, ab :
         /\ p = row[d]["draft"] /\ q = row[d]["order"] /\ told = HasTold(d) /\ lost = HasLost(d)
         /\ st = Allowed("stuck") /\ ab = Allowed("abandon")
  OBVIOUS
<1>3. r \in PassRun /\ d \in Doc /\ x \in DocRec /\ x.state = "draft" /\ RunKnows(r) BY <1>0, <1>1, PassHere
<1>4. /\ d \in Advance => p \in RowRec /\ q \in RowRec /\ Story(d, x, p, q, told, lost, r.pc, st, ab)
      /\ told \in BOOLEAN /\ lost \in BOOLEAN /\ st \in BOOLEAN /\ ab \in BOOLEAN
      /\ \A v : v.pc \in PassPc /\ v.d = d => Work(v, d) = v.pc
  BY <1>0, <1>1, <1>2, PassSays
<1>5. r.tag = x.tag BY <1>0, <1>1, <1>3 DEF RunKnows, RemoveLine, Commit, CommitRow, PassPc
<1>6. CASE RemoveLine(s)
  <2>0. r.pc = "line" /\ r.line = x.line /\ r.piece = x.piece BY <1>1, <1>3, <1>6 DEF RemoveLine, RunKnows
  <2>1. CASE x.line /\ x.piece /\ x.status # "none"
    BY <1>1, <1>3, <1>6, <2>0, <2>1, LineLeaves, GoesOn, <1>4, RemoveLineStory, <1>5, <1>0, <1>2, ChainAccount DEF
       RemoveLine, Leaves, RunKnows, HookPc, PassPc, SetAside
  <2>2. CASE ~(x.line /\ x.piece /\ x.status # "none")
    <3>1. UNCHANGED doc /\ Goto(s, "redeem") /\ UNCHANGED row BY <1>1, <1>3, <1>6, <2>0, <2>2 DEF RemoveLine
    <3>2. r2.pc = "redeem" /\ r2.d = d /\ r2.tag = r.tag BY <1>1, <1>3, <3>1, GoesOn
    <3>3. d \in Advance => Story(d, x, p, q, told, lost, "redeem", st, ab)
      BY <1>3, <1>4, <2>0, <2>2, KeepLineStory
    <3>4. RunKnows(r2)' BY <1>1, <1>3, <1>5, <3>1, <3>2 DEF RunKnows, HookPc
    <3> QED BY <1>0, <1>1, <1>2, <1>3, <1>4, <3>1, <3>2, <3>3, <3>4, ChainAccount DEF PassPc, SetAside
  <2> QED BY <2>1, <2>2
<1>7. CASE Commit(s)
  <2>1. /\ r.pc = "commit" /\ Write(d, [doc[d] EXCEPT !.status = "applied"]) /\ Goto(s, "commitRow")
        /\ UNCHANGED row
    BY <1>1, <1>7 DEF Commit
  <2>2. "applied" \in Status BY DEF Status
  <2>3. /\ Leaves(x, y, {"status", "dirty"}) /\ y.status = "applied" /\ y.dirty /\ y \in DocRec
        /\ y.tag = x.tag /\ y.legs = x.legs /\ \A e \in Doc \ {d} : doc'[e] = doc[e]
    BY <1>1, <1>3, <2>1, <2>2, StatusLeaves
  <2>4. r2.pc = "commitRow" /\ r2.d = d /\ r2.tag = r.tag BY <1>1, <1>3, <2>1, GoesOn
  <2>5. d \in Advance => Story(d, y, p, q, told, lost, "commitRow", st, ab)
    BY <1>3, <1>4, <2>1, <2>3, CommitStory
  <2>6. y.state = "draft" /\ y.piece = x.piece /\ y.order = x.order /\ y.refunded = x.refunded
    BY <1>3, <2>3 DEF Leaves
  <2>7. RunKnows(r2)' BY <1>1, <1>5, <2>3, <2>4, <2>6 DEF RunKnows, HookPc
  <2> QED BY <1>0, <1>1, <1>2, <1>3, <1>4, <2>1, <2>3, <2>4, <2>5, <2>6, <2>7, ChainAccount DEF PassPc, SetAside
<1>8. CASE CommitRow(s)
  <2>1. r.pc = "commitRow" /\ Apply(d, "draft", d) /\ Goto(s, "redeem") /\ UNCHANGED doc
    BY <1>1, <1>8 DEF CommitRow
  <2>2. r2.pc = "redeem" /\ r2.d = d /\ r2.tag = r.tag BY <1>1, <1>3, <2>1, GoesOn
  <2>3. "draft" \in Name /\ "order" \in Name \ {"draft"} BY DEF Name
  <2>4. Retargets(d, "draft", d, "applied") BY <2>1 DEF Apply, Retargets
  <2>5. PICK p2 : p2 = row'[d]["draft"] OBVIOUS
  <2>6. /\ \A b \in Advance \ {d} : row'[b] = row[b]
        /\ \A b \in Advance : row'[b]["order"] = row[b]["order"]
        /\ d \in Advance => p2.status = "applied" /\ p2.target = d /\ p2.issued = p.issued
    BY <1>2, <2>3, <2>4, <2>5, TargetWrites
  <2>7. d \in Advance => p2 \in RowRec BY <1>3, <2>1, <2>3, RowTyped, <2>5
  <2>8. d \in Advance => Story(d, x, p2, q, told, lost, "redeem", st, ab)
    BY <1>3, <1>4, <2>1, <2>6, <2>7, CommitRowStory
  <2>9. RunKnows(r2)' BY <1>1, <1>3, <1>5, <2>1, <2>2 DEF RunKnows, HookPc
  <2> QED BY <1>0, <1>1, <1>2, <1>3, <1>4, <2>1, <2>2, <2>5, <2>6, <2>8, <2>9, ChainAccount DEF PassPc, SetAside
<1> QED BY <1>6, <1>7, <1>8

\* A step that seeks an advance for the draft's bill.
LEMMA SeekAccount ==
  ASSUME Typed, Plainly, OneRequest, AccountInv, NEW s \in Slot, Step(s), UNCHANGED <<case, row, hooks>>,
         run[s].pc \in SeekPc \ SetAside,
         NEW r2, r2 = run'[s], r2.pc \in (SeekPc \cup {"refund"}) \ SetAside, r2.d = run[s].d,
         \A e \in Doc \ {run[s].d} : doc'[e] = doc[e],
         NEW y, y = doc'[run[s].d], NEW x, x = doc[run[s].d],
         y \in DocRec, Leaves(x, y, {"dirty"}), x.dirty => y.dirty, y.tag = x.tag, y.legs = x.legs,
         RunKnows(r2)'
  PROVE  AccountInv'
<1>0. run[s].pc \in PassPc \ SetAside /\ r2.pc \in PassPc \ SetAside BY DEF SeekPc, PassPc, SetAside
<1>1. PICK r, d : r = run[s] /\ d = run[s].d OBVIOUS
<1>2. PICK p, q, told, lost, st, ab :
         /\ p = row[d]["draft"] /\ q = row[d]["order"] /\ told = HasTold(d) /\ lost = HasLost(d)
         /\ st = Allowed("stuck") /\ ab = Allowed("abandon")
  OBVIOUS
<1>3. r \in PassRun /\ d \in Doc /\ x \in DocRec /\ x.state = "draft" BY <1>0, <1>1, PassHere
<1>4. /\ d \in Advance => p \in RowRec /\ q \in RowRec /\ Story(d, x, p, q, told, lost, r.pc, st, ab)
      /\ told \in BOOLEAN /\ lost \in BOOLEAN /\ st \in BOOLEAN /\ ab \in BOOLEAN
      /\ \A v : v.pc \in PassPc /\ v.d = d => Work(v, d) = v.pc
  BY <1>0, <1>1, <1>2, PassSays
<1>5. PICK w, v : w = r.pc /\ v = r2.pc OBVIOUS
<1>6. w \in Seeking /\ v \in Seeking BY <1>1, <1>5 DEF Seeking
<1>7. ASSUME d \in Advance PROVE Story(d, y, p, q, told, lost, v, st, ab) BY <1>4, <1>5, <1>7, <1>3, <1>6, AlikeStory
<1>8. y.state = "draft" /\ y.piece = x.piece /\ y.order = x.order /\ y.refunded = x.refunded
  BY <1>3 DEF Leaves
<1>9. Work(r2, d) = v BY <1>0, <1>1, <1>4, <1>5
<1>10. d \in Advance => Story(d, y, row'[d]["draft"], row[d]["order"], HasTold(d), HasLost(d), Work(r2, d),
                              Allowed("stuck"), Allowed("abandon"))
  BY <1>2, <1>7, <1>9
<1> QED BY <1>0, <1>1, <1>8, <1>10, ChainAccount

\* The reference is read, and the order behind it.
LEMMA GateAccount ==
  ASSUME Typed, Plainly, OneRequest, AccountInv, NEW s \in Slot, ReadRef(s) \/ Gate(s) PROVE AccountInv'
<1>0. run[s].pc \in SeekPc \ SetAside /\ run[s].pc \in PassPc /\ UNCHANGED <<case, doc, row, hooks>> /\ Step(s)
  BY DEF ReadRef, Gate, Handling, Step, PassPc, SetAside, SeekPc
<1>1. PICK r, r2, d, x : r = run[s] /\ r2 = run'[s] /\ d = run[s].d /\ x = doc[d] OBVIOUS
<1>2. r \in PassRun /\ d \in Doc /\ x \in DocRec /\ x.state = "draft" /\ RunKnows(r) BY <1>0, <1>1, PassHere
<1>3. r.tag = x.tag BY <1>0, <1>1, <1>2 DEF RunKnows, ReadRef, Gate, PassPc
<1>4. Leaves(x, x, {"dirty"}) /\ doc'[d] = x BY <1>0, <1>1 DEF Leaves
<1>5. SUFFICES r2.pc \in (SeekPc \cup {"refund"}) \ SetAside /\ r2.d = d /\ RunKnows(r2)'
  BY <1>0, <1>1, <1>2, <1>4, SeekAccount
<1>6. CASE ReadRef(s)
  <2>1. CASE \E pc \in {"refund", "clear"} : Goto(s, pc)
    BY <1>1, <1>2, <2>1, GoesOn, <1>0 DEF RunKnows, PassPc, HookPc, SeekPc, SetAside
  <2>2. CASE /\ run' = [run EXCEPT ![s].pc = "gate", ![s].src = x.ref, ![s].read = x.legs[x.ref]]
             /\ r.tag = {}
    <3>1. PICK m : m = [run[s] EXCEPT !.pc = "gate", !.src = x.ref, !.read = x.legs[x.ref]] OBVIOUS
    <3>2. r2 = m BY <1>1, <2>2, <3>1 DEF Typed
    <3>3. m.pc = "gate" /\ m.d = d /\ m.tag = {} BY <1>1, <1>2, <2>2, <3>1 DEF PassRun
    <3>4. r2.pc = "gate" /\ r2.d = d /\ r2.tag = {} BY <3>2, <3>3
    <3>5. doc'[d].state = "draft" /\ doc'[d].tag = {} BY <1>0, <1>1, <1>2, <1>3, <2>2
    <3> QED BY <3>4, <3>5 DEF RunKnows, PassPc, HookPc, SeekPc, SetAside
  <2> QED BY <1>1, <1>6, <2>1, <2>2 DEF ReadRef
<1>7. CASE Gate(s) BY <1>1, <1>2, <1>7, GoesOn, <1>0, <1>3 DEF Gate, RunKnows, PassPc, HookPc, SeekPc, SetAside
<1> QED BY <1>6, <1>7

\* A write Shopify rejected is read back, a reference goes.
LEMMA ClearAccount ==
  ASSUME Typed, Plainly, OneRequest, AccountInv, NEW s \in Slot, Unconfirmed(s) \/ Clear(s) PROVE AccountInv'
<1>0. /\ run[s].pc \in SeekPc \ SetAside /\ run[s].pc \in PassPc /\ UNCHANGED <<case, row, hooks>> /\ Step(s)
      /\ Goto(s, "refund")
  BY DEF Unconfirmed, Clear, Handling, Step, PassPc, SetAside, SeekPc
<1>1. PICK r, r2, d, x, y : r = run[s] /\ r2 = run'[s] /\ d = run[s].d /\ x = doc[d] /\ y = doc'[d] OBVIOUS
<1>2. r \in PassRun /\ d \in Doc /\ x \in DocRec /\ x.state = "draft" /\ RunKnows(r) BY <1>0, <1>1, PassHere
<1>3. /\ Leaves(x, y, {"dirty"}) /\ y.dirty /\ y \in DocRec /\ y.tag = x.tag /\ y.legs = x.legs
      /\ \A e \in Doc \ {d} : doc'[e] = doc[e]
  BY <1>1, <1>2, DraftLeaves, RefLeaves DEF Unconfirmed, Clear
<1>4. r2.pc = "refund" /\ r2.d = d BY <1>0, <1>1, <1>2, GoesOn
<1>5. RunKnows(r2)' BY <1>2, <1>3, <1>1, <1>4 DEF Leaves, RunKnows, PassPc, HookPc
<1>6. r2.pc \in (SeekPc \cup {"refund"}) \ SetAside BY <1>4 DEF SetAside
<1> QED BY <1>0, <1>1, <1>3, <1>4, <1>5, <1>6, SeekAccount

\* The money is given back.
LEMMA RefundAccount ==
  ASSUME Typed, Plainly, OneRequest, AccountInv, NEW s \in Slot, Refund(s) \/ Close(s) PROVE AccountInv'
<1>0. run[s].pc \in PassPc \ SetAside /\ UNCHANGED <<case, hooks>> /\ Step(s)
  BY DEF Refund, Refunds, Close, Handling, Step, PassPc, SetAside
<1>1. PICK r, r2, d, x, y : r = run[s] /\ r2 = run'[s] /\ d = run[s].d /\ x = doc[d] /\ y = doc'[d] OBVIOUS
<1>2. PICK p, q, told, lost, st, ab :
         /\ p = row[d]["draft"] /\ q = row[d]["order"] /\ told = HasTold(d) /\ lost = HasLost(d)
         /\ st = Allowed("stuck") /\ ab = Allowed("abandon")
  OBVIOUS
<1>3. r \in PassRun /\ d \in Doc /\ x \in DocRec /\ x.state = "draft" BY <1>0, <1>1, PassHere
<1>4. /\ d \in Advance => p \in RowRec /\ q \in RowRec /\ Story(d, x, p, q, told, lost, r.pc, st, ab)
      /\ told \in BOOLEAN /\ lost \in BOOLEAN /\ st \in BOOLEAN /\ ab \in BOOLEAN
      /\ \A v : v.pc \in PassPc /\ v.d = d => Work(v, d) = v.pc
  BY <1>0, <1>1, <1>2, PassSays
<1>5. Work(Idle, d) = "none" /\ RunKnows(Idle)' BY WorkIs DEF Idle, RunKnows, PassPc, HookPc
<1>6. CASE Refund(s)
  <2>0. r.pc = "refund" BY <1>1, <1>6 DEF Refund, Refunds
  <2>1. CASE x.status \in Live /\ x.refunded
    <3>1. Write(d, [doc[d] EXCEPT !.status = "refunded"]) /\ Goto(s, "close") /\ UNCHANGED row
      BY <1>1, <1>3, <1>6, <2>1 DEF Refund, Refunds
    <3>2. "refunded" \in Status BY DEF Status
    <3>3. /\ Leaves(x, y, {"status", "dirty"}) /\ y.status = "refunded" /\ y.dirty /\ y \in DocRec
          /\ y.tag = x.tag /\ y.legs = x.legs /\ \A e \in Doc \ {d} : doc'[e] = doc[e]
      BY <1>1, <1>3, <3>1, <3>2, StatusLeaves
    <3>4. r2.pc = "close" /\ r2.d = d BY <1>1, <1>3, <3>1, GoesOn
    <3>5. d \in Advance => Story(d, y, p, q, told, lost, "close", st, ab)
      BY <1>3, <1>4, <2>0, <2>1, <3>3, RefundStory
    <3>6. y.state = "draft" /\ y.piece = x.piece /\ y.order = x.order /\ y.refunded = x.refunded
      BY <1>3, <3>3 DEF Leaves
    <3>7. RunKnows(r2)' BY <1>1, <3>4, <3>6 DEF RunKnows, HookPc
    <3> QED BY <1>0, <1>1, <1>2, <1>3, <1>4, <3>1, <3>3, <3>4, <3>5, <3>6, <3>7, ChainAccount DEF PassPc, SetAside
  <2>2. CASE ~(x.status \in Live /\ x.refunded)
    BY <1>1, <1>3, <1>6, <2>2, <1>4, <2>0, NoRefundStory, <1>0, <1>2, <1>5, ChainAccount DEF Refund, Refunds, Done, Typed
  <2> QED BY <2>1, <2>2
<1>7. CASE Close(s)
  <2>1. r.pc = "close" /\ CloseInstrument(d, "draft", "refunded") /\ Done(s) /\ UNCHANGED doc
    BY <1>1, <1>7 DEF Close
  <2>2. r2 = Idle BY <1>1, <2>1 DEF Done, Typed
  <2>3. "draft" \in Name /\ "order" \in Name \ {"draft"} BY DEF Name
  <2>4. PICK p2 : p2 = row'[d]["draft"] OBVIOUS
  <2>5. /\ \A b \in Advance \ {d} : row'[b] = row[b]
        /\ \A b \in Advance : row'[b]["order"] = row[b]["order"]
        /\ d \in Advance => /\ p2.status = IF p.status \in Live THEN "refunded" ELSE p.status
                            /\ p2.target = p.target /\ p2.issued = p.issued
    <3>1. CASE p.status \in Live
      <4>1. Restates(d, "draft", "refunded") BY <1>2, <2>1, <3>1 DEF CloseInstrument, Restates
      <4>2. /\ \A b \in Advance \ {d} : row'[b] = row[b]
            /\ \A b \in Advance : row'[b]["order"] = row[b]["order"]
            /\ d \in Advance => p2.status = "refunded" /\ p2.target = p.target /\ p2.issued = p.issued
        BY <1>2, <2>3, <2>4, <4>1, RestateWrites
      <4> QED BY <3>1, <4>2
    <3>2. CASE p.status \notin Live BY <1>2, <2>1, <3>2, <2>4 DEF CloseInstrument
    <3> QED BY <3>1, <3>2
  <2>6. d \in Advance => p2 \in RowRec BY <1>3, <2>1, <2>3, RowTyped, <2>4 DEF RowStatus, Status
  <2>7. d \in Advance => Story(d, x, p2, q, told, lost, "none", st, ab)
    BY <1>3, <1>4, <2>1, <2>5, <2>6, CloseStory
  <2> QED BY <1>0, <1>1, <1>2, <1>3, <1>5, <2>1, <2>2, <2>4, <2>5, <2>7, ChainAccount
<1> QED BY <1>6, <1>7

\* What a step that changes no webhook leaves of what is known.
LEMMA HooksStill ==
  ASSUME Typed, HooksKnow, UNCHANGED hooks,
         \A e \in Doc : /\ doc'[e].state = doc[e].state /\ doc'[e].piece = doc[e].piece
                        /\ doc'[e].tag = doc[e].tag
  PROVE  HooksKnow'
  BY DEF Typed, HookRec, HooksKnow

LEMMA UnspentStays ==
  ASSUME UNCHANGED hooks, NEW r, NEW r2, r.pc \notin {"copy", "spend"} PROVE \A e : Unspent(e, r) => Unspent(e, r2)'
  BY DEF HasTold, Unspent

\* What an order is told of its advance.
LEMMA OrderLeaves ==
  ASSUME Typed, NEW b \in Doc, NEW v \in Status, OnOrder(b, v)
  PROVE  /\ \A e \in Doc \ {b} : doc'[e] = doc[e]
         /\ Leaves(doc[b], doc'[b], {"order"}) /\ doc'[b].order = v /\ doc'[b] \in DocRec
         /\ doc'[b].tag = doc[b].tag /\ doc'[b].legs = doc[b].legs
<1>1. (\A e \in Doc \ {b} : doc'[e] = doc[e]) /\ doc'[b] = [doc[b] EXCEPT !.order = v] /\ doc'[b] \in DocRec BY OrderIs
<1>2. PICK x, y : x = doc[b] /\ y = doc'[b] OBVIOUS
<1>3. x \in DocRec BY <1>2 DEF Typed
<1>4. Leaves(x, y, {"order"}) /\ y.order = v /\ y.tag = x.tag /\ y.legs = x.legs BY <1>1, <1>2, <1>3 DEF DocRec, Leaves
<1> QED BY <1>1, <1>2, <1>4

\* One leg more on the draft's bill.
LEMMA LegLeaves ==
  ASSUME Typed, NEW s \in Slot, run[s].pc = "absorb", NEW d \in Doc, d = run[s].d, doc[d].state = "draft",
         Write(d, Leg(s))
  PROVE  /\ Leaves(doc[d], doc'[d], {"dirty"}) /\ doc'[d].dirty /\ doc'[d] \in DocRec /\ doc'[d].tag = doc[d].tag
         /\ \A b \in Advance \ {run[s].src} : doc'[d].legs[b] = doc[d].legs[b]
         /\ run[s].src \in Advance /\ doc'[d].legs[run[s].src] > 0
         /\ \A e \in Doc \ {d} : doc'[e] = doc[e]
<1>1. run[s].src \in Advance /\ doc[d] \in DocRec BY PassRunning DEF Typed, PassPc
<1>2. PICK x, y, c : x = doc[d] /\ y = doc'[d] /\ c = run[s].src OBVIOUS
<1>3. PICK m : m = Least(run[s].read + 1, MaxLegs) OBVIOUS
<1>4. m \in 1..MaxLegs /\ Leg(s) \in DocRec BY <1>3, LegTyped
<1>5. PICK l : l = [x.legs EXCEPT ![c] = m] OBVIOUS
<1>6. (\A b \in Advance \ {c} : l[b] = x.legs[b]) /\ l[c] > 0 BY <1>4, <1>1, <1>2, <1>5 DEF DocRec
<1>7. PICK z : z = Leg(s) OBVIOUS
<1>8. Leaves(x, z, {}) /\ z.tag = x.tag /\ z.legs = l BY <1>2, <1>3, <1>5, <1>7, LegTyped, <1>1 DEF DocRec, Leaves
<1>9. /\ Leaves(z, y, {"dirty"}) /\ y.dirty /\ y \in DocRec /\ y.tag = z.tag /\ y.legs = z.legs
      /\ \A e \in Doc \ {d} : doc'[e] = doc[e]
  BY <1>2, <1>4, <1>7, DraftLeaves
<1>10. Leaves(x, y, {"dirty"}) BY <1>8, <1>9 DEF Leaves
<1> QED BY <1>1, <1>2, <1>6, <1>8, <1>9, <1>10

\* The order of an advance that is open, or reserved, or spent.
LEMMA OrderOf ==
  ASSUME NEW a \in Advance, NEW r, StoryOf(a, r), doc[a].order # "none"
  PROVE  /\ doc[a].state = "order" /\ a \in Doc /\ ~HasTold(a)
         /\ doc[a].order # "refunded" => ~doc[a].refunded
<1>1. PICK x : x = doc[a] OBVIOUS
<1>2. Story(a, x, row[a]["draft"], row[a]["order"], HasTold(a), HasLost(a), Work(r, a),
            Allowed("stuck"), Allowed("abandon"))
  BY <1>1 DEF StoryOf
<1>3. x.state = "order" /\ ~HasTold(a) BY <1>1, <1>2 DEF Story, Early, Ordered
<1>4. x.order # "refunded" => ~x.refunded BY <1>1, <1>2, <1>3 DEF Story, Returned
<1> QED BY <1>1, <1>3, <1>4, AdvanceAssumption

\* The draft's own advance, where a pass seeks another.
LEMMA SeekingStory ==
  ASSUME Typed, Plainly, OneRequest, AccountInv, NEW s \in Slot, Step(s), UNCHANGED <<case, hooks>>,
         run[s].pc \in SeekPc,
         NEW r2, r2 = run'[s], r2.pc \in Seeking, NEW d, d = run[s].d, r2.d = d, d \in Advance,
         row'[d] = row[d], NEW x, x = doc[d], NEW y, y = doc'[d],
         y \in DocRec, Leaves(x, y, {"dirty"}), x.dirty => y.dirty
  PROVE  StoryOf(d, r2)'
<1>0. run[s].pc \in PassPc /\ r2.pc \in PassPc /\ run[s].pc \in Seeking BY DEF SeekPc, PassPc, Seeking
<1>1. PICK r : r = run[s] OBVIOUS
<1>2. PICK p, q, told, lost, st, ab :
         /\ p = row[d]["draft"] /\ q = row[d]["order"] /\ told = HasTold(d) /\ lost = HasLost(d)
         /\ st = Allowed("stuck") /\ ab = Allowed("abandon")
  OBVIOUS
<1>3. x \in DocRec /\ x.state = "draft" BY <1>0, PassHere
<1>4. /\ p \in RowRec /\ q \in RowRec /\ Story(d, x, p, q, told, lost, r.pc, st, ab)
      /\ told \in BOOLEAN /\ lost \in BOOLEAN /\ st \in BOOLEAN /\ ab \in BOOLEAN
      /\ \A v : v.pc \in PassPc /\ v.d = d => Work(v, d) = v.pc
  BY <1>0, <1>1, <1>2, PassSays
<1>5. PICK w, v : w = r.pc /\ v = r2.pc OBVIOUS
<1>6. w \in Seeking /\ v \in Seeking /\ Story(d, x, p, q, told, lost, w, st, ab) BY <1>0, <1>1, <1>4, <1>5
<1>7. Story(d, y, p, q, told, lost, v, st, ab) BY <1>3, <1>4, <1>6, AlikeStory
<1>8. Work(r2, d) = v BY <1>0, <1>4, <1>5
<1>9. HasTold(d)' = told /\ HasLost(d)' = lost BY <1>2 DEF HasTold, HasLost
<1>10. Story(d, doc'[d], row'[d]["draft"], row'[d]["order"], HasTold(d)', HasLost(d)', Work(r2, d),
             Allowed("stuck"), Allowed("abandon"))
  BY <1>2, <1>7, <1>8, <1>9
<1> QED BY <1>10, StoryNext

\* An advance the gate let through becomes a leg of the draft's bill.
LEMMA AbsorbAccount ==
  ASSUME Typed, Plainly, OneRequest, AccountInv, NEW s \in Slot, Absorb(s) PROVE AccountInv'
<1>0. /\ run[s].pc = "absorb" /\ run[s].pc \in SeekPc /\ run[s].pc \in PassPc
      /\ UNCHANGED <<case, row, hooks>> /\ Step(s)
  BY DEF Absorb, Step, PassPc, SeekPc
<1>1. PICK r, r2, d, c : r = run[s] /\ r2 = run'[s] /\ d = run[s].d /\ c = run[s].src OBVIOUS
<1>2. /\ r \in PassRun /\ d \in Doc /\ doc[d] \in DocRec /\ doc[d].state = "draft" /\ c \in Advance
      /\ RunKnows(r) /\ HooksKnow
      /\ \A a \in Advance : StoryOf(a, r) /\ Billed(a, r) /\ Carried(a, r)
      /\ \A t \in Slot \ {s} : run'[t].pc = "idle"
  BY <1>0, <1>1, PassHere
<1>3. /\ r.tag = doc[d].tag /\ r.tag = {} /\ doc[c].order = "open" /\ doc[c].age # "over"
  BY <1>0, <1>1, <1>2 DEF RunKnows, PassPc
<1>4. doc[c].state = "order" /\ ~doc[c].refunded /\ c \in Doc /\ c # d BY <1>2, <1>3, OrderOf
<1>5. CASE \/ Write(d, Leg(s)) /\ Goto(s, "reserve")
           \/ Allowed("reject") /\ (Write(d, Leg(s)) \/ UNCHANGED doc) /\ Goto(s, "unconfirmed")
  <2>1. /\ r2.pc = "reserve" \/ (r2.pc = "unconfirmed" /\ Allowed("reject"))
        /\ r2.d = d /\ r2.tag = r.tag /\ r2.src = c
    BY <1>1, <1>2, <1>5, GoesOn
  <2>2. /\ Leaves(doc[d], doc'[d], {"dirty"}) /\ (doc[d].dirty => doc'[d].dirty) /\ doc'[d] \in DocRec
        /\ doc'[d].tag = doc[d].tag /\ \A b \in Advance \ {c} : doc'[d].legs[b] = doc[d].legs[b]
        /\ \A e \in Doc \ {d} : doc'[e] = doc[e]
        /\ doc'[d].legs[c] > 0 \/ (doc'[d].legs[c] = doc[d].legs[c] /\ r2.pc = "unconfirmed")
    BY <1>0, <1>1, <1>2, LegLeaves, GoesOn, <1>5 DEF Leaves
  <2>3. \A e \in Doc : /\ doc'[e].state = doc[e].state /\ doc'[e].piece = doc[e].piece
                       /\ doc'[e].tag = doc[e].tag /\ doc'[e].order = doc[e].order
                       /\ doc'[e].refunded = doc[e].refunded
    BY <2>2 DEF Leaves
  <2>4. Now' = r2 BY <1>1, <1>2, <2>1, NextNow
  <2>5. HooksKnow' BY <1>0, <1>2, <2>3, HooksStill
  <2>6. RunKnows(r2)' BY <1>4, <2>2, <1>2, <1>3, <2>1, <2>3 DEF RunKnows, PassPc, HookPc
  <2>7. \A e : Unspent(e, r) => Unspent(e, r2)' BY <1>0, <1>1, UnspentStays
  <2>8. ASSUME NEW a \in Advance PROVE StoryOf(a, r2)'
    BY AdvanceAssumption, <2>1, <1>0, <1>1, <2>2, SeekingStory, WorkIs, <1>2, StoryStays DEF Seeking, SeekPc, PassPc
  <2>9. ASSUME NEW a \in Advance PROVE Billed(a, r2)'
    <3>0. a \in Doc BY AdvanceAssumption
    <3>1. CASE a # c
      <4>1. \A e \in Doc : doc'[e].legs[a] = doc[e].legs[a] BY <2>2, <3>1
      <4> QED BY <1>0, <1>1, <1>2, <2>3, <2>7, <3>0, <4>1, BilledStays
    <3>2. CASE a = c
      <4>1. /\ (Allowed("reject")' <=> Allowed("reject")) /\ (Allowed("abandon")' <=> Allowed("abandon"))
        BY <1>0 DEF Allowed
      <4>2. Billed(c, r) /\ r.pc = "absorb" BY <1>0, <1>1, <1>2
      <4>3. \A e \in Doc \ {d} : doc'[e].legs[c] = doc[e].legs[c] BY <2>2
      <4>4. c \notin doc'[d].tag BY <1>3, <2>2
      <4> QED BY <1>2, <1>3, <1>4, <2>1, <2>2, <2>3, <2>7, <3>2, <4>1, <4>2, <4>3, <4>4 DEF Billed
    <3> QED BY <3>1, <3>2
  <2>10. ASSUME NEW a \in Advance PROVE Carried(a, r2)'
    <3>0. a \in Doc BY AdvanceAssumption
    <3>1. CASE a # c
      <4>1. \A e \in Doc : doc'[e].legs[a] = doc[e].legs[a] BY <2>2, <3>1
      <4>2. HasTold(a)' = HasTold(a) BY <1>0 DEF HasTold
      <4>3. a # d => Work(r, a) = "none" /\ Work(r2, a) = "none" BY <1>0, <1>1, <2>1, WorkIs DEF PassPc
      <4>4. a = d => doc[a].order = "none" BY <1>2 DEF StoryOf, Story, Early
      <4> QED BY <1>0, <1>2, <2>3, <2>7, <3>0, <4>1, <4>2, <4>3, <4>4, CarriedStays
    <3>2. CASE a = c BY <1>2, <2>2, <1>3, <1>4, <2>3, <1>0, <3>2 DEF Carried
    <3> QED BY <3>1, <3>2
  <2> QED BY <2>4, <2>5, <2>6, <2>8, <2>9, <2>10, AccountIs
<1> QED BY <1>1, <1>5 DEF Absorb

\* The order's advance is reserved for this sale.
LEMMA ReserveAccount ==
  ASSUME Typed, Plainly, OneRequest, AccountInv, NEW s \in Slot, Reserve(s) PROVE AccountInv'
<1>0. /\ run[s].pc = "reserve" /\ run[s].pc \in SeekPc /\ run[s].pc \in PassPc
      /\ UNCHANGED <<case, row, hooks>> /\ Step(s)
  BY DEF Reserve, Handling, Step, PassPc, SeekPc
<1>1. PICK r, r2, d, c : r = run[s] /\ r2 = run'[s] /\ d = run[s].d /\ c = run[s].src OBVIOUS
<1>2. /\ r \in PassRun /\ d \in Doc /\ doc[d] \in DocRec /\ doc[d].state = "draft" /\ c \in Advance
      /\ RunKnows(r) /\ HooksKnow
      /\ \A a \in Advance : StoryOf(a, r) /\ Billed(a, r) /\ Carried(a, r)
      /\ \A t \in Slot \ {s} : run'[t].pc = "idle"
  BY <1>0, <1>1, PassHere
<1>3. /\ r.tag = doc[d].tag /\ r.tag = {} /\ doc[c].order = "open" /\ doc[c].age # "over" /\ doc[d].legs[c] > 0
  BY <1>0, <1>1, <1>2 DEF RunKnows, PassPc
<1>4. doc[c].state = "order" /\ ~doc[c].refunded /\ c \in Doc /\ c # d BY <1>2, <1>3, OrderOf
<1>5. OnOrder(c, "applied") /\ Goto(s, "tag") BY <1>1 DEF Reserve
<1>6. r2.pc = "tag" /\ r2.d = d /\ r2.tag = r.tag /\ r2.src = c BY <1>1, <1>2, <1>5, GoesOn
<1>7. /\ \A e \in Doc \ {c} : doc'[e] = doc[e]
      /\ Leaves(doc[c], doc'[c], {"order"}) /\ doc'[c].order = "applied" /\ doc'[c] \in DocRec
      /\ doc'[c].tag = doc[c].tag /\ doc'[c].legs = doc[c].legs
  BY <1>4, <1>5, OrderLeaves DEF Status
<1>8. \A e \in Doc : /\ doc'[e].state = doc[e].state /\ doc'[e].piece = doc[e].piece
                     /\ doc'[e].tag = doc[e].tag /\ doc'[e].legs = doc[e].legs
                     /\ doc'[e].refunded = doc[e].refunded
  BY <1>7 DEF Leaves
<1>9. Now' = r2 BY <1>1, <1>2, <1>6, NextNow
<1>10. HooksKnow' BY <1>0, <1>2, <1>8, HooksStill
<1>11. RunKnows(r2)' BY <1>2, <1>4, <1>7, <1>3, <1>6 DEF RunKnows, PassPc, HookPc
<1>12. \A e : Unspent(e, r) => Unspent(e, r2)' BY <1>0, <1>1, UnspentStays
<1>13. ASSUME NEW a \in Advance PROVE StoryOf(a, r2)'
  <2>0. a \in Doc BY AdvanceAssumption
  <2>1. CASE a = d BY <1>6, <1>2, <1>4, <1>7, <1>0, <1>1, <2>1, SeekingStory DEF Seeking, SeekPc, Leaves
  <2>2. CASE a # d /\ a # c BY <1>0, <1>1, <1>6, <2>2, WorkIs, <1>2, <1>7, <2>0, StoryStays DEF PassPc
  <2>3. CASE a = c
    <3>1. Work(r, c) = "none" /\ Work(r2, c) = "reserving" BY <1>0, <1>1, <1>4, <1>6, WorkIs DEF PassPc
    <3>2. PICK x, y, p, q, told, lost, st, ab :
            /\ x = doc[c] /\ y = doc'[c]
            /\ p = row[c]["draft"] /\ q = row[c]["order"] /\ told = HasTold(c) /\ lost = HasLost(c)
            /\ st = Allowed("stuck") /\ ab = Allowed("abandon")
      OBVIOUS
    <3>3. /\ x \in DocRec /\ p \in RowRec /\ q \in RowRec /\ told \in BOOLEAN /\ lost \in BOOLEAN
          /\ st \in BOOLEAN /\ ab \in BOOLEAN
      BY <1>2, <1>4, <3>2 DEF Typed, Name, HasTold, HasLost, Allowed
    <3>4. Story(c, x, p, q, told, lost, "none", st, ab) BY <1>2, <3>1, <3>2 DEF StoryOf
    <3>5. Story(c, y, p, q, told, lost, "reserving", st, ab) BY <1>3, <1>7, <3>2, <3>3, <3>4, ReserveStory
    <3>6. HasTold(c)' = told /\ HasLost(c)' = lost BY <1>0, <3>2 DEF HasTold, HasLost
    <3> QED BY <1>0, <1>2, <2>3, <3>1, <3>2, <3>5, <3>6, StoryNext
  <2> QED BY <2>1, <2>2, <2>3
<1>14. ASSUME NEW a \in Advance PROVE Billed(a, r2)'
  <2>0. a \in Doc BY AdvanceAssumption
  <2>1. CASE a # c BY <1>0, <1>1, <1>2, <1>7, <1>8, <1>12, <2>0, <2>1, BilledStays
  <2>2. CASE a = c BY <1>0, <1>2, <1>1, <1>3, <1>4, <1>6, <1>7, <1>8, <1>12, <2>2 DEF Allowed, Billed
  <2> QED BY <2>1, <2>2
<1>15. ASSUME NEW a \in Advance PROVE Carried(a, r2)'
  <2>0. a \in Doc BY AdvanceAssumption
  <2>1. CASE a # c
    <3>1. HasTold(a)' = HasTold(a) BY <1>0 DEF HasTold
    <3>2. a # d => Work(r, a) = "none" /\ Work(r2, a) = "none" BY <1>0, <1>1, <1>6, <2>1, WorkIs DEF PassPc
    <3>3. a = d => doc[a].order = "none" BY <1>2 DEF StoryOf, Story, Early
    <3> QED BY <1>0, <1>2, <1>7, <1>8, <1>12, <2>0, <2>1, <3>1, <3>2, <3>3, CarriedStays
  <2>2. CASE a = c BY <1>2, <1>3, <1>8, <1>0, <1>7, <2>2 DEF Carried
  <2> QED BY <2>1, <2>2
<1> QED BY <1>9, <1>10, <1>11, <1>13, <1>14, <1>15, AccountIs

LEMMA TagLeaves ==
  ASSUME Typed, NEW d \in Doc, doc[d].state = "draft", NEW v \in SUBSET Advance,
         Write(d, [doc[d] EXCEPT !.tag = v])
  PROVE  /\ Leaves(doc[d], doc'[d], {"dirty"}) /\ doc'[d].dirty
         /\ doc'[d] \in DocRec /\ doc'[d].tag = v /\ doc'[d].legs = doc[d].legs
         /\ \A e \in Doc \ {d} : doc'[e] = doc[e]
<1>1. PICK r : r = [doc[d] EXCEPT !.tag = v] OBVIOUS
<1>2. r \in DocRec /\ doc[d] \in DocRec BY <1>1, FieldTyped, ValueTyped
<1>3. Leaves(doc[d], r, {}) /\ r.tag = v /\ r.legs = doc[d].legs BY <1>1, <1>2 DEF DocRec, Leaves
<1>4. Write(d, r) BY <1>1
<1>5. /\ Leaves(r, doc'[d], {"dirty"}) /\ doc'[d].dirty /\ doc'[d] \in DocRec
      /\ doc'[d].tag = r.tag /\ doc'[d].legs = r.legs
      /\ \A e \in Doc \ {d} : doc'[e] = doc[e]
  BY <1>2, <1>4, DraftLeaves
<1> QED BY <1>3, <1>5 DEF Leaves

\* The draft is marked as the bill of what it absorbed.
LEMMA TagAccount ==
  ASSUME Typed, Plainly, OneRequest, AccountInv, NEW s \in Slot, Tag(s) PROVE AccountInv'
<1>0. /\ run[s].pc = "tag" /\ run[s].pc \in SeekPc /\ run[s].pc \in PassPc
      /\ UNCHANGED <<case, row, hooks>> /\ Step(s)
  BY DEF Tag, Handling, Step, PassPc, SeekPc
<1>1. PICK r, r2, d, c : r = run[s] /\ r2 = run'[s] /\ d = run[s].d /\ c = run[s].src OBVIOUS
<1>2. /\ r \in PassRun /\ d \in Doc /\ doc[d] \in DocRec /\ doc[d].state = "draft" /\ c \in Advance
      /\ RunKnows(r) /\ HooksKnow
      /\ \A a \in Advance : StoryOf(a, r) /\ Billed(a, r) /\ Carried(a, r)
      /\ \A t \in Slot \ {s} : run'[t].pc = "idle"
  BY <1>0, <1>1, PassHere
<1>3. /\ r.tag = doc[d].tag /\ r.tag = {} /\ doc[c].order = "applied" /\ doc[d].legs[c] > 0
  BY <1>0, <1>1, <1>2 DEF RunKnows, PassPc
<1>4. doc[c].state = "order" /\ ~doc[c].refunded /\ c \in Doc /\ c # d BY <1>2, <1>3, OrderOf
<1>5. Write(d, [doc[d] EXCEPT !.tag = {c}]) /\ Goto(s, "reserveRow") BY <1>3, <1>1, <1>2 DEF Tag
<1>6. r2.pc = "reserveRow" /\ r2.d = d /\ r2.src = c BY <1>1, <1>2, <1>5, GoesOn
<1>7. /\ \A e \in Doc \ {d} : doc'[e] = doc[e]
      /\ Leaves(doc[d], doc'[d], {"dirty"}) /\ doc'[d].dirty /\ doc'[d] \in DocRec
      /\ doc'[d].tag = {c} /\ doc'[d].legs = doc[d].legs
  <2>1. PICK v : v = {c} OBVIOUS
  <2>2. v \in SUBSET Advance /\ Write(d, [doc[d] EXCEPT !.tag = v]) BY <1>2, <1>5, <2>1
  <2>3. /\ \A e \in Doc \ {d} : doc'[e] = doc[e]
        /\ Leaves(doc[d], doc'[d], {"dirty"}) /\ doc'[d].dirty /\ doc'[d] \in DocRec
        /\ doc'[d].tag = v /\ doc'[d].legs = doc[d].legs
    BY <1>2, <2>2, TagLeaves
  <2> QED BY <2>1, <2>3
<1>8. \A e \in Doc : /\ doc'[e].state = doc[e].state /\ doc'[e].piece = doc[e].piece
                     /\ doc'[e].legs = doc[e].legs /\ doc'[e].order = doc[e].order
                     /\ doc'[e].refunded = doc[e].refunded
  BY <1>7 DEF Leaves
<1>9. Now' = r2 BY <1>1, <1>2, <1>6, NextNow
<1>10. HooksKnow' BY <1>0, <1>2, <1>7, <1>8 DEF Typed, HookRec, HooksKnow
<1>11. RunKnows(r2)' BY <1>2, <1>3, <1>4, <1>6, <1>7, <1>8 DEF RunKnows, PassPc, HookPc
<1>12. \A e : Unspent(e, r) => Unspent(e, r2)' BY <1>0, <1>1, UnspentStays
<1>13. ASSUME NEW a \in Advance PROVE StoryOf(a, r2)'
  <2>0. a \in Doc BY AdvanceAssumption
  <2>1. CASE a = d BY <1>6, <1>0, <1>1, <1>2, <1>7, <2>1, SeekingStory DEF Seeking, SeekPc
  <2>2. CASE a # d BY <1>0, <1>1, <1>6, <2>2, WorkIs, <1>2, <1>7, <2>0, StoryStays
  <2> QED BY <2>1, <2>2
<1>14. ASSUME NEW a \in Advance PROVE Billed(a, r2)'
  <2>0. a \in Doc BY AdvanceAssumption
  <2>1. CASE a # c
    <3>1. \A e \in Doc : a \in doc'[e].tag <=> a \in doc[e].tag BY <1>3, <1>7, <2>1
    <3> QED BY <1>0, <1>1, <1>2, <1>8, <1>12, <2>0, <2>1, <3>1, BilledStays
  <2>2. CASE a = c BY <1>0, <1>2, <1>7, <1>1, <1>3, <1>4, <1>6, <1>8, <1>12, <2>2 DEF Allowed, Billed
  <2> QED BY <2>1, <2>2
<1>15. ASSUME NEW a \in Advance PROVE Carried(a, r2)'
  <2>0. a \in Doc BY AdvanceAssumption
  <2>1. HasTold(a)' = HasTold(a) BY <1>0 DEF HasTold
  <2>2. a # d => Work(r2, a) = Work(r, a) BY <1>0, <1>1, <1>6, WorkIs
  <2>3. a = d => doc[a].order = "none" BY <1>2 DEF StoryOf, Story, Early
  <2> QED BY <1>0, <1>2, <1>8, <1>12, <2>0, <2>1, <2>2, <2>3, CarriedStays
<1> QED BY <1>9, <1>10, <1>11, <1>13, <1>14, <1>15, AccountIs

LEMMA ReserveRowAccount ==
  ASSUME Typed, Plainly, OneRequest, AccountInv, NEW s \in Slot, ReserveRow(s) PROVE AccountInv'
<1>0. /\ run[s].pc = "reserveRow" /\ run[s].pc \in SeekPc /\ run[s].pc \in PassPc
      /\ UNCHANGED <<case, doc, hooks>> /\ Step(s)
  BY DEF ReserveRow, Handling, Step, PassPc, SeekPc
<1>1. PICK r, r2, d, c : r = run[s] /\ r2 = run'[s] /\ d = run[s].d /\ c = run[s].src OBVIOUS
<1>2. /\ r \in PassRun /\ d \in Doc /\ doc[d] \in DocRec /\ doc[d].state = "draft" /\ c \in Advance
      /\ RunKnows(r) /\ HooksKnow
      /\ \A a \in Advance : StoryOf(a, r) /\ Billed(a, r) /\ Carried(a, r)
      /\ \A t \in Slot \ {s} : run'[t].pc = "idle"
  BY <1>0, <1>1, PassHere
<1>3. doc[c].order = "applied" /\ doc[d].legs[c] > 0 BY <1>0, <1>1, <1>2 DEF RunKnows
<1>4. doc[c].state = "order" /\ ~doc[c].refunded /\ c \in Doc /\ c # d BY <1>2, <1>3, OrderOf
<1>5. Apply(c, "order", d) /\ Goto(s, "clear") BY <1>1 DEF ReserveRow
<1>6. r2.pc = "clear" /\ r2.d = d BY <1>1, <1>2, <1>5, GoesOn
<1>7. "order" \in Name /\ "draft" \in Name \ {"order"} BY DEF Name
<1>8. PICK q2 : q2 = row'[c]["order"] OBVIOUS
<1>9. /\ \A b \in Advance \ {c} : row'[b] = row[b]
      /\ row'[c]["draft"] = row[c]["draft"]
      /\ q2.status = "applied" /\ q2.target = d /\ q2.issued = row[c]["order"].issued
  <2>1. Retargets(c, "order", d, "applied") BY <1>5 DEF Apply, Retargets
  <2> QED BY <1>2, <1>7, <1>8, <2>1, TargetWrites
<1>10. q2 \in RowRec BY <1>2, <1>5, <1>7, RowTyped, <1>8
<1>11. Now' = r2 BY <1>1, <1>2, <1>6, NextNow
<1>12. HooksKnow' BY <1>0, <1>2, HooksStill
<1>13. RunKnows(r2)' BY <1>0, <1>2, <1>6 DEF RunKnows, PassPc, HookPc
<1>14. \A e : Unspent(e, r) => Unspent(e, r2)' BY <1>0, <1>1, UnspentStays
<1>15. ASSUME NEW a \in Advance PROVE StoryOf(a, r2)'
  <2>0. a \in Doc BY AdvanceAssumption
  <2>1. CASE a = d BY <1>6, <1>0, <1>1, <1>2, <1>4, <1>9, <2>1, SeekingStory DEF Seeking, SeekPc, Leaves
  <2>2. CASE a # d /\ a # c BY <1>0, <1>1, <1>6, <2>2, WorkIs, <1>2, <1>9, <2>0, StoryStays DEF PassPc
  <2>3. CASE a = c
    <3>1. Work(r, c) = "reserving" /\ Work(r2, c) = "none" BY <1>0, <1>1, <1>4, <1>6, WorkIs DEF PassPc
    <3>2. PICK x, p, q, told, lost, st, ab :
            /\ x = doc[c] /\ p = row[c]["draft"] /\ q = row[c]["order"] /\ told = HasTold(c) /\ lost = HasLost(c)
            /\ st = Allowed("stuck") /\ ab = Allowed("abandon")
      OBVIOUS
    <3>3. /\ x \in DocRec /\ p \in RowRec /\ q \in RowRec /\ told \in BOOLEAN /\ lost \in BOOLEAN
          /\ st \in BOOLEAN /\ ab \in BOOLEAN
      BY <1>2, <1>4, <3>2 DEF Typed, Name, HasTold, HasLost, Allowed
    <3>4. Story(c, x, p, q, told, lost, "reserving", st, ab) BY <1>2, <3>1, <3>2 DEF StoryOf
    <3>5. Story(c, x, p, q2, told, lost, "none", st, ab) BY <1>9, <1>10, <3>2, <3>3, <3>4, ReserveRowStory
    <3>6. HasTold(c)' = told /\ HasLost(c)' = lost BY <1>0, <3>2 DEF HasTold, HasLost
    <3> QED BY <1>0, <1>2, <1>8, <1>9, <2>3, <3>1, <3>2, <3>5, <3>6, StoryNext
  <2> QED BY <2>1, <2>2, <2>3
<1>16. ASSUME NEW a \in Advance PROVE Billed(a, r2)' BY AdvanceAssumption, <1>0, <1>1, <1>2, <1>14, BilledStays
<1>17. ASSUME NEW a \in Advance PROVE Carried(a, r2)'
  <2>0. a \in Doc BY AdvanceAssumption
  <2>1. HasTold(a)' = HasTold(a) BY <1>0 DEF HasTold
  <2>2. a # d => /\ Work(r, a) \in {"none", "reserving"} /\ Work(r2, a) = "none"
    BY <1>0, <1>1, <1>6, WorkIs DEF PassPc
  <2>3. a = d => doc[a].order = "none" BY <1>2 DEF StoryOf, Story, Early
  <2>4. a # d => (Unmoved(HasTold(a), Work(r, a)) \/ Work(r, a) = "settle" =>
                    Unmoved(HasTold(a)', Work(r2, a)) \/ Work(r2, a) = "settle")
    BY <2>1, <2>2 DEF Unmoved
  <2>5. \/ row'[a]["order"] = row[a]["order"]
        \/ row'[a]["order"].target \in Doc /\ doc'[row'[a]["order"].target].legs[a] > 0
    BY <1>0, <1>2, <1>3, <1>8, <1>9
  <2> QED BY <1>0, <1>2, <1>14, <2>0, <2>3, <2>4, <2>5, CarriedStays
<1> QED BY <1>11, <1>12, <1>13, <1>15, <1>16, <1>17, AccountIs

\* A conversion at work, alone.
LEMMA HookHere ==
  ASSUME Typed, Plainly, OneRequest, AccountInv, NEW s \in Slot, run[s].pc \in HookPc, Step(s)
  PROVE  /\ run[s] \in HookRun /\ run[s].d \in Doc /\ doc[run[s].d] \in DocRec
         /\ doc[run[s].d].state = "order" /\ run[s].piece = doc[run[s].d].piece /\ run[s].tag = doc[run[s].d].tag
         /\ ~HasTold(run[s].d)
         /\ Now = run[s] /\ RunKnows(run[s]) /\ HooksKnow
         /\ \A a \in Advance : StoryOf(a, run[s]) /\ Billed(a, run[s]) /\ Carried(a, run[s])
         /\ \A t \in Slot \ {s} : run'[t].pc = "idle"
  BY NowIs, StepRuns, QuietOrOne, HookRunning DEF HookPc, AccountInv, RunKnows, Busy, Typed

\* What is said of the advance of an order at its conversion.
LEMMA HookSays ==
  ASSUME Typed, Plainly, OneRequest, AccountInv, NEW s \in Slot, run[s].pc \in HookPc, Step(s),
         NEW r, r = run[s], NEW d, d = run[s].d, d \in Advance,
         NEW p, p = row[d]["draft"], NEW q, q = row[d]["order"], NEW told, told = HasTold(d),
         NEW lost, lost = HasLost(d),
         NEW st, st = Allowed("stuck"), NEW ab, ab = Allowed("abandon")
  PROVE  /\ p \in RowRec /\ q \in RowRec /\ Story(d, doc[d], p, q, told, lost, r.pc, st, ab)
         /\ ~told /\ told \in BOOLEAN /\ lost \in BOOLEAN /\ st \in BOOLEAN /\ ab \in BOOLEAN
<1>1. d \in Doc /\ StoryOf(d, r) /\ ~HasTold(d) BY HookHere
<1>2. Work(r, d) = r.pc BY WorkIs
<1>3. Story(d, doc[d], p, q, told, lost, r.pc, st, ab) BY <1>1, <1>2 DEF StoryOf
<1>4. p \in RowRec /\ q \in RowRec BY DEF Typed, Name
<1>5. ~told /\ told \in BOOLEAN /\ lost \in BOOLEAN /\ st \in BOOLEAN /\ ab \in BOOLEAN BY <1>1 DEF HasTold, HasLost, Allowed
<1> QED BY <1>3, <1>4, <1>5

\* What a conversion and the webhooks go on knowing.
LEMMA HookGoes ==
  ASSUME Typed, Plainly, OneRequest, AccountInv, NEW s \in Slot, run[s].pc \in HookPc, Step(s),
         UNCHANGED <<case, hooks>>,
         NEW r, r = run[s], NEW r2, r2 = run'[s],
         \/ r2 = Idle
         \/ /\ r2.pc \in HookPc /\ r2.d = r.d /\ r2.tag = r.tag /\ r2.piece = r.piece
            /\ r2.pc = "rekey" => r2.own = doc'[r.d].order /\ r2.own # "none"
            /\ r2.pc \in {"spend", "spendRow"} => r.tag # {},
         \A e \in Doc : /\ doc'[e].state = doc[e].state /\ doc'[e].piece = doc[e].piece
                        /\ doc'[e].tag = doc[e].tag
  PROVE  Now' = r2 /\ HooksKnow' /\ RunKnows(r2)'
<1>1. /\ r.d \in Doc /\ doc[r.d].state = "order" /\ r.piece = doc[r.d].piece /\ r.tag = doc[r.d].tag
      /\ ~HasTold(r.d) /\ HooksKnow /\ \A t \in Slot \ {s} : run'[t].pc = "idle"
  BY HookHere
<1>2. Now' = r2 BY <1>1, NextNow DEF HookPc
<1>3. HooksKnow' BY <1>1, HooksStill
<1>4. RunKnows(r2)' BY <1>1 DEF RunKnows, Idle, PassPc, HookPc, HasTold
<1> QED BY <1>2, <1>3, <1>4

\* An advance a conversion does not touch.
LEMMA HookPasses ==
  ASSUME Typed, Plainly, OneRequest, AccountInv, NEW s \in Slot, run[s].pc \in HookPc, Step(s),
         UNCHANGED <<case, hooks>>, NEW r2, r2 = run'[s],
         NEW a \in Advance, doc'[a] = doc[a], row'[a] = row[a], Work(r2, a) = Work(run[s], a),
         run[s].pc \notin {"copy", "spend"},
         \A e \in Doc : /\ doc'[e].state = doc[e].state /\ doc'[e].tag = doc[e].tag
                        /\ doc'[e].legs = doc[e].legs
  PROVE  StoryOf(a, r2)' /\ Billed(a, r2)' /\ Carried(a, r2)'
<1>1. a \in Doc /\ StoryOf(a, run[s]) /\ Billed(a, run[s]) /\ Carried(a, run[s]) BY HookHere, AdvanceAssumption
<1>2. \A e : Unspent(e, run[s]) => Unspent(e, r2)' BY UnspentStays
<1>3. HasTold(a)' = HasTold(a) BY DEF HasTold
<1>4. run[s].pc \notin {"reserve", "tag"} BY DEF HookPc
<1>5. StoryOf(a, r2)' BY <1>1, StoryStays
<1>6. Billed(a, r2)' BY <1>1, <1>2, <1>4, BilledStays
<1>7. Carried(a, r2)' BY <1>1, <1>2, <1>3, CarriedStays
<1> QED BY <1>5, <1>6, <1>7

\* Its own advance is looked for, and takes the order's name in the register.
LEMMA OwnAccount ==
  ASSUME Typed, Plainly, OneRequest, AccountInv, NEW s \in Slot, ReadOwn(s) PROVE AccountInv'
<1>0. run[s].pc = "own" /\ run[s].pc \in HookPc /\ UNCHANGED <<case, doc, row, hooks>> /\ Step(s)
  BY DEF ReadOwn, Handling, Step, HookPc
<1>1. PICK r, r2, d, x : r = run[s] /\ r2 = run'[s] /\ d = run[s].d /\ x = doc[d] OBVIOUS
<1>2. r \in HookRun /\ d \in Doc /\ x \in DocRec /\ x.state = "order" BY <1>0, <1>1, HookHere
<1>3. PICK p, q, told, lost, st, ab :
         /\ p = row[d]["draft"] /\ q = row[d]["order"] /\ told = HasTold(d) /\ lost = HasLost(d)
         /\ st = Allowed("stuck") /\ ab = Allowed("abandon")
  OBVIOUS
<1>4. ASSUME d \in Advance
      PROVE  /\ p \in RowRec /\ q \in RowRec /\ Story(d, x, p, q, told, lost, "own", st, ab)
             /\ ~told /\ told \in BOOLEAN /\ lost \in BOOLEAN /\ st \in BOOLEAN /\ ab \in BOOLEAN
  BY <1>0, <1>1, <1>3, <1>4, HookSays
<1>5. \/ r2 = Idle /\ x.order = "none"
      \/ /\ r2.pc = "rekey" /\ r2.d = d /\ r2.tag = r.tag /\ r2.piece = r.piece
         /\ r2.own = x.order /\ x.order # "none"
  <2>1. CASE x.order = "none" BY <1>1, <2>1 DEF ReadOwn, Done, Typed
  <2>2. CASE x.order # "none"
    <3>1. run' = [run EXCEPT ![s].pc = "rekey", ![s].own = x.order] BY <1>1, <2>2 DEF ReadOwn
    <3>2. PICK m : m = [run[s] EXCEPT !.pc = "rekey", !.own = x.order] OBVIOUS
    <3>3. r2 = m BY <1>1, <3>1, <3>2 DEF Typed
    <3>4. m.pc = "rekey" /\ m.d = d /\ m.tag = r.tag /\ m.piece = r.piece /\ m.own = x.order
      BY <1>1, <1>2, <3>2 DEF HookRun
    <3> QED BY <2>2, <3>3, <3>4
  <2> QED BY <2>1, <2>2
<1>6. Now' = r2 /\ HooksKnow' /\ RunKnows(r2)' BY <1>0, <1>1, <1>5, HookGoes DEF HookPc
<1>7. ASSUME NEW a \in Advance PROVE StoryOf(a, r2)' /\ Billed(a, r2)' /\ Carried(a, r2)'
  <2>1. CASE a # d BY <1>0, <1>1, <1>5, <2>1, WorkIs, HookPasses DEF Idle, HookPc
  <2>2. CASE a = d
    <3>1. x.order # "none" BY <1>4, <2>2, <1>2 DEF Story, Ordered
    <3>2. r2.pc = "rekey" /\ r2.d = d BY <1>5, <3>1
    <3>3. Work(r, d) = "own" /\ Work(r2, d) = "rekey" BY <1>0, <1>1, <3>2, WorkIs DEF HookPc
    <3>4. Story(d, x, p, q, told, lost, "rekey", st, ab) BY <1>2, <1>4, <2>2, OwnStory
    <3>5. HasTold(d)' = told /\ HasLost(d)' = lost
      BY <1>0, <1>1, <1>3, HookHere DEF HasTold, HasLost
    <3>6. StoryOf(d, r2)' BY <1>0, <1>1, <1>3, <2>2, <3>3, <3>4, <3>5, StoryNext
    <3>7. Billed(d, r) /\ Carried(d, r) BY <1>0, <1>1, <2>2, HookHere
    <3>8. \A e : Unspent(e, r) => Unspent(e, r2)' BY <1>0, <1>1, UnspentStays
    <3>9. Billed(d, r2)' BY <1>0, <1>1, <2>2, <3>7, <3>8, BilledStays
    <3>10. Unmoved(told, "rekey") BY DEF Unmoved
    <3>11. Carried(d, r2)' BY <1>0, <1>2, <2>2, <3>3, <3>5, <3>7, <3>8, <3>10, CarriedStays
    <3> QED BY <2>2, <3>6, <3>9, <3>11
  <2> QED BY <2>1, <2>2
<1> QED BY <1>6, <1>7, AccountIs

LEMMA RekeyAccount ==
  ASSUME Typed, Plainly, OneRequest, AccountInv, NEW s \in Slot, RekeyRow(s) PROVE AccountInv'
<1>0. run[s].pc = "rekey" /\ run[s].pc \in HookPc /\ UNCHANGED <<case, doc, hooks>> /\ Step(s)
  BY DEF RekeyRow, Handling, Step, HookPc
<1>1. PICK r, r2, d, x : r = run[s] /\ r2 = run'[s] /\ d = run[s].d /\ x = doc[d] OBVIOUS
<1>2. /\ r \in HookRun /\ d \in Doc /\ x \in DocRec /\ x.state = "order" /\ r.piece = x.piece
      /\ RunKnows(r)
  BY <1>0, <1>1, HookHere
<1>3. PICK p, q, told, lost, st, ab :
         /\ p = row[d]["draft"] /\ q = row[d]["order"] /\ told = HasTold(d) /\ lost = HasLost(d)
         /\ st = Allowed("stuck") /\ ab = Allowed("abandon")
  OBVIOUS
<1>4. ASSUME d \in Advance
      PROVE  /\ p \in RowRec /\ q \in RowRec /\ Story(d, x, p, q, told, lost, "rekey", st, ab)
             /\ ~told /\ told \in BOOLEAN /\ lost \in BOOLEAN /\ st \in BOOLEAN /\ ab \in BOOLEAN
  BY <1>0, <1>1, <1>3, <1>4, HookSays
<1>5. r.own = x.order BY <1>0, <1>1, <1>2 DEF RunKnows
<1>6. /\ r2 = Idle \/ (r2.pc = "settle" /\ r2.d = d /\ r2.tag = r.tag /\ r2.piece = r.piece)
      /\ r2 = Idle => x.order \in {"redeemed", "expired"} \/ ~x.piece
      /\ r2.pc = "settle" => x.piece
  BY <1>1, <1>2, <1>5, HookGoesOn DEF RekeyRow, AfterRekey, Done, Typed, Idle
<1>7. Now' = r2 /\ HooksKnow' /\ RunKnows(r2)' BY <1>0, <1>1, <1>6, HookGoes DEF HookPc
<1>8. Rekey(d) /\ \A b \in Advance \ {d} : row'[b] = row[b] BY <1>1, RekeyWrites DEF RekeyRow
<1>9. ASSUME NEW a \in Advance PROVE StoryOf(a, r2)' /\ Billed(a, r2)' /\ Carried(a, r2)'
  <2>1. CASE a # d BY <1>0, <1>1, <1>6, <2>1, WorkIs, <1>8, HookPasses DEF Idle, HookPc
  <2>2. CASE a = d
    <3>1. Story(d, x, p, q, told, lost, "rekey", st, ab) BY <1>4, <2>2
    <3>2. /\ p.status # "none" /\ q.status = "none" /\ x.order = x.status
          /\ x.order \in {"open", "applied", "refunded"} /\ (x.order = "applied" => x.piece)
          /\ p.status = "applied" => p.target = d BY <3>1, <1>2 DEF Story, Early, Drafted, Ordered, Unmoved, NoRow
    <3>3. row'[d]["order"] = p /\ row'[d]["draft"] = NoRow
      <4>1. row' = [row EXCEPT ![d] = [order |-> row[d]["draft"], draft |-> NoRow]]
        BY <1>3, <1>8, <3>2 DEF Rekey
      <4>2. PICK v : v = [order |-> row[d]["draft"], draft |-> NoRow] OBVIOUS
      <4>3. row'[d] = v BY <2>2, <4>1, <4>2 DEF Typed
      <4> QED BY <1>3, <4>2, <4>3
    <3>4. PICK v : v = IF x.piece THEN "settle" ELSE "none" OBVIOUS
    <3>5. Work(r2, d) = v BY <1>6, <3>2, <3>4, WorkIs DEF Idle, HookPc
    <3>6. Story(d, x, NoRow, p, told, lost, v, st, ab)
      BY <1>2, <1>4, <2>2, <3>1, <3>4, RekeyBesideStory, RekeyAloneStory
    <3>8. HasTold(d)' = told /\ HasLost(d)' = lost
      BY <1>0, <1>1, <1>3, HookHere DEF HasTold, HasLost
    <3>9. StoryOf(d, r2)' BY <1>0, <1>1, <1>3, <2>2, <3>3, <3>5, <3>6, <3>8, StoryNext
    <3>10. Billed(d, r) /\ Carried(d, r) BY <1>0, <1>1, <2>2, HookHere
    <3>11. \A e : Unspent(e, r) => Unspent(e, r2)' BY <1>0, <1>1, UnspentStays
    <3>12. Billed(d, r2)' BY <1>0, <1>1, <2>2, <3>10, <3>11, BilledStays
    <3>13. Carried(d, r2)' BY <3>2, <3>3, <1>0, <1>1, <3>4, <3>5 DEF Carried
    <3> QED BY <2>2, <3>9, <3>12, <3>13
  <2> QED BY <2>1, <2>2
<1> QED BY <1>7, <1>9, AccountIs

\* The advance is spent on the piece sold beside it.
LEMMA SettleAccount ==
  ASSUME Typed, Plainly, OneRequest, AccountInv, NEW s \in Slot, Settle(s) PROVE AccountInv'
<1>0. run[s].pc = "settle" /\ run[s].pc \in HookPc /\ UNCHANGED <<case, row, hooks>> /\ Step(s)
  BY DEF Settle, Handling, Step, HookPc
<1>1. PICK r, r2, d, x, y : r = run[s] /\ r2 = run'[s] /\ d = run[s].d /\ x = doc[d] /\ y = doc'[d] OBVIOUS
<1>2. r \in HookRun /\ d \in Doc /\ x \in DocRec /\ x.state = "order" BY <1>0, <1>1, HookHere
<1>3. PICK p, q, told, lost, st, ab :
         /\ p = row[d]["draft"] /\ q = row[d]["order"] /\ told = HasTold(d) /\ lost = HasLost(d)
         /\ st = Allowed("stuck") /\ ab = Allowed("abandon")
  OBVIOUS
<1>4. OnOrder(d, "redeemed") /\ Goto(s, "settleRow") BY <1>1 DEF Settle
<1>5. r2.pc = "settleRow" /\ r2.d = d /\ r2.tag = r.tag /\ r2.piece = r.piece BY <1>1, <1>2, <1>4, HookGoesOn
<1>6. /\ \A e \in Doc \ {d} : doc'[e] = doc[e]
      /\ Leaves(x, y, {"order"}) /\ y.order = "redeemed" /\ y \in DocRec /\ y.tag = x.tag /\ y.legs = x.legs
  BY <1>1, <1>2, <1>4, OrderLeaves DEF Status
<1>7. \A e \in Doc : /\ doc'[e].state = doc[e].state /\ doc'[e].piece = doc[e].piece
                     /\ doc'[e].tag = doc[e].tag /\ doc'[e].legs = doc[e].legs
                     /\ doc'[e].refunded = doc[e].refunded
  BY <1>1, <1>6 DEF Leaves
<1>8. Now' = r2 /\ HooksKnow' /\ RunKnows(r2)' BY <1>0, <1>1, <1>5, <1>7, HookGoes DEF HookPc
<1>9. ASSUME NEW a \in Advance PROVE StoryOf(a, r2)' /\ Billed(a, r2)' /\ Carried(a, r2)'
  <2>0. a \in Doc BY AdvanceAssumption
  <2>1. CASE a # d BY <1>0, <1>1, <1>5, <2>1, WorkIs, <1>6, <1>7, <2>0, HookPasses DEF HookPc
  <2>2. CASE a = d
    <3>1. /\ p \in RowRec /\ q \in RowRec /\ Story(d, x, p, q, told, lost, "settle", st, ab)
          /\ ~told /\ told \in BOOLEAN /\ lost \in BOOLEAN /\ st \in BOOLEAN /\ ab \in BOOLEAN
      BY <1>0, <1>1, <1>3, <2>2, HookSays
    <3>2. x.piece BY <3>1, <1>2 DEF Story, Ordered
    <3>3. Work(r2, d) = "settleRow" BY <1>5, WorkIs DEF HookPc
    <3>4. Story(d, y, p, q, told, lost, "settleRow", st, ab) BY <1>2, <1>6, <3>1, SettleStory
    <3>5. HasTold(d)' = told /\ HasLost(d)' = lost BY <1>0, <1>1, <1>3, HookHere DEF HasTold, HasLost
    <3>6. StoryOf(d, r2)' BY <1>0, <1>1, <1>3, <2>2, <3>3, <3>4, <3>5, StoryNext
    <3>7. Billed(d, r) /\ Carried(d, r) BY <1>0, <1>1, <2>2, HookHere
    <3>8. (Allowed("reject")' <=> Allowed("reject")) /\ (Allowed("abandon")' <=> Allowed("abandon"))
      BY <1>0 DEF Allowed
    <3>9. Billed(d, r2)' BY <1>1, <1>6, <1>0, <1>7, <2>0, <2>2, <3>7, <3>8 DEF Billed
    <3>10. Carried(d, r2)' BY <1>1, <1>2, <1>6, <1>7, <3>2, <1>0, <3>7 DEF Carried
    <3> QED BY <2>2, <3>6, <3>9, <3>10
  <2> QED BY <2>1, <2>2
<1> QED BY <1>8, <1>9, AccountIs

LEMMA SettleRowAccount ==
  ASSUME Typed, Plainly, OneRequest, AccountInv, NEW s \in Slot, SettleRow(s) PROVE AccountInv'
<1>0. run[s].pc = "settleRow" /\ run[s].pc \in HookPc /\ UNCHANGED <<case, doc, hooks>> /\ Step(s)
  BY DEF SettleRow, Handling, Step, HookPc
<1>1. PICK r, r2, d, x : r = run[s] /\ r2 = run'[s] /\ d = run[s].d /\ x = doc[d] OBVIOUS
<1>2. r \in HookRun /\ d \in Doc /\ x \in DocRec /\ x.state = "order" BY <1>0, <1>1, HookHere
<1>3. PICK p, q, told, lost, st, ab :
         /\ p = row[d]["draft"] /\ q = row[d]["order"] /\ told = HasTold(d) /\ lost = HasLost(d)
         /\ st = Allowed("stuck") /\ ab = Allowed("abandon")
  OBVIOUS
<1>4. Redeem(d, "order", d) /\ Done(s) BY <1>1 DEF SettleRow
<1>5. r2 = Idle BY <1>1, <1>4 DEF Done, Typed
<1>6. "order" \in Name /\ "draft" \in Name \ {"order"} BY DEF Name
<1>7. Retargets(d, "order", d, "redeemed") BY <1>4 DEF Redeem, Retargets
<1>8. PICK q2 : q2 = row'[d]["order"] OBVIOUS
<1>9. /\ \A b \in Advance \ {d} : row'[b] = row[b]
      /\ d \in Advance => /\ row'[d]["draft"] = p /\ q2.status = "redeemed" /\ q2.issued = q.issued
  BY <1>3, <1>6, <1>7, <1>8, TargetWrites
<1>10. Now' = r2 /\ HooksKnow' /\ RunKnows(r2)' BY <1>0, <1>1, <1>5, HookGoes DEF HookPc
<1>11. ASSUME NEW a \in Advance PROVE StoryOf(a, r2)' /\ Billed(a, r2)' /\ Carried(a, r2)'
  <2>1. CASE a # d
    <3>1. Work(r, a) = "none" /\ Work(r2, a) = "none" BY <1>0, <1>1, <1>5, <2>1, WorkIs DEF Idle, HookPc
    <3> QED BY <1>0, <1>1, <1>9, <2>1, <3>1, HookPasses
  <2>2. CASE a = d
    <3>1. /\ p \in RowRec /\ q \in RowRec /\ Story(d, x, p, q, told, lost, "settleRow", st, ab)
          /\ ~told /\ told \in BOOLEAN /\ lost \in BOOLEAN /\ st \in BOOLEAN /\ ab \in BOOLEAN
      BY <1>0, <1>1, <1>3, <2>2, HookSays
    <3>2. q2 \in RowRec BY <1>2, <1>4, <1>6, RowTyped, <1>8, <2>2
    <3>3. Work(r, d) = "settleRow" /\ Work(r2, d) = "none" BY <1>0, <1>1, <1>5, WorkIs DEF HookPc, Idle
    <3>4. Story(d, x, p, q2, told, lost, "none", st, ab) BY <1>2, <1>9, <2>2, <3>1, <3>2, SettleRowStory
    <3>5. HasTold(d)' = told /\ HasLost(d)' = lost
      BY <1>0, <1>1, <1>3, HookHere DEF HasTold, HasLost
    <3>6. StoryOf(d, r2)' BY <1>0, <1>1, <1>3, <1>8, <1>9, <2>2, <3>3, <3>4, <3>5, StoryNext
    <3>7. Billed(d, r) /\ Carried(d, r) BY <1>0, <1>1, <2>2, HookHere
    <3>8. \A e : Unspent(e, r) => Unspent(e, r2)' BY <1>0, <1>1, UnspentStays
    <3>9. Billed(d, r2)' BY <1>0, <1>1, <2>2, <3>7, <3>8, BilledStays
    <3>10. ~Unmoved(told, "settleRow") BY <3>1 DEF Unmoved
    <3>11. Carried(d, r2)' BY <1>8, <1>9, <2>2, <1>3, <3>3, <3>10, <1>0, <1>1, <3>7, <3>8, CarriedStays
    <3> QED BY <2>2, <3>6, <3>9, <3>11
  <2> QED BY <2>1, <2>2
<1> QED BY <1>10, <1>11, AccountIs

\* The order takes its draft's status, whatever it says by now.
LEMMA CopyAccount ==
  ASSUME Typed, Plainly, OneRequest, AccountInv, NEW s \in Slot, Copy(s) PROVE AccountInv'
<1>0. run[s].pc = "copy" /\ run[s].pc \in HookPc /\ UNCHANGED <<case, row, hooks>> /\ Step(s)
  BY DEF Copy, Handling, Step, HookPc
<1>1. PICK r, r2, d, x, y : r = run[s] /\ r2 = run'[s] /\ d = run[s].d /\ x = doc[d] /\ y = doc'[d] OBVIOUS
<1>2. /\ r \in HookRun /\ d \in Doc /\ x \in DocRec /\ x.state = "order" /\ r.tag = x.tag
      /\ \A a \in Advance : StoryOf(a, r) /\ Billed(a, r) /\ Carried(a, r)
  BY <1>0, <1>1, HookHere
<1>3. PICK p, q, told, lost, st, ab :
         /\ p = row[d]["draft"] /\ q = row[d]["order"] /\ told = HasTold(d) /\ lost = HasLost(d)
         /\ st = Allowed("stuck") /\ ab = Allowed("abandon")
  OBVIOUS
<1>4. /\ (r2.pc = "own" /\ x.tag = {}) \/ (r2.pc = "spend" /\ x.tag # {})
      /\ r2.d = d /\ r2.tag = r.tag /\ r2.piece = r.piece
  <2>1. Goto(s, IF r.tag = {} THEN "own" ELSE "spend") BY <1>1 DEF Copy, AfterCopy
  <2>2. PICK pc : pc = IF r.tag = {} THEN "own" ELSE "spend" OBVIOUS
  <2>3. r2.pc = pc /\ r2.d = d /\ r2.tag = r.tag /\ r2.piece = r.piece BY <1>1, <1>2, <2>1, <2>2, HookGoesOn
  <2> QED BY <1>2, <2>2, <2>3
<1>5. /\ \A e \in Doc \ {d} : doc'[e] = doc[e]
      /\ Leaves(x, y, {"order"}) /\ y \in DocRec /\ y.tag = x.tag /\ y.legs = x.legs
      /\ x.status # "none" => y.order = x.status
  BY <1>1, <1>2, OrderLeaves DEF Copy, Leaves, DocRec
<1>6. \A e \in Doc : /\ doc'[e].state = doc[e].state /\ doc'[e].piece = doc[e].piece
                     /\ doc'[e].tag = doc[e].tag /\ doc'[e].legs = doc[e].legs
                     /\ doc'[e].refunded = doc[e].refunded
  BY <1>1, <1>5 DEF Leaves
<1>7. Now' = r2 /\ HooksKnow' /\ RunKnows(r2)' BY <1>0, <1>1, <1>2, <1>4, <1>6, HookGoes DEF HookPc
<1>8. ASSUME NEW a \in Advance, a # d PROVE StoryOf(a, r2)' /\ Billed(a, r2)' /\ Carried(a, r2)'
  <2>0. a \in Doc BY AdvanceAssumption
  <2>1. Work(r, a) = "none" /\ Work(r2, a) = "none" BY <1>0, <1>1, <1>4, <1>8, WorkIs DEF HookPc
  <2>2. doc'[a] = doc[a] /\ HasTold(a)' = HasTold(a) BY <1>0, <1>5, <1>8, <2>0 DEF HasTold
  <2>3. StoryOf(a, r2)' BY <1>0, <1>2, <2>1, <2>2, StoryStays
  <2>4. ASSUME NEW e \in Doc, doc[e].legs[a] > 0, Unspent(e, r) PROVE Allowed("reject") \/ Unspent(e, r2)'
    BY <1>0, <1>1, <2>4, <1>2, <1>4 DEF HasTold, Unspent, Billed, HookPc
  <2>5. Billed(a, r2)'
    <3>1. \A e \in Doc : /\ doc'[e].legs[a] = doc[e].legs[a] /\ doc'[e].state = doc[e].state
                         /\ a \in doc'[e].tag <=> a \in doc[e].tag
                         /\ doc[e].legs[a] > 0 /\ Unspent(e, r) => Allowed("reject") \/ Unspent(e, r2)'
      BY <1>6, <2>4
    <3>2. Billed(a, r) BY <1>2
    <3>3. doc'[a].order = doc[a].order /\ doc'[a].refunded = doc[a].refunded BY <2>2
    <3>4. r.pc \notin {"reserve", "tag"} BY <1>0, <1>1
    <3> QED BY <1>0, <3>1, <3>2, <3>3, <3>4, BilledStays
  <2>6. Carried(a, r2)' BY <1>0, <1>1, <1>2, <1>6, <2>1, <2>2, <2>4, CarriedStays
  <2> QED BY <2>3, <2>5, <2>6
<1>9. ASSUME d \in Advance PROVE StoryOf(d, r2)' /\ Billed(d, r2)' /\ Carried(d, r2)'
  <2>1. /\ p \in RowRec /\ q \in RowRec /\ Story(d, x, p, q, told, lost, "copy", st, ab)
        /\ ~told /\ told \in BOOLEAN /\ lost \in BOOLEAN /\ st \in BOOLEAN /\ ab \in BOOLEAN
    BY <1>0, <1>1, <1>3, <1>9, HookSays
  <2>2. x.status \in {"open", "applied", "refunded"} /\ q = NoRow /\ x.order = "none"
    BY <2>1, <1>2 DEF Story, Early, Ordered, Unmoved
  <2>3. y.order = x.status BY <1>5, <2>2
  <2>4. Work(r2, d) = r2.pc BY <1>4, WorkIs DEF HookPc
  <2>5. Story(d, y, p, q, told, lost, r2.pc, st, ab) BY <1>2, <1>5, <2>1, <2>3, CopyOwnStory, CopySpendStory, <1>4
  <2>6. HasTold(d)' = told /\ HasLost(d)' = lost BY <1>0, <1>3 DEF HasTold, HasLost
  <2>7. StoryOf(d, r2)' BY <1>0, <1>1, <1>3, <2>4, <2>5, <2>6, <1>9, StoryNext
  <2>8. Billed(d, r2)' BY <1>1, <1>2, <1>9, <2>2, <1>6 DEF Billed
  <2>9. Carried(d, r2)' BY <1>0, <1>3, <2>2, <1>1, <2>3, <1>4, <2>4 DEF NoRow, Unmoved, Carried
  <2> QED BY <2>7, <2>8, <2>9
<1>10. \A a \in Advance : StoryOf(a, r2)' /\ Billed(a, r2)' /\ Carried(a, r2)' BY <1>8, <1>9
<1> QED BY <1>7, <1>10, AccountIs

\* The advance the bill carries is spent on it.
LEMMA SpendAccount ==
  ASSUME Typed, Plainly, OneRequest, AccountInv, NEW s \in Slot, Spend(s) PROVE AccountInv'
<1>0. run[s].pc = "spend" /\ run[s].pc \in HookPc /\ UNCHANGED <<case, row, hooks>> /\ Step(s)
  BY DEF Spend, Handling, Step, HookPc
<1>1. PICK r, r2, d, x : r = run[s] /\ r2 = run'[s] /\ d = run[s].d /\ x = doc[d] OBVIOUS
<1>2. /\ r \in HookRun /\ d \in Doc /\ x \in DocRec /\ x.state = "order" /\ r.tag = x.tag /\ HooksKnow
      /\ \A a \in Advance : StoryOf(a, r) /\ Billed(a, r) /\ Carried(a, r)
  BY <1>0, <1>1, HookHere
<1>3. PICK c \in r.tag : OnOrder(c, "redeemed") BY <1>1 DEF Spend
<1>4. c \in Advance /\ c \in Doc /\ x.tag = {c} BY <1>1, <1>2, <1>3, AdvanceAssumption DEF HookRun, HooksKnow
<1>5. /\ x.legs[c] > 0 /\ d # c /\ doc[c].state = "order" /\ doc[c].order # "none" /\ ~doc[c].refunded
  BY <1>1, <1>2, <1>4 DEF Billed
<1>6. r2.pc = "spendRow" /\ r2.d = d /\ r2.tag = r.tag /\ r2.piece = r.piece BY <1>1, <1>2, HookGoesOn DEF Spend
<1>7. /\ \A e \in Doc \ {c} : doc'[e] = doc[e]
      /\ Leaves(doc[c], doc'[c], {"order"}) /\ doc'[c].order = "redeemed" /\ doc'[c] \in DocRec
      /\ doc'[c].tag = doc[c].tag /\ doc'[c].legs = doc[c].legs
  BY <1>3, <1>4, OrderLeaves DEF Status
<1>8. \A e \in Doc : /\ doc'[e].state = doc[e].state /\ doc'[e].piece = doc[e].piece
                     /\ doc'[e].tag = doc[e].tag /\ doc'[e].legs = doc[e].legs
                     /\ doc'[e].refunded = doc[e].refunded
  BY <1>7 DEF Leaves
<1>9. Now' = r2 /\ HooksKnow' /\ RunKnows(r2)' BY <1>0, <1>1, <1>3, <1>6, <1>8, HookGoes DEF HookPc
<1>10. ASSUME NEW a \in Advance, a # c PROVE StoryOf(a, r2)' /\ Billed(a, r2)' /\ Carried(a, r2)'
  <2>0. a \in Doc BY AdvanceAssumption
  <2>1. doc'[a] = doc[a] /\ HasTold(a)' = HasTold(a) /\ HasLost(a)' = HasLost(a)
    BY <1>0, <1>7, <1>10, <2>0 DEF HasTold, HasLost
  <2>2. StoryOf(a, r2)' /\ (Unmoved(HasTold(a), Work(r, a)) => Unmoved(HasTold(a)', Work(r2, a))) /\ Work(r, a) # "settle"
    <3>1. CASE a # d BY <1>0, <1>1, <1>2, <1>4, <1>6, <1>10, <3>1, WorkIs, <2>1, StoryStays DEF HookPc, Unmoved
    <3>2. CASE a = d
      <4>1. PICK p, q, told, lost, st, ab :
              /\ p = row[d]["draft"] /\ q = row[d]["order"] /\ told = HasTold(d) /\ lost = HasLost(d)
              /\ st = Allowed("stuck") /\ ab = Allowed("abandon")
        OBVIOUS
      <4>2. d \in Advance BY <3>2
      <4>3. Story(d, x, p, q, told, lost, r.pc, st, ab) BY <1>0, <1>1, <4>1, <4>2, HookSays
      <4>4. /\ p \in RowRec /\ q \in RowRec /\ Story(d, x, p, q, told, lost, "spend", st, ab)
            /\ ~told /\ told \in BOOLEAN /\ lost \in BOOLEAN /\ st \in BOOLEAN /\ ab \in BOOLEAN
        BY <1>0, <1>1, <4>1, <4>2, <4>3, HookSays
      <4>5. Story(d, x, p, q, told, lost, "spendRow", st, ab) BY <1>2, <4>4, SpendOnStory
      <4>6. Work(r, d) = "spend" /\ Work(r2, d) = "spendRow" BY <1>0, <1>1, <1>6, WorkIs DEF HookPc
      <4>7. Story(d, doc'[d], row'[d]["draft"], row'[d]["order"], HasTold(d)', HasLost(d)', Work(r2, d),
                  Allowed("stuck"), Allowed("abandon"))
        BY <1>0, <1>1, <2>1, <3>2, <4>1, <4>5, <4>6
      <4>8. StoryOf(d, r2)' BY <1>0, <4>2, <4>7, StoryNext
      <4> QED BY <3>2, <4>6, <4>8 DEF Unmoved
    <3> QED BY <3>1, <3>2
  <2>3. ASSUME NEW e \in Doc, doc[e].legs[a] > 0, Unspent(e, r) PROVE Allowed("reject") \/ Unspent(e, r2)'
    BY <1>0, <1>1, <2>3, <1>2, <1>4, <1>10 DEF HasTold, Unspent, Billed, HookPc
  <2>4. Billed(a, r2)' BY <1>8, <2>3, <1>2, <2>1, <1>0, <1>1, BilledStays
  <2>5. Carried(a, r2)' BY <1>0, <1>1, <1>2, <1>8, <2>1, <2>2, <2>3, CarriedStays
  <2> QED BY <2>2, <2>4, <2>5
<1>11. StoryOf(c, r2)'
  <2>1. Work(r, c) = "none" /\ Work(r2, c) = "spending"
    BY <1>0, <1>1, <1>2, <1>4, <1>5, <1>6, WorkIs DEF HookPc
  <2>2. PICK z, y, p, q, told, lost, st, ab :
          /\ z = doc[c] /\ y = doc'[c]
          /\ p = row[c]["draft"] /\ q = row[c]["order"] /\ told = HasTold(c) /\ lost = HasLost(c)
          /\ st = Allowed("stuck") /\ ab = Allowed("abandon")
    OBVIOUS
  <2>3. /\ z \in DocRec /\ p \in RowRec /\ q \in RowRec /\ told \in BOOLEAN /\ lost \in BOOLEAN
        /\ st \in BOOLEAN /\ ab \in BOOLEAN
    BY <1>4, <2>2 DEF Typed, Name, HasTold, HasLost, Allowed
  <2>4. Story(c, z, p, q, told, lost, "none", st, ab) BY <1>2, <1>4, <2>1, <2>2 DEF StoryOf
  <2>5. Story(c, y, p, q, told, lost, "spending", st, ab) BY <1>5, <1>7, <2>2, <2>3, <2>4, SpendStory
  <2>6. HasTold(c)' = told /\ HasLost(c)' = lost BY <1>0, <2>2 DEF HasTold, HasLost
  <2> QED BY <1>0, <1>4, <2>1, <2>2, <2>5, <2>6, StoryNext
<1>12. Billed(c, r2)' BY <1>0, <1>2, <1>4, <1>1, <1>5, <1>7, <1>8 DEF Allowed, Billed, HookPc
<1>13. Carried(c, r2)' BY <1>2, <1>4, <1>1, <1>5, <1>8, <1>0, <1>7 DEF Carried
<1>14. \A a \in Advance : StoryOf(a, r2)' /\ Billed(a, r2)' /\ Carried(a, r2)' BY <1>10, <1>11, <1>12, <1>13
<1> QED BY <1>9, <1>14, AccountIs

LEMMA SpendRowAccount ==
  ASSUME Typed, Plainly, OneRequest, AccountInv, NEW s \in Slot, SpendRow(s) PROVE AccountInv'
<1>0. run[s].pc = "spendRow" /\ run[s].pc \in HookPc /\ UNCHANGED <<case, doc, hooks>> /\ Step(s)
  BY DEF SpendRow, Handling, Step, HookPc
<1>1. PICK r, r2, d, x : r = run[s] /\ r2 = run'[s] /\ d = run[s].d /\ x = doc[d] OBVIOUS
<1>2. /\ r \in HookRun /\ d \in Doc /\ x \in DocRec /\ x.state = "order" /\ r.tag = x.tag /\ HooksKnow
      /\ \A a \in Advance : StoryOf(a, r) /\ Billed(a, r) /\ Carried(a, r)
  BY <1>0, <1>1, HookHere
<1>3. PICK c \in r.tag : RedeemKnown(c, "order", d) BY <1>1 DEF SpendRow
<1>4. c \in Advance /\ c \in Doc /\ x.tag = {c} /\ d # c
  BY <1>1, <1>2, <1>3, AdvanceAssumption DEF HookRun, HooksKnow, Billed
<1>5. r2.pc = "own" /\ r2.d = d /\ r2.tag = r.tag /\ r2.piece = r.piece BY <1>1, <1>2, HookGoesOn DEF SpendRow
<1>6. Now' = r2 /\ HooksKnow' /\ RunKnows(r2)' BY <1>0, <1>1, <1>5, HookGoes DEF HookPc
<1>7. PICK q, q2 : q = row[c]["order"] /\ q2 = row'[c]["order"] OBVIOUS
<1>8. "order" \in Name /\ "draft" \in Name \ {"order"} BY DEF Name
<1>9. q \in RowRec /\ q2 \in RowRec
  <2>1. row' \in [Advance -> [Name -> RowRec]] BY <1>2, <1>3, <1>8, RowTyped
  <2> QED BY <1>4, <1>7, <1>8, <2>1 DEF Typed
<1>10. /\ \A b \in Advance \ {c} : row'[b] = row[b]
       /\ row'[c]["draft"] = row[c]["draft"]
       /\ q2.issued = q.issued /\ q2.status = IF q.status = "none" THEN "none" ELSE "redeemed"
  <2>1. CASE q.status = "none" BY <1>3, <1>7, <2>1 DEF RedeemKnown
  <2>2. CASE q.status # "none"
    <3>1. Retargets(c, "order", d, "redeemed") BY <1>3, <1>7, <2>2 DEF RedeemKnown, Retargets
    <3> QED BY <1>4, <1>7, <1>8, <2>2, <3>1, TargetWrites
  <2> QED BY <2>1, <2>2
<1>11. ASSUME NEW a \in Advance, a # c PROVE StoryOf(a, r2)' /\ Billed(a, r2)' /\ Carried(a, r2)'
  <2>1. CASE a # d BY <1>0, <1>1, <1>2, <1>4, <1>5, <1>11, <2>1, WorkIs, <1>10, HookPasses DEF HookPc
  <2>2. CASE a = d
    <3>1. PICK p, u, told, lost, st, ab :
            /\ p = row[d]["draft"] /\ u = row[d]["order"] /\ told = HasTold(d) /\ lost = HasLost(d)
            /\ st = Allowed("stuck") /\ ab = Allowed("abandon")
      OBVIOUS
    <3>2. d \in Advance BY <2>2
    <3>3. Story(d, x, p, u, told, lost, r.pc, st, ab) BY <1>0, <1>1, <3>1, <3>2, HookSays
    <3>4. /\ p \in RowRec /\ u \in RowRec /\ Story(d, x, p, u, told, lost, "spendRow", st, ab)
          /\ ~told /\ told \in BOOLEAN /\ lost \in BOOLEAN /\ st \in BOOLEAN /\ ab \in BOOLEAN
      BY <1>0, <1>1, <3>1, <3>2, <3>3, HookSays
    <3>5. Story(d, x, p, u, told, lost, "own", st, ab) BY <1>2, <3>4, SpendRowOnStory
    <3>6. Work(r, d) = "spendRow" /\ Work(r2, d) = "own" BY <1>0, <1>1, <1>5, WorkIs DEF HookPc
    <3>7. HasTold(d)' = told /\ HasLost(d)' = lost BY <1>0, <3>1 DEF HasTold, HasLost
    <3>8. row'[d] = row[d] BY <1>4, <1>10, <3>2
    <3>9. Story(d, doc'[d], row'[d]["draft"], row'[d]["order"], HasTold(d)', HasLost(d)', Work(r2, d),
                Allowed("stuck"), Allowed("abandon"))
      BY <1>0, <1>1, <3>1, <3>5, <3>6, <3>7, <3>8
    <3>10. StoryOf(d, r2)' BY <1>0, <3>2, <3>9, StoryNext
    <3>11. Billed(d, r) /\ Carried(d, r) BY <1>2, <3>2
    <3>12. \A e : Unspent(e, r) => Unspent(e, r2)' BY <1>0, <1>1, UnspentStays
    <3>13. Billed(d, r2)' BY <1>0, <1>1, <3>2, <3>11, <3>12, BilledStays
    <3>14. Unmoved(HasTold(d)', Work(r2, d)) BY <3>6 DEF Unmoved
    <3>15. Carried(d, r2)' BY <1>0, <3>2, <3>8, <3>11, <3>12, <3>14, CarriedStays
    <3> QED BY <2>2, <3>10, <3>13, <3>15
  <2> QED BY <2>1, <2>2
<1>12. StoryOf(c, r2)'
  <2>1. Work(r, c) = "spending" /\ Work(r2, c) = "none"
    BY <1>0, <1>1, <1>3, <1>4, <1>5, WorkIs DEF HookPc
  <2>2. PICK z, p, told, lost, st, ab :
          /\ z = doc[c] /\ p = row[c]["draft"] /\ told = HasTold(c) /\ lost = HasLost(c)
          /\ st = Allowed("stuck") /\ ab = Allowed("abandon")
    OBVIOUS
  <2>3. /\ z \in DocRec /\ p \in RowRec /\ told \in BOOLEAN /\ lost \in BOOLEAN
        /\ st \in BOOLEAN /\ ab \in BOOLEAN
    BY <1>4, <2>2 DEF Typed, Name, HasTold, HasLost, Allowed
  <2>4. Story(c, z, p, q, told, lost, "spending", st, ab) BY <1>2, <1>4, <1>7, <2>1, <2>2 DEF StoryOf
  <2>5. Story(c, z, p, q2, told, lost, "none", st, ab) BY <1>9, <1>10, <2>3, <2>4, SpendRowStory
  <2>6. HasTold(c)' = told /\ HasLost(c)' = lost BY <1>0, <2>2 DEF HasTold, HasLost
  <2> QED BY <1>0, <1>4, <1>7, <1>10, <2>1, <2>2, <2>5, <2>6, StoryNext
<1>13. Billed(c, r2)' /\ Carried(c, r2)'
  BY <1>2, <1>4, <1>0, <1>1, UnspentStays, BilledStays, <1>3, WorkIs, <1>7, <1>10, CarriedStays DEF HasTold, Unmoved
<1>14. \A a \in Advance : StoryOf(a, r2)' /\ Billed(a, r2)' /\ Carried(a, r2)' BY <1>11, <1>12, <1>13
<1> QED BY <1>6, <1>14, AccountIs

\* A webhook is taken up when nothing else runs.
LEMMA HandledNow ==
  ASSUME Typed, Plainly, AccountInv, CanStart(Hook), NEW r2, run' = [run EXCEPT ![Hook] = r2], r2.pc # "idle"
  PROVE  /\ run'[Hook] = r2 /\ Now' = r2 /\ Quiet /\ HooksKnow
         /\ \A a \in Advance : StoryOf(a, Idle) /\ Billed(a, Idle) /\ Carried(a, Idle)
  BY PlainlyIs, NextNow, QuietNow DEF CanStart, Slot, Typed, Quiet, Busy, AccountInv

LEMMA CompletedAccount ==
  ASSUME Typed, Plainly, AccountInv, NEW h \in hooks, HandleCompleted(h) PROVE AccountInv'
<1>0. CanStart(Hook) /\ hooks' = hooks \ {h} /\ UNCHANGED <<case, doc, row>> /\ h.kind = "completed"
  BY PlainlyIs DEF HandleCompleted
<1>1. PICK d, x, r2 : /\ d = h.d /\ x = doc[d]
                      /\ r2 = [pc |-> "copy", d |-> h.d, tag |-> h.tag, piece |-> h.piece, own |-> "none"]
  OBVIOUS
<1>2. r2.pc = "copy" /\ r2.d = d /\ r2.tag = h.tag /\ r2.piece = h.piece BY <1>1
<1>3. run' = [run EXCEPT ![Hook] = r2] BY <1>1 DEF HandleCompleted
<1>4. /\ Now' = r2 /\ HooksKnow
      /\ \A a \in Advance : StoryOf(a, Idle) /\ Billed(a, Idle) /\ Carried(a, Idle)
  BY <1>0, <1>2, <1>3, HandledNow
<1>5. d \in Doc /\ x.state = "order" /\ h.tag = x.tag /\ h.piece = x.piece /\ HasTold(d)
  BY <1>0, <1>1, <1>4 DEF HooksKnow, HasTold, Typed, HookRec
<1>6. ~HasTold(d)' /\ \A e : e # d => HasTold(e)' = HasTold(e) BY <1>0, <1>1, <1>4 DEF HooksKnow, HasTold
<1>7. \A e : HasLost(e)' = HasLost(e) BY <1>0 DEF HasLost
<1>8. HooksKnow' BY <1>0, <1>4 DEF HooksKnow
<1>9. RunKnows(r2)' BY <1>2, <1>0, <1>1, <1>5, <1>6 DEF HasTold, RunKnows, PassPc, HookPc
<1>10. \A e : Unspent(e, Idle) => Unspent(e, r2)' BY <1>2, <1>6 DEF Unspent, Idle
<1>11. ASSUME NEW a \in Advance PROVE StoryOf(a, r2)' /\ Billed(a, r2)' /\ Carried(a, r2)'
  <2>0. a \in Doc BY AdvanceAssumption
  <2>1. Work(Idle, a) = "none" /\ Work(r2, a) = IF a = d THEN "copy" ELSE "none" BY <1>2, WorkIs DEF Idle, HookPc
  <2>2. StoryOf(a, r2)'
    <3>1. CASE a # d BY <1>0, <1>4, <1>6, <1>7, <2>1, <3>1, StoryRests
    <3>2. CASE a = d
      <4>1. PICK p, q, told, told2, lost, st, ab :
              /\ p = row[d]["draft"] /\ q = row[d]["order"] /\ told = HasTold(d) /\ told2 = HasTold(d)'
              /\ lost = HasLost(d) /\ st = Allowed("stuck") /\ ab = Allowed("abandon")
        OBVIOUS
      <4>2. /\ x \in DocRec /\ p \in RowRec /\ q \in RowRec /\ told \in BOOLEAN /\ told2 \in BOOLEAN
            /\ lost \in BOOLEAN /\ st \in BOOLEAN /\ ab \in BOOLEAN /\ told /\ ~told2
        BY <1>1, <1>5, <1>6, <3>2, <4>1 DEF Typed, Name, HasTold, HasLost, Allowed
      <4>3. Story(d, x, p, q, told, lost, "none", st, ab) BY <1>1, <1>4, <2>1, <3>2, <4>1 DEF StoryOf
      <4>4. Story(d, x, p, q, told2, lost, "copy", st, ab) 
        <5>1. told = TRUE /\ told2 = FALSE BY <4>2
        <5>2. Story(d, x, p, q, TRUE, lost, "none", st, ab) BY <4>3, <5>1
        <5>3. x \in DocRec /\ p \in RowRec /\ q \in RowRec BY <4>2
        <5>4. lost \in BOOLEAN /\ st \in BOOLEAN /\ ab \in BOOLEAN BY <4>2
        <5>5. Story(d, x, p, q, FALSE, lost, "copy", st, ab) BY <5>2, <5>3, <5>4, HandledStory, Zenon
        <5> QED BY <5>1, <5>5
      <4>5. Story(d, doc'[d], row'[d]["draft"], row'[d]["order"], HasTold(d)', HasLost(d)', Work(r2, d),
                  Allowed("stuck"), Allowed("abandon"))
        BY <1>0, <1>1, <1>7, <2>1, <3>2, <4>1, <4>4
      <4> QED BY <1>0, <3>2, <4>5, StoryNext
    <3> QED BY <3>1, <3>2
  <2>3. Billed(a, r2)' BY <1>4, <1>0, <1>10, <2>0, BilledStays DEF Idle
  <2>4. Unmoved(HasTold(a), Work(Idle, a)) => Unmoved(HasTold(a)', Work(r2, a)) BY <1>6, <2>1 DEF Unmoved
  <2>5. Carried(a, r2)' BY <1>0, <1>4, <1>10, <2>0, <2>1, <2>4, CarriedStays
  <2> QED BY <2>2, <2>3, <2>5
<1> QED BY <1>4, <1>8, <1>9, <1>11, AccountIs

LEMMA DeletedAccount ==
  ASSUME Typed, Plainly, AccountInv, NEW h \in hooks, HandleDeleted(h) PROVE AccountInv'
<1>0. CanStart(Hook) /\ hooks' = hooks \ {h} /\ UNCHANGED <<case, doc, row>> /\ h.kind = "deleted"
  BY DEF HandleDeleted
<1>1. PICK d, x, r2 : d = h.d /\ x = doc[d] /\ r2 = [pc |-> "deleted", d |-> h.d, todo |-> {"close", "revert"}]
  OBVIOUS
<1>2. r2.pc = "deleted" /\ r2.d = d /\ "close" \in r2.todo BY <1>1
<1>3. run' = [run EXCEPT ![Hook] = r2] BY <1>1 DEF HandleDeleted
<1>4. /\ Now' = r2 /\ HooksKnow
      /\ \A a \in Advance : StoryOf(a, Idle) /\ Billed(a, Idle) /\ Carried(a, Idle)
  BY <1>0, <1>2, <1>3, HandledNow
<1>5. d \in Doc /\ x.state = "gone" BY <1>0, <1>1, <1>4 DEF HooksKnow, Typed, HookRec
<1>6. \A e : HasTold(e)' = HasTold(e) /\ (e # d => HasLost(e)' = HasLost(e)) BY <1>0, <1>1 DEF HasTold, HasLost
<1>7. HooksKnow' BY <1>0, <1>4 DEF HooksKnow
<1>8. RunKnows(r2)' BY <1>0, <1>1, <1>2, <1>5 DEF RunKnows, PassPc, HookPc
<1>9. \A e : Unspent(e, Idle) => Unspent(e, r2)' BY <1>6 DEF Unspent, Idle
<1>10. ASSUME NEW a \in Advance PROVE StoryOf(a, r2)' /\ Billed(a, r2)' /\ Carried(a, r2)'
  <2>0. a \in Doc BY AdvanceAssumption
  <2>1. Work(Idle, a) = "none" /\ Work(r2, a) = IF a = d THEN "closing" ELSE "none" BY <1>2, WorkIs DEF Idle
  <2>2. StoryOf(a, r2)'
    <3>1. CASE a # d BY <1>0, <1>4, <1>6, <2>1, <3>1, StoryRests
    <3>2. CASE a = d
      <4>1. PICK p, q, told, lost, lost2, st, ab :
              /\ p = row[d]["draft"] /\ q = row[d]["order"] /\ told = HasTold(d)
              /\ lost = HasLost(d) /\ lost2 = HasLost(d)' /\ st = Allowed("stuck") /\ ab = Allowed("abandon")
        OBVIOUS
      <4>2. /\ x \in DocRec /\ p \in RowRec /\ q \in RowRec /\ told \in BOOLEAN /\ lost2 \in BOOLEAN
            /\ lost \in BOOLEAN /\ st \in BOOLEAN /\ ab \in BOOLEAN
        BY <1>1, <1>5, <3>2, <4>1 DEF Typed, Name, HasTold, HasLost, Allowed
      <4>3. Story(d, x, p, q, told, lost, "none", st, ab) BY <1>1, <1>4, <2>1, <3>2, <4>1 DEF StoryOf
      <4>4. Story(d, x, p, q, told, lost2, "closing", st, ab) BY <1>5, <4>2, <4>3, LostStory
      <4>5. Story(d, doc'[d], row'[d]["draft"], row'[d]["order"], HasTold(d)', HasLost(d)', Work(r2, d),
                  Allowed("stuck"), Allowed("abandon"))
        BY <1>0, <1>1, <1>6, <2>1, <3>2, <4>1, <4>4
      <4> QED BY <1>0, <3>2, <4>5, StoryNext
    <3> QED BY <3>1, <3>2
  <2>3. Billed(a, r2)' BY <1>4, <1>0, <1>9, <2>0, BilledStays DEF Idle
  <2>4. Unmoved(HasTold(a), Work(Idle, a)) => Unmoved(HasTold(a)', Work(r2, a)) BY <1>6, <2>1 DEF Unmoved
  <2>5. Carried(a, r2)' BY <1>0, <1>4, <1>9, <2>0, <2>1, <2>4, CarriedStays
  <2> QED BY <2>2, <2>3, <2>5
<1> QED BY <1>4, <1>7, <1>8, <1>10, AccountIs

\* What follows a deletion, alone.
LEMMA DeletedHere ==
  ASSUME Typed, Plainly, OneRequest, AccountInv, NEW s \in Slot, run[s].pc = "deleted", Step(s),
         UNCHANGED <<case, doc, hooks>>, NEW what \in {"close", "revert"}, Tidied(s, what),
         NEW r, r = run[s], NEW r2, r2 = run'[s]
  PROVE  /\ r.d \in Doc /\ doc[r.d].state = "gone"
         /\ \A a \in Advance : StoryOf(a, r) /\ Billed(a, r) /\ Carried(a, r)
         /\ Now' = r2 /\ HooksKnow' /\ RunKnows(r2)' /\ r2.pc \in {"idle", "deleted"}
         /\ \A a : Work(r, a) = IF r.d = a /\ "close" \in r.todo THEN "closing" ELSE "none"
         /\ \A a : Work(r2, a) = IF what = "close" THEN "none" ELSE Work(r, a)
<1>1. Fits(run[s]) BY DEF Typed, Busy
<1>2. r \in DeleteRun BY <1>1 DEF Fits, PassRun, HookRun, DeleteRun, SweepRun, PassPc, HookPc
<1>3. Now = r BY NowIs
<1>4. /\ RunKnows(r) /\ HooksKnow
      /\ \A a \in Advance : StoryOf(a, r) /\ Billed(a, r) /\ Carried(a, r)
  BY <1>3 DEF AccountInv
<1>5. r.d \in Doc /\ doc[r.d].state = "gone" BY <1>2, <1>4 DEF DeleteRun, RunKnows
<1>6. \A t \in Slot \ {s} : run'[t].pc = "idle" BY StepRuns, QuietOrOne DEF Busy
<1>7. \/ r2 = Idle /\ r.todo = {what}
      \/ r2.pc = "deleted" /\ r2.d = r.d /\ r2.todo = r.todo \ {what}
  <2>1. CASE r.todo = {what} BY <2>1 DEF Tidied, Done, Typed
  <2>2. CASE r.todo # {what}
    <3>1. run' = [run EXCEPT ![s].todo = @ \ {what}] BY <2>2 DEF Tidied
    <3>2. PICK m : m = [run[s] EXCEPT !.todo = @ \ {what}] OBVIOUS
    <3>3. r2 = m BY <3>1, <3>2 DEF Typed
    <3>4. m.pc = "deleted" /\ m.d = r.d /\ m.todo = r.todo \ {what} BY <1>2, <3>2 DEF DeleteRun
    <3> QED BY <3>3, <3>4
  <2> QED BY <2>1, <2>2
<1>8. Now' = r2 BY <1>7, <1>6, NextNow
<1>9. HooksKnow' BY <1>4, HooksStill
<1>10. RunKnows(r2)' BY <1>5, <1>7 DEF RunKnows, Idle, PassPc, HookPc
<1>11. \A a : Work(r, a) = IF r.d = a /\ "close" \in r.todo THEN "closing" ELSE "none" BY WorkIs
<1>12. ASSUME NEW a PROVE Work(r2, a) = IF what = "close" THEN "none" ELSE Work(r, a) BY WorkIs, <1>7, <1>11 DEF Idle
<1>13. r2.pc \in {"idle", "deleted"} BY <1>7 DEF Idle
<1> QED BY <1>4, <1>5, <1>8, <1>9, <1>10, <1>11, <1>12, <1>13

\* Its own advance is closed.
LEMMA CloseDeletedAccount ==
  ASSUME Typed, Plainly, OneRequest, AccountInv, NEW s \in Slot, CloseDeleted(s) PROVE AccountInv'
<1>0. /\ run[s].pc = "deleted" /\ "close" \in run[s].todo /\ UNCHANGED <<case, doc, hooks>> /\ Step(s)
      /\ Tidied(s, "close")
  BY DEF CloseDeleted, Handling, Step
<1>1. PICK r, r2, d, x : r = run[s] /\ r2 = run'[s] /\ d = run[s].d /\ x = doc[d] OBVIOUS
<1>2. /\ d \in Doc /\ x.state = "gone" /\ x \in DocRec
      /\ \A a \in Advance : StoryOf(a, r) /\ Billed(a, r) /\ Carried(a, r)
      /\ Now' = r2 /\ HooksKnow' /\ RunKnows(r2)'
      /\ \A a : Work(r, a) = IF d = a THEN "closing" ELSE "none"
      /\ \A a : Work(r2, a) = "none"
  <2>1. "close" \in {"close", "revert"} OBVIOUS
  <2>2. /\ d \in Doc /\ x.state = "gone"
        /\ \A a \in Advance : StoryOf(a, r) /\ Billed(a, r) /\ Carried(a, r)
        /\ Now' = r2 /\ HooksKnow' /\ RunKnows(r2)'
        /\ \A a : Work(r, a) = IF d = a /\ "close" \in r.todo THEN "closing" ELSE "none"
        /\ \A a : Work(r2, a) = IF "close" = "close" THEN "none" ELSE Work(r, a)
    BY <1>0, <1>1, <2>1, DeletedHere
  <2>3. x \in DocRec BY <1>1, <2>2 DEF Typed
  <2> QED BY <1>0, <1>1, <2>2, <2>3
<1>3. PICK p, p2 : p = row[d]["draft"] /\ p2 = row'[d]["draft"] OBVIOUS
<1>4. /\ \A b \in Advance \ {d} : row'[b] = row[b]
      /\ \A b \in Advance : row'[b]["order"] = row[b]["order"]
      /\ d \in Advance => \/ p2 = p /\ ~(p.status \in Live /\ p.issued)
                          \/ p.status \in Live /\ p2.status = "deleted" /\ p2.issued = p.issued
  <2>1. CASE d \in Advance /\ p.issued /\ p.status \in Live
    <3>1. Restates(d, "draft", "deleted")
      BY <1>1, <1>3, <2>1 DEF CloseDeleted, CloseInstrument, Restates
    <3>2. "draft" \in Name /\ "order" \in Name \ {"draft"} BY DEF Name
    <3> QED BY <1>3, <2>1, <3>1, <3>2, RestateWrites
  <2>2. CASE ~(d \in Advance /\ p.issued /\ p.status \in Live) BY <1>1, <1>3, <2>2 DEF CloseDeleted, CloseInstrument
  <2> QED BY <2>1, <2>2
<1>5. row' \in [Advance -> [Name -> RowRec]] BY <1>1, <1>2, RowTyped DEF RowStatus, Name, CloseDeleted, Typed
<1>6. \A e : Unspent(e, r) => Unspent(e, r2)' BY <1>0, <1>1, UnspentStays
<1>7. ASSUME NEW a \in Advance PROVE StoryOf(a, r2)' /\ Billed(a, r2)' /\ Carried(a, r2)'
  <2>0. a \in Doc BY AdvanceAssumption
  <2>1. StoryOf(a, r2)'
    <3>1. CASE a # d BY <1>0, <1>2, <1>4, <3>1, StoryStays
    <3>2. CASE a = d
      <4>1. PICK q, told, lost, st, ab :
              /\ q = row[d]["order"] /\ told = HasTold(d)
              /\ lost = HasLost(d) /\ st = Allowed("stuck") /\ ab = Allowed("abandon")
        OBVIOUS
      <4>2. /\ p \in RowRec /\ p2 \in RowRec /\ q \in RowRec /\ told \in BOOLEAN
            /\ lost \in BOOLEAN /\ st \in BOOLEAN /\ ab \in BOOLEAN
        BY <1>3, <1>5, <3>2, <4>1 DEF Typed, Name, HasTold, HasLost, Allowed
      <4>3. Story(d, x, p, q, told, lost, "closing", st, ab) BY <1>1, <1>2, <1>3, <3>2, <4>1 DEF StoryOf
      <4>4. Story(d, x, p2, q, told, lost, "none", st, ab) BY <1>2, <1>4, <3>2, <4>2, <4>3, CloseDeletedStory
      <4>5. HasTold(d)' = told /\ HasLost(d)' = lost BY <1>0, <4>1 DEF HasTold, HasLost
      <4>6. Story(d, doc'[d], row'[d]["draft"], row'[d]["order"], HasTold(d)', HasLost(d)', Work(r2, d),
                  Allowed("stuck"), Allowed("abandon"))
        BY <1>0, <1>1, <1>2, <1>3, <1>4, <3>2, <4>1, <4>4, <4>5
      <4> QED BY <1>0, <3>2, <4>6, StoryNext
    <3> QED BY <3>1, <3>2
  <2>2. Billed(a, r2)' BY <1>0, <1>1, <1>2, <1>6, <2>0, BilledStays
  <2>3. HasTold(a)' = HasTold(a) BY <1>0 DEF HasTold
  <2>4. Unmoved(HasTold(a), Work(r, a)) => Unmoved(HasTold(a)', Work(r2, a)) BY <1>2, <2>3 DEF Unmoved
  <2>5. Work(r, a) # "settle" BY <1>2
  <2>6. Carried(a, r2)' BY <1>0, <1>2, <1>4, <1>6, <2>0, <2>4, <2>5, CarriedStays
  <2> QED BY <2>1, <2>2, <2>6
<1> QED BY <1>2, <1>7, AccountIs

\* What was applied to it is open again.
LEMMA RevertAccount ==
  ASSUME Typed, Plainly, OneRequest, AccountInv, NEW s \in Slot, Revert(s) PROVE AccountInv'
<1>0. /\ run[s].pc = "deleted" /\ UNCHANGED <<case, doc, hooks>> /\ Step(s)
      /\ Tidied(s, "revert") /\ RevertApplied(run[s].d)
  BY DEF Revert, Handling, Step
<1>1. PICK r, r2, d : r = run[s] /\ r2 = run'[s] /\ d = run[s].d OBVIOUS
<1>2. /\ d \in Doc /\ doc[d].state = "gone"
      /\ \A a \in Advance : StoryOf(a, r) /\ Billed(a, r) /\ Carried(a, r)
      /\ Now' = r2 /\ HooksKnow' /\ RunKnows(r2)'
      /\ \A a : Work(r, a) \in {"none", "closing"} /\ Work(r2, a) = Work(r, a)
  BY <1>0, <1>1, DeletedHere
<1>3. row' \in [Advance -> [Name -> RowRec]] BY <1>0, <1>1, <1>2, RowTyped DEF Name
<1>4. \A e : Unspent(e, r) => Unspent(e, r2)' BY <1>0, <1>1, UnspentStays
<1>5. ASSUME NEW a \in Advance PROVE StoryOf(a, r2)' /\ Billed(a, r2)' /\ Carried(a, r2)'
  <2>0. a \in Doc BY AdvanceAssumption
  <2>1. PICK x, p, p2, q, q2, told, lost, st, ab :
          /\ x = doc[a] /\ p = row[a]["draft"] /\ q = row[a]["order"] /\ p2 = row'[a]["draft"] /\ q2 = row'[a]["order"]
          /\ told = HasTold(a) /\ lost = HasLost(a) /\ st = Allowed("stuck") /\ ab = Allowed("abandon")
    OBVIOUS
  <2>2. /\ x \in DocRec /\ p \in RowRec /\ p2 \in RowRec /\ q \in RowRec /\ q2 \in RowRec /\ told \in BOOLEAN
        /\ lost \in BOOLEAN /\ st \in BOOLEAN /\ ab \in BOOLEAN
    BY <1>3, <2>0, <2>1 DEF Typed, Name, HasTold, HasLost, Allowed
  <2>3. PICK w : w = Work(r, a) OBVIOUS
  <2>4. Story(a, x, p, q, told, lost, w, st, ab) BY <1>2, <2>1, <2>3 DEF StoryOf
  <2>5. /\ p2 = p \/ (p.status = "applied" /\ p.target = d /\ p2.status = "open" /\ p2.issued = p.issued)
        /\ q2 = q \/ (q.status = "applied" /\ q.target = d /\ q2.status = "open" /\ q2.issued = q.issued)
    BY <1>0, <1>1, <2>1, RevertWrites DEF Name
  <2>6. p.status = "applied" /\ p.target = d => x.state = "gone" BY <2>4, <1>2, <2>1 DEF Story, Early
  <2>7. q.status = "applied" /\ q.target = d => ab BY <1>2, <2>1, <2>4 DEF Carried, Story, Early, Billed, NoRow
  <2>8. Story(a, x, p2, q2, told, lost, w, st, ab) BY <1>2, <2>3, <2>2, <2>4, <2>5, <2>6, <2>7, RevertStory
  <2>9. HasTold(a)' = told /\ HasLost(a)' = lost BY <1>0, <2>1 DEF HasTold, HasLost
  <2>10. StoryOf(a, r2)' BY <1>0, <1>2, <2>1, <2>3, <2>8, <2>9, StoryNext
  <2>11. Billed(a, r2)' BY <1>0, <1>1, <1>2, <1>4, <2>0, BilledStays
  <2>12. row'[a]["order"] = row[a]["order"] \/ row'[a]["order"].status # "applied" BY <2>1, <2>5
  <2>13. Carried(a, r2)' BY <1>0, <1>2, <1>4, <2>0, <2>1, <2>9, <2>12, CarriedStays
  <2> QED BY <2>10, <2>11, <2>13
<1> QED BY <1>2, <1>5, AccountIs

\* Staff leave documents alone while a request runs.
LEMMA RestsHere ==
  ASSUME Plainly, AccountInv, Untouched \/ Quiet
  PROVE  /\ Quiet /\ Now = Idle /\ HooksKnow
         /\ \A a \in Advance : StoryOf(a, Idle) /\ Billed(a, Idle) /\ Carried(a, Idle)
  BY PlainlyIs, QuietNow DEF Untouched, AccountInv

LEMMA IdleIs ==
  /\ RunKnows(Idle)' /\ Idle.pc = "idle" /\ \A a : Work(Idle, a) = "none"
  /\ UNCHANGED hooks => \A e : Unspent(e, Idle) => Unspent(e, Idle)'
  BY WorkIs DEF RunKnows, Idle, PassPc, HookPc, Unspent, HasTold

\* One draft, or order, is written to and goes on.
LEMMA DeskAccount ==
  ASSUME Typed, Plainly, AccountInv, Quiet, UNCHANGED <<case, row, run, hooks>>,
         NEW d \in Doc, NEW x, x = doc[d], NEW y, y = doc'[d], \A e \in Doc \ {d} : doc'[e] = doc[e],
         y.state = x.state, y.tag = x.tag, y.legs = x.legs, y.order = x.order,
         y.piece = x.piece \/ (y.piece /\ x.state = "draft"), y.refunded = x.refunded \/ x.state = "draft",
         NEW p, p = row[d]["draft"], NEW q, q = row[d]["order"],
         NEW told, told = HasTold(d), NEW lost, lost = HasLost(d),
         NEW st, st = Allowed("stuck"), NEW ab, ab = Allowed("abandon"),
         d \in Advance => Story(d, y, p, q, told, lost, "none", st, ab)
  PROVE  AccountInv'
<1>1. /\ HooksKnow /\ \A a \in Advance : StoryOf(a, Idle) /\ Billed(a, Idle) /\ Carried(a, Idle)
  BY RestsHere
<1>2. Now' = Idle BY QuietNow
<1>3. \A e \in Doc : /\ doc'[e].state = doc[e].state /\ doc'[e].tag = doc[e].tag
                     /\ doc'[e].legs = doc[e].legs /\ doc'[e].order = doc[e].order
                     /\ doc'[e].piece = doc[e].piece \/ (doc'[e].piece /\ doc[e].state = "draft")
                     /\ doc'[e].refunded = doc[e].refunded \/ doc[e].state = "draft"
  OBVIOUS
<1>4. HooksKnow' BY <1>1, <1>3 DEF Typed, HookRec, HooksKnow
<1>5. \A e : Unspent(e, Idle) => Unspent(e, Idle)' BY IdleIs
<1>6. ASSUME NEW a \in Advance PROVE StoryOf(a, Idle)' /\ Billed(a, Idle)' /\ Carried(a, Idle)'
  <2>0. a \in Doc BY AdvanceAssumption
  <2>1. Work(Idle, a) = "none" BY IdleIs
  <2>2. StoryOf(a, Idle)'
    <3>1. CASE a # d BY <1>1, <2>0, <3>1, StoryStays
    <3>2. CASE a = d
      <4>1. HasTold(d)' = told /\ HasLost(d)' = lost BY DEF HasTold, HasLost
      <4>2. Story(d, doc'[d], row'[d]["draft"], row'[d]["order"], HasTold(d)', HasLost(d)', Work(Idle, d),
                  Allowed("stuck"), Allowed("abandon"))
        BY <2>1, <3>2, <4>1
      <4> QED BY <3>2, <4>2, StoryNext
    <3> QED BY <3>1, <3>2
  <2>3. Billed(a, Idle)' BY <1>1, <1>3, <1>5, <2>0, IdleIs, BilledStays
  <2>4. HasTold(a)' = HasTold(a) BY DEF HasTold
  <2>5. Unmoved(HasTold(a), Work(Idle, a)) => Unmoved(HasTold(a)', Work(Idle, a)) BY <2>4 DEF Unmoved
  <2>6. Carried(a, Idle)' BY <1>1, <1>3, <1>5, <2>0, <2>1, <2>5, CarriedStays
  <2> QED BY <2>2, <2>3, <2>6
<1>7. RunKnows(Idle)' BY IdleIs
<1> QED BY <1>2, <1>4, <1>6, <1>7, AccountIs

\* What is said of an advance at rest.
LEMMA RestSays ==
  ASSUME Typed, Plainly, AccountInv, Quiet, NEW d \in Advance, NEW x, x = doc[d],
         NEW p, p = row[d]["draft"], NEW q, q = row[d]["order"],
         NEW told, told = HasTold(d), NEW lost, lost = HasLost(d),
         NEW st, st = Allowed("stuck"), NEW ab, ab = Allowed("abandon")
  PROVE  /\ Story(d, x, p, q, told, lost, "none", st, ab)
         /\ d \in Doc /\ x \in DocRec /\ p \in RowRec /\ q \in RowRec
         /\ told \in BOOLEAN /\ lost \in BOOLEAN /\ st \in BOOLEAN /\ ab \in BOOLEAN
<1>1. StoryOf(d, Idle) /\ Work(Idle, d) = "none" BY RestsHere, IdleIs
<1>2. Story(d, x, p, q, told, lost, "none", st, ab) BY <1>1 DEF StoryOf
<1>3. d \in Doc BY AdvanceAssumption
<1>4. x \in DocRec /\ p \in RowRec /\ q \in RowRec BY <1>3 DEF Typed, Name
<1>5. told \in BOOLEAN /\ lost \in BOOLEAN /\ st \in BOOLEAN /\ ab \in BOOLEAN BY DEF HasTold, HasLost, Allowed
<1> QED BY <1>2, <1>3, <1>4, <1>5

LEMMA DeskLeaves ==
  ASSUME Typed, NEW d \in Doc, doc[d].state = "draft"
  PROVE  /\ Write(d, [doc[d] EXCEPT !.line = TRUE, !.paid = TRUE]) =>
              /\ Leaves(doc[d], doc'[d], {"line", "paid", "dirty"}) /\ doc'[d].line /\ doc'[d].paid
              /\ doc'[d].dirty /\ doc'[d] \in DocRec /\ doc'[d].tag = doc[d].tag /\ doc'[d].legs = doc[d].legs
              /\ \A e \in Doc \ {d} : doc'[e] = doc[e]
         /\ Write(d, [doc[d] EXCEPT !.piece = TRUE]) =>
              /\ Leaves(doc[d], doc'[d], {"piece", "dirty"}) /\ doc'[d].piece
              /\ doc'[d].dirty /\ doc'[d] \in DocRec /\ doc'[d].tag = doc[d].tag /\ doc'[d].legs = doc[d].legs
              /\ \A e \in Doc \ {d} : doc'[e] = doc[e]
         /\ Write(d, [doc[d] EXCEPT !.refunded = TRUE]) =>
              /\ Leaves(doc[d], doc'[d], {"refunded", "dirty"}) /\ doc'[d].refunded
              /\ doc'[d].dirty /\ doc'[d] \in DocRec /\ doc'[d].tag = doc[d].tag /\ doc'[d].legs = doc[d].legs
              /\ \A e \in Doc \ {d} : doc'[e] = doc[e]
<1>1. PICK x : x = doc[d] OBVIOUS
<1>2. x \in DocRec BY <1>1 DEF Typed
<1>3. ASSUME NEW z \in DocRec, Write(d, z)
      PROVE  /\ Leaves(z, doc'[d], {"dirty"}) /\ doc'[d].dirty /\ doc'[d] \in DocRec
             /\ doc'[d].tag = z.tag /\ doc'[d].legs = z.legs /\ \A e \in Doc \ {d} : doc'[e] = doc[e]
  BY <1>3, DraftLeaves
<1>4. PICK z : z = [x EXCEPT !.line = TRUE, !.paid = TRUE] OBVIOUS
<1>5. /\ z \in DocRec /\ Leaves(x, z, {"line", "paid"}) /\ z.line /\ z.paid /\ z.tag = x.tag /\ z.legs = x.legs
  BY <1>2, <1>4 DEF DocRec, Leaves
<1>6. ASSUME Write(d, z)
      PROVE  /\ Leaves(x, doc'[d], {"line", "paid", "dirty"}) /\ doc'[d].line /\ doc'[d].paid
             /\ doc'[d].dirty /\ doc'[d] \in DocRec /\ doc'[d].tag = x.tag /\ doc'[d].legs = x.legs
             /\ \A e \in Doc \ {d} : doc'[e] = doc[e]
  BY <1>3, <1>5, <1>6 DEF Leaves
<1>7. PICK u : u = [x EXCEPT !.piece = TRUE] OBVIOUS
<1>8. u \in DocRec /\ Leaves(x, u, {"piece"}) /\ u.piece /\ u.tag = x.tag /\ u.legs = x.legs
  BY <1>2, <1>7 DEF DocRec, Leaves
<1>9. ASSUME Write(d, u)
      PROVE  /\ Leaves(x, doc'[d], {"piece", "dirty"}) /\ doc'[d].piece
             /\ doc'[d].dirty /\ doc'[d] \in DocRec /\ doc'[d].tag = x.tag /\ doc'[d].legs = x.legs
             /\ \A e \in Doc \ {d} : doc'[e] = doc[e]
  BY <1>3, <1>8, <1>9 DEF Leaves
<1>10. PICK v : v = [x EXCEPT !.refunded = TRUE] OBVIOUS
<1>11. v \in DocRec /\ Leaves(x, v, {"refunded"}) /\ v.refunded /\ v.tag = x.tag /\ v.legs = x.legs
  BY <1>2, <1>10 DEF DocRec, Leaves
<1>12. ASSUME Write(d, v)
      PROVE  /\ Leaves(x, doc'[d], {"refunded", "dirty"}) /\ doc'[d].refunded
             /\ doc'[d].dirty /\ doc'[d] \in DocRec /\ doc'[d].tag = x.tag /\ doc'[d].legs = x.legs
             /\ \A e \in Doc \ {d} : doc'[e] = doc[e]
  BY <1>3, <1>11, <1>12 DEF Leaves
<1> QED BY <1>1, <1>4, <1>6, <1>7, <1>9, <1>10, <1>12

\* An advance is taken; a piece is added; money is given back; a reference is typed in.
LEMMA StaffAccount ==
  ASSUME Typed, Plainly, AccountInv,
         \/ \E a \in Advance : Take(a) \/ AddPiece(a) \/ PayBack(a)
         \/ \E d \in Doc, a \in Advance : Refer(d, a)
  PROVE  AccountInv'
<1>1. ASSUME NEW a \in Advance, Take(a) \/ AddPiece(a) \/ PayBack(a) PROVE AccountInv'
  <2>1. Untouched /\ UNCHANGED <<case, row, run, hooks>> BY <1>1 DEF Take, AddPiece, PayBack, Keep
  <2>2. Quiet BY <2>1, RestsHere
  <2>3. PICK x, y, p, q, told, lost, st, ab :
          /\ x = doc[a] /\ y = doc'[a] /\ p = row[a]["draft"] /\ q = row[a]["order"]
          /\ told = HasTold(a) /\ lost = HasLost(a) /\ st = Allowed("stuck") /\ ab = Allowed("abandon")
    OBVIOUS
  <2>4. /\ Story(a, x, p, q, told, lost, "none", st, ab)
        /\ a \in Doc /\ x \in DocRec /\ p \in RowRec /\ q \in RowRec
        /\ told \in BOOLEAN /\ lost \in BOOLEAN /\ st \in BOOLEAN /\ ab \in BOOLEAN
    BY <2>2, <2>3, RestSays
  <2>5. x.state = "draft" BY <1>1, <2>3, PlainlyIs DEF Take, AddPiece, PayBack
  <2>6. /\ Story(a, y, p, q, told, lost, "none", st, ab)
        /\ y.state = x.state /\ y.tag = x.tag /\ y.legs = x.legs /\ y.order = x.order
        /\ y.piece = x.piece \/ y.piece
        /\ \A e \in Doc \ {a} : doc'[e] = doc[e]
    <3>1. CASE Take(a)
      <4>1. Write(a, [doc[a] EXCEPT !.line = TRUE, !.paid = TRUE]) /\ ~x.paid BY <2>3, <3>1 DEF Take
      <4>2. /\ Leaves(x, y, {"line", "paid", "dirty"}) /\ y.line /\ y.paid /\ y.dirty /\ y \in DocRec
            /\ y.tag = x.tag /\ y.legs = x.legs /\ \A e \in Doc \ {a} : doc'[e] = doc[e]
        BY <2>3, <2>4, <2>5, <4>1, DeskLeaves
      <4>3. Story(a, y, p, q, told, lost, "none", st, ab) BY <2>4, <2>5, <4>1, <4>2, TakeStory
      <4> QED BY <4>2, <4>3 DEF Leaves
    <3>2. CASE AddPiece(a)
      <4>1. Write(a, [doc[a] EXCEPT !.piece = TRUE]) /\ x.paid BY <2>3, <3>2 DEF AddPiece
      <4>2. /\ Leaves(x, y, {"piece", "dirty"}) /\ y.piece /\ y.dirty /\ y \in DocRec
            /\ y.tag = x.tag /\ y.legs = x.legs /\ \A e \in Doc \ {a} : doc'[e] = doc[e]
        BY <2>3, <2>4, <2>5, <4>1, DeskLeaves
      <4>3. Story(a, y, p, q, told, lost, "none", st, ab) BY <2>4, <2>5, <4>1, <4>2, AddPieceStory
      <4> QED BY <4>2, <4>3 DEF Leaves
    <3>3. CASE PayBack(a)
      <4>1. Write(a, [doc[a] EXCEPT !.refunded = TRUE]) /\ x.status \in Live BY <2>3, <3>3 DEF PayBack
      <4>2. /\ Leaves(x, y, {"refunded", "dirty"}) /\ y.refunded /\ y.dirty /\ y \in DocRec
            /\ y.tag = x.tag /\ y.legs = x.legs /\ \A e \in Doc \ {a} : doc'[e] = doc[e]
        BY <2>3, <2>4, <2>5, <4>1, DeskLeaves
      <4>3. Story(a, y, p, q, told, lost, "none", st, ab) BY <2>4, <2>5, <4>1, <4>2, PayBackStory
      <4> QED BY <4>2, <4>3 DEF Leaves
    <3> QED BY <1>1, <3>1, <3>2, <3>3
  <2> QED BY <2>1, <2>2, <2>3, <2>4, <2>5, <2>6, DeskAccount
<1>2. ASSUME NEW d \in Doc, NEW c \in Advance, Refer(d, c) PROVE AccountInv'
  <2>1. Untouched /\ UNCHANGED <<case, row, run, hooks>> BY <1>2 DEF Refer, Keep
  <2>2. Quiet BY <2>1, RestsHere
  <2>3. PICK x, y, p, q, told, lost, st, ab :
          /\ x = doc[d] /\ y = doc'[d] /\ p = row[d]["draft"] /\ q = row[d]["order"]
          /\ told = HasTold(d) /\ lost = HasLost(d) /\ st = Allowed("stuck") /\ ab = Allowed("abandon")
    OBVIOUS
  <2>4. /\ Leaves(x, y, {"dirty"}) /\ y.dirty /\ y \in DocRec /\ y.tag = x.tag /\ y.legs = x.legs
        /\ \A e \in Doc \ {d} : doc'[e] = doc[e] BY <1>2, <2>3, RefLeaves DEF Refer
  <2>5. ASSUME d \in Advance PROVE Story(d, y, p, q, told, lost, "none", st, ab)
    BY <2>2, <2>3, <2>5, RestSays, <2>4, OtherStory
  <2>6. y.state = x.state /\ y.order = x.order /\ y.piece = x.piece /\ y.refunded = x.refunded
    BY <2>4 DEF Leaves
  <2> QED BY <2>1, <2>2, <2>3, <2>4, <2>5, <2>6, DeskAccount
<1> QED BY <1>1, <1>2

\* Months pass.
LEMMA AgeAccount ==
  ASSUME Typed, Plainly, AccountInv, NEW a \in Advance, GrowOld(a) PROVE AccountInv'
<1>0. Quiet /\ hooks = {} /\ UNCHANGED <<case, row, run, hooks>> BY DEF GrowOld, Keep
<1>1. PICK x, y, p, q, told, lost, st, ab :
        /\ x = doc[a] /\ y = doc'[a] /\ p = row[a]["draft"] /\ q = row[a]["order"]
        /\ told = HasTold(a) /\ lost = HasLost(a) /\ st = Allowed("stuck") /\ ab = Allowed("abandon")
  OBVIOUS
<1>2. /\ Story(a, x, p, q, told, lost, "none", st, ab)
      /\ a \in Doc /\ x \in DocRec /\ p \in RowRec /\ q \in RowRec
      /\ told \in BOOLEAN /\ lost \in BOOLEAN /\ st \in BOOLEAN /\ ab \in BOOLEAN
  BY <1>0, <1>1, RestSays
<1>3. ~told /\ ~lost /\ ~x.dirty /\ x.status # "none" BY <1>0, <1>1, <1>2 DEF HasTold, HasLost, GrowOld
<1>4. PICK v \in {"stale", "over"} :
        /\ doc' = [doc EXCEPT ![a].age = v]
        /\ \/ x.age = "new" /\ v = "stale"
           \/ x.age = "stale" /\ v = "over" /\ (Convertible(a) => st)
  BY <1>1 DEF GrowOld
<1>5. y = [x EXCEPT !.age = v] /\ \A e \in Doc \ {a} : doc'[e] = doc[e] BY <1>1, <1>2, <1>4 DEF Typed
<1>6. /\ Leaves(x, y, {"age"}) /\ y.age = v /\ y \in DocRec /\ y.tag = x.tag /\ y.legs = x.legs
  BY <1>2, <1>4, <1>5 DEF DocRec, Leaves
<1>7. \/ x.age = "new" /\ y.age = "stale"
      \/ /\ x.age = "stale" /\ y.age = "over"
         /\ p.status = "open" /\ p.issued /\ x.state = "draft" /\ x.line /\ ~x.piece => st
  BY <1>1, <1>4, <1>6 DEF Convertible, Stale
<1>8. Story(a, y, p, q, told, lost, "none", st, ab) BY <1>2, <1>3, <1>6, <1>7, GrowStory
<1>9. y.state = x.state /\ y.order = x.order /\ y.piece = x.piece /\ y.refunded = x.refunded
  BY <1>6 DEF Leaves
<1> QED BY <1>0, <1>1, <1>2, <1>5, <1>6, <1>8, <1>9, DeskAccount

\* A draft ends.
LEMMA EndAccount ==
  ASSUME Typed, Plainly, HooksKnow, UNCHANGED <<case, row>>, Now' = Idle,
         NEW r, r.pc \in {"idle", "convert"},
         \A a \in Advance : StoryOf(a, r) /\ Billed(a, r) /\ Carried(a, r),
         NEW d \in Doc, NEW x, x = doc[d], NEW y, y = doc'[d], x.state = "draft",
         \A e \in Doc \ {d} : doc'[e] = doc[e],
         Leaves(x, y, {"state", "dirty"}), y \in DocRec, y.tag = x.tag, y.legs = x.legs,
         NEW h, hooks' = hooks \cup {h}, h.d = d,
         \/ /\ y.state = "order" /\ h.kind = "completed" /\ h.tag = x.tag /\ h.piece = x.piece
            /\ ~x.dirty /\ (x.piece \/ x.line) /\ ~(x.refunded /\ x.piece)
         \/ /\ y.state = "gone" /\ h.kind = "deleted"
            /\ x.legs = NoLegs \/ Allowed("abandon")
  PROVE  AccountInv'
<1>1. y.piece = x.piece /\ y.order = x.order /\ y.refunded = x.refunded BY DEF Leaves
<1>2. \A g \in hooks : g.d \in Doc /\ g.d # d BY DEF Typed, HookRec, HooksKnow
<1>3. HooksKnow' BY <1>2, <1>1 DEF HooksKnow
<1>4. /\ \A e : e # d => HasTold(e)' = HasTold(e) /\ HasLost(e)' = HasLost(e)
      /\ \A e : HasTold(e) => HasTold(e)'
      /\ y.state = "order" => HasTold(d)' /\ HasLost(d)' = HasLost(d)
      /\ y.state = "gone" => HasLost(d)' /\ HasTold(d)' = HasTold(d)
  BY DEF HasTold, HasLost
<1>5. \A e : Unspent(e, r) => Unspent(e, Idle)' BY <1>4 DEF Unspent
<1>6. \A a : Work(r, a) = "none" /\ Work(Idle, a) = "none" BY WorkIs DEF Idle
<1>7. ASSUME NEW a \in Advance, a # d PROVE StoryOf(a, Idle)' /\ Billed(a, Idle)' /\ Carried(a, Idle)'
  BY <1>7, AdvanceAssumption, <1>4, <1>6, StoryRests, <1>5 DEF Allowed, NoLegs, Unspent, Billed, Unmoved, Carried
<1>8. ASSUME d \in Advance PROVE StoryOf(d, Idle)' /\ Billed(d, Idle)' /\ Carried(d, Idle)'
  <2>1. PICK p, q, told, told2, lost, lost2, st, ab :
          /\ p = row[d]["draft"] /\ q = row[d]["order"] /\ told = HasTold(d) /\ told2 = HasTold(d)'
          /\ lost = HasLost(d) /\ lost2 = HasLost(d)' /\ st = Allowed("stuck") /\ ab = Allowed("abandon")
    OBVIOUS
  <2>2. /\ x \in DocRec /\ p \in RowRec /\ q \in RowRec BY <1>8, <2>1 DEF Typed, Name
  <2>3. /\ told \in BOOLEAN /\ told2 \in BOOLEAN /\ lost \in BOOLEAN /\ lost2 \in BOOLEAN
        /\ st \in BOOLEAN /\ ab \in BOOLEAN
    BY <2>1 DEF HasTold, HasLost, Allowed
  <2>4. Story(d, x, p, q, told, lost, "none", st, ab) BY <1>6, <1>8, <2>1 DEF StoryOf
  <2>5. Story(d, y, p, q, told2, lost2, "none", st, ab)
    BY <1>4, <2>1, <2>2, <2>3, <2>4 DEF Story, Early, Drafted, Lined, Ordered, Unmoved, PassPc, HookPc, DocRec,
       RowRec, NoRow, Live, SeekPc, Seeking, Leaves, Lost, Returned
  <2>6. StoryOf(d, Idle)' BY <1>6, <2>1, <2>5, <1>8, StoryNext
  <2>7. x.order = "none" /\ q = NoRow BY <2>4 DEF Story, Early
  <2>8. \A e \in Doc : ~(doc'[e].legs[d] > 0) /\ d \notin doc'[e].tag BY <1>8, <2>7 DEF Billed
  <2>9. Billed(d, Idle)' BY <2>8 DEF Billed
  <2>10. doc'[d].order = "none" /\ row'[d]["order"].status # "applied" BY <1>1, <2>1, <2>7 DEF NoRow
  <2>11. Carried(d, Idle)' BY <2>10 DEF Carried
  <2> QED BY <2>6, <2>9, <2>11
<1>9. \A a \in Advance : StoryOf(a, Idle)' /\ Billed(a, Idle)' /\ Carried(a, Idle)' BY <1>7, <1>8
<1>10. RunKnows(Idle)' BY IdleIs
<1> QED BY <1>3, <1>9, <1>10, AccountIs

LEMMA EndLeaves ==
  ASSUME Typed, NEW d \in Doc, NEW st \in {"order", "gone"},
         doc' = [doc EXCEPT ![d].state = st, ![d].dirty = FALSE]
  PROVE  /\ \A e \in Doc \ {d} : doc'[e] = doc[e]
         /\ Leaves(doc[d], doc'[d], {"state", "dirty"}) /\ doc'[d].state = st /\ doc'[d] \in DocRec
         /\ doc'[d].tag = doc[d].tag /\ doc'[d].legs = doc[d].legs
<1>1. PICK x, y : x = doc[d] /\ y = [doc[d] EXCEPT !.state = st, !.dirty = FALSE] OBVIOUS
<1>2. doc' = [doc EXCEPT ![d] = y] BY <1>1 DEF Typed
<1>3. doc'[d] = y /\ \A e \in Doc \ {d} : doc'[e] = doc[e] BY <1>2 DEF Typed
<1>4. x \in DocRec BY <1>1 DEF Typed
<1>5. y = [x EXCEPT !.state = st, !.dirty = FALSE] BY <1>1
<1>6. y \in DocRec /\ y.state = st /\ y.tag = x.tag /\ y.legs = x.legs BY <1>4, <1>5 DEF DocRec
<1>7. Leaves(x, y, {"state", "dirty"}) BY <1>4, <1>5 DEF DocRec, Leaves
<1> QED BY <1>1, <1>3, <1>6, <1>7

LEMMA CompleteAccount ==
  ASSUME Typed, Plainly, AccountInv, NEW d \in Doc, Complete(d) PROVE AccountInv'
<1>1. /\ Untouched /\ UNCHANGED <<case, row, run>> /\ doc[d].state = "draft" /\ (doc[d].piece \/ doc[d].line)
      /\ ~doc[d].dirty /\ ~(doc[d].refunded /\ doc[d].piece)
      /\ doc' = Completed(d) /\ hooks' = ToldCompleted(d)
  BY PlainlyIs DEF Complete
<1>2. /\ Quiet /\ Now = Idle /\ HooksKnow
      /\ \A a \in Advance : StoryOf(a, Idle) /\ Billed(a, Idle) /\ Carried(a, Idle)
  BY <1>1, RestsHere
<1>3. Now' = Idle BY <1>1, <1>2, QuietNow
<1>4. PICK h : h = [kind |-> "completed", d |-> d, tag |-> doc[d].tag, piece |-> doc[d].piece] OBVIOUS
<1>5. /\ hooks' = hooks \cup {h} /\ h.kind = "completed" /\ h.d = d /\ h.tag = doc[d].tag /\ h.piece = doc[d].piece
  BY <1>1, <1>4 DEF ToldCompleted
<1>6. /\ \A e \in Doc \ {d} : doc'[e] = doc[e]
      /\ Leaves(doc[d], doc'[d], {"state", "dirty"}) /\ doc'[d].state = "order" /\ doc'[d] \in DocRec
      /\ doc'[d].tag = doc[d].tag /\ doc'[d].legs = doc[d].legs
  BY <1>1, EndLeaves DEF Completed
<1>7. Idle.pc \in {"idle", "convert"} BY DEF Idle
<1> QED BY <1>1, <1>2, <1>3, <1>5, <1>6, <1>7, EndAccount

LEMMA DeleteAccount ==
  ASSUME Typed, Plainly, AccountInv, NEW d \in Doc, Delete(d) PROVE AccountInv'
<1>1. /\ Untouched /\ UNCHANGED <<case, row, run>> /\ doc[d].state = "draft"
      /\ doc[d].legs = NoLegs \/ Allowed("abandon")
      /\ doc' = [doc EXCEPT ![d].state = "gone", ![d].dirty = FALSE]
      /\ hooks' = hooks \cup {[kind |-> "deleted", d |-> d]}
  BY DEF Delete
<1>2. /\ Quiet /\ Now = Idle /\ HooksKnow
      /\ \A a \in Advance : StoryOf(a, Idle) /\ Billed(a, Idle) /\ Carried(a, Idle)
  BY <1>1, RestsHere
<1>3. Now' = Idle BY <1>1, <1>2, QuietNow
<1>4. PICK h : h = [kind |-> "deleted", d |-> d] OBVIOUS
<1>5. hooks' = hooks \cup {h} /\ h.kind = "deleted" /\ h.d = d BY <1>1, <1>4
<1>6. /\ \A e \in Doc \ {d} : doc'[e] = doc[e]
      /\ Leaves(doc[d], doc'[d], {"state", "dirty"}) /\ doc'[d].state = "gone" /\ doc'[d] \in DocRec
      /\ doc'[d].tag = doc[d].tag /\ doc'[d].legs = doc[d].legs
  BY <1>1, EndLeaves
<1>7. Idle.pc \in {"idle", "convert"} BY DEF Idle
<1>8. UNCHANGED <<case, row>> /\ doc[d].state = "draft" /\ (doc[d].legs = NoLegs \/ Allowed("abandon")) BY <1>1
<1> QED BY <1>2, <1>3, <1>5, <1>6, <1>7, <1>8, EndAccount

\* The sweep converts a draft, or cannot.
LEMMA ConvertAccount ==
  ASSUME Typed, Plainly, OneRequest, AccountInv, NEW s \in Slot, Convert(s) PROVE AccountInv'
<1>0. run[s].pc = "convert" /\ Step(s) /\ Done(s) /\ UNCHANGED <<case, row>> BY DEF Convert, Step
<1>1. PICK r, d : r = run[s] /\ d = run[s].d OBVIOUS
<1>2. Now = r BY <1>0, <1>1, NowIs
<1>3. /\ RunKnows(r) /\ HooksKnow
      /\ \A a \in Advance : StoryOf(a, r) /\ Billed(a, r) /\ Carried(a, r)
  BY <1>2 DEF AccountInv
<1>4. ~doc[d].dirty /\ ~doc[d].piece /\ doc[d].line BY <1>0, <1>1, <1>3 DEF RunKnows
<1>5. d \in Doc BY <1>0, <1>1, OtherRunning, AdvanceAssumption DEF SweepRun
<1>6. Now' = Idle BY <1>0, StepRuns, QuietOrOne, NextNow DEF Busy, Done, Typed
<1>7. CASE doc[d].state = "draft" /\ doc' = Completed(d) /\ hooks' = ToldCompleted(d)
  <2>1. PICK h : h = [kind |-> "completed", d |-> d, tag |-> doc[d].tag, piece |-> doc[d].piece] OBVIOUS
  <2>2. /\ hooks' = hooks \cup {h} /\ h.kind = "completed" /\ h.d = d /\ h.tag = doc[d].tag /\ h.piece = doc[d].piece
    BY <1>7, <2>1 DEF ToldCompleted
  <2>3. /\ \A e \in Doc \ {d} : doc'[e] = doc[e]
        /\ Leaves(doc[d], doc'[d], {"state", "dirty"}) /\ doc'[d].state = "order" /\ doc'[d] \in DocRec
        /\ doc'[d].tag = doc[d].tag /\ doc'[d].legs = doc[d].legs
    BY <1>5, <1>7, EndLeaves DEF Completed
  <2>4. r.pc \in {"idle", "convert"} BY <1>0, <1>1
  <2> QED BY <1>0, <1>3, <1>4, <1>5, <1>6, <1>7, <2>2, <2>3, <2>4, EndAccount
<1>8. CASE UNCHANGED <<doc, hooks>>
  <2>1. HooksKnow' BY <1>3, <1>8, HooksStill
  <2>2. RunKnows(Idle)' BY IdleIs
  <2>3. \A e : Unspent(e, r) => Unspent(e, Idle)' BY <1>0, <1>1, <1>8, UnspentStays
  <2>4. ASSUME NEW a \in Advance PROVE StoryOf(a, Idle)' /\ Billed(a, Idle)' /\ Carried(a, Idle)'
    <3>0. a \in Doc BY AdvanceAssumption
    <3>1. Work(r, a) = "none" /\ Work(Idle, a) = "none" BY <1>0, <1>1, IdleIs, WorkIs
    <3>2. StoryOf(a, Idle)' BY <1>0, <1>3, <1>8, <3>1, StoryStays
    <3>3. Billed(a, Idle)' BY <1>0, <1>1, <1>3, <1>8, <2>3, <3>0, BilledStays
    <3>4. HasTold(a)' = HasTold(a) BY <1>8 DEF HasTold
    <3>5. Carried(a, Idle)' BY <1>0, <1>3, <1>8, <2>3, <3>0, <3>1, <3>4, CarriedStays
    <3> QED BY <3>2, <3>3, <3>5
  <2> QED BY <1>6, <2>1, <2>2, <2>4, AccountIs
<1> QED BY <1>1, <1>7, <1>8 DEF Convert

\* A request that begins is alone.
LEMMA BeginsAccount ==
  ASSUME Typed, Plainly, AccountInv, NEW s \in Slot, CanStart(s), NEW v, run' = [run EXCEPT ![s] = v],
         v.pc # "idle" \/ v = Idle
  PROVE  /\ Quiet /\ Now = Idle /\ HooksKnow /\ Now' = v
         /\ \A a \in Advance : StoryOf(a, Idle) /\ Billed(a, Idle) /\ Carried(a, Idle)
  BY PlainlyIs, RestsHere, NextNow DEF CanStart, Typed, Quiet, Busy

LEMMA PassAccount ==
  ASSUME Typed, Plainly, AccountInv, NEW d \in Doc, Pass(d) PROVE AccountInv'
<1>0. /\ d \in Slot /\ CanStart(d) /\ UNCHANGED <<case, row, hooks>> /\ doc[d].state = "draft"
      /\ doc' = [doc EXCEPT ![d].dirty = FALSE]
  BY DEF Pass, Handling, Slot
<1>1. PICK v : v = [pc |-> "capture", d |-> d, line |-> doc[d].line, piece |-> doc[d].piece,
                    tag |-> doc[d].tag, src |-> None, read |-> 0]
  OBVIOUS
<1>2. /\ v.pc = "capture" /\ v.d = d /\ v.line = doc[d].line /\ v.piece = doc[d].piece /\ v.tag = doc[d].tag
      /\ v.src = None
  BY <1>1
<1>3. run' = [run EXCEPT ![d] = v] BY <1>1 DEF Pass
<1>4. /\ Quiet /\ HooksKnow /\ Now' = v
      /\ \A a \in Advance : StoryOf(a, Idle) /\ Billed(a, Idle) /\ Carried(a, Idle)
  BY <1>0, <1>2, <1>3, BeginsAccount
<1>5. PICK x, y : x = doc[d] /\ y = doc'[d] OBVIOUS
<1>6. x \in DocRec BY <1>5 DEF Typed
<1>7. y = [x EXCEPT !.dirty = FALSE] /\ \A e \in Doc \ {d} : doc'[e] = doc[e] BY <1>0, <1>5 DEF Typed
<1>8. Leaves(x, y, {"dirty"}) /\ y \in DocRec /\ y.tag = x.tag /\ y.legs = x.legs
  BY <1>6, <1>7 DEF DocRec, Leaves
<1>9. \A e \in Doc : /\ doc'[e].state = doc[e].state /\ doc'[e].tag = doc[e].tag
                     /\ doc'[e].legs = doc[e].legs /\ doc'[e].piece = doc[e].piece
                     /\ doc'[e].order = doc[e].order /\ doc'[e].refunded = doc[e].refunded
                     /\ doc'[e].line = doc[e].line
  BY <1>5, <1>7, <1>8 DEF Leaves
<1>10. HooksKnow' BY <1>0, <1>4, <1>9, HooksStill
<1>11. RunKnows(v)' BY <1>0, <1>2, <1>9 DEF RunKnows, PassPc, HookPc
<1>12. \A e : Unspent(e, Idle) => Unspent(e, v)' BY <1>0, UnspentStays DEF Idle
<1>13. ASSUME NEW a \in Advance PROVE StoryOf(a, v)' /\ Billed(a, v)' /\ Carried(a, v)'
  <2>0. a \in Doc BY AdvanceAssumption
  <2>1. Work(Idle, a) = "none" BY IdleIs
  <2>2. HasTold(a)' = HasTold(a) BY <1>0 DEF HasTold
  <2>3. StoryOf(a, v)'
    <3>1. CASE a # d BY <1>2, <3>1, WorkIs, <1>0, <1>7, <2>0, <1>4, <2>1, StoryStays DEF PassPc
    <3>2. CASE a = d
      <4>1. PICK p, q, told, lost, st, ab :
              /\ p = row[d]["draft"] /\ q = row[d]["order"] /\ told = HasTold(d) /\ lost = HasLost(d)
              /\ st = Allowed("stuck") /\ ab = Allowed("abandon")
        OBVIOUS
      <4>2. d \in Advance BY <3>2
      <4>3. /\ Story(d, x, p, q, told, lost, "none", st, ab) /\ p \in RowRec /\ q \in RowRec
            /\ told \in BOOLEAN /\ lost \in BOOLEAN /\ st \in BOOLEAN /\ ab \in BOOLEAN
        BY <1>4, <1>5, <4>1, <4>2, RestSays
      <4>4. x.state = "draft" BY <1>0, <1>5
      <4>5. Story(d, y, p, q, told, lost, "capture", st, ab) BY <1>6, <1>8, <4>3, <4>4, PassStory
      <4>6. HasTold(d)' = told /\ HasLost(d)' = lost BY <1>0, <4>1 DEF HasTold, HasLost
      <4>7. Work(v, d) = "capture" BY <1>2, WorkIs DEF PassPc
      <4>8. Story(d, doc'[d], row'[d]["draft"], row'[d]["order"], HasTold(d)', HasLost(d)', Work(v, d),
                  Allowed("stuck"), Allowed("abandon"))
        BY <1>0, <1>5, <4>1, <4>5, <4>6, <4>7
      <4> QED BY <1>0, <3>2, <4>2, <4>8, StoryNext
    <3> QED BY <3>1, <3>2
  <2>4. Billed(a, v)' BY <1>0, <1>4, <1>9, <1>12, <2>0, IdleIs, BilledStays
  <2>5. Unmoved(HasTold(a), Work(Idle, a)) => Unmoved(HasTold(a)', Work(v, a)) BY <2>1, <2>2 DEF Unmoved
  <2>6. Carried(a, v)' BY <1>0, <1>4, <1>9, <1>12, <2>0, <2>1, <2>5, CarriedStays
  <2> QED BY <2>3, <2>4, <2>6
<1> QED BY <1>4, <1>10, <1>11, <1>13, AccountIs

\* The sweep begins.
LEMMA SweepStaleAccount ==
  ASSUME Typed, Plainly, AccountInv, NEW b \in Advance, SweepStale(b) PROVE AccountInv'
<1>0. /\ Sweep \in Slot /\ CanStart(Sweep) /\ UNCHANGED <<case, doc, row, hooks>> /\ ~doc[b].dirty
      /\ doc[b].line /\ ~doc[b].piece
  BY PlainlyIs DEF SweepStale, Handling, Slot, Convertible
<1>1. PICK v : v = [pc |-> "convert", d |-> b] OBVIOUS
<1>2. v.pc = "convert" /\ v.d = b /\ run' = [run EXCEPT ![Sweep] = v] BY <1>1 DEF SweepStale
<1>3. /\ HooksKnow /\ Now' = v
      /\ \A a \in Advance : StoryOf(a, Idle) /\ Billed(a, Idle) /\ Carried(a, Idle)
  BY <1>0, <1>2, BeginsAccount
<1>4. HooksKnow' BY <1>0, <1>3, HooksStill
<1>5. RunKnows(v)' BY <1>0, <1>2 DEF RunKnows, PassPc, HookPc
<1>6. \A e : Unspent(e, Idle) => Unspent(e, v)' BY <1>0, UnspentStays DEF Idle
<1>7. ASSUME NEW a \in Advance PROVE StoryOf(a, v)' /\ Billed(a, v)' /\ Carried(a, v)'
  <2>1. Work(Idle, a) = "none" /\ Work(v, a) = "none" BY <1>2, IdleIs, WorkIs
  <2>2. StoryOf(a, v)' BY <1>0, <1>3, <2>1, StoryStays
  <2>3. Billed(a, v)' BY <1>0, <1>3, <1>6, IdleIs, BilledStays
  <2>4. HasTold(a)' = HasTold(a) BY <1>0 DEF HasTold
  <2>5. Carried(a, v)' BY <1>0, <1>3, <1>6, <2>1, <2>4, CarriedStays
  <2> QED BY <2>2, <2>3, <2>5
<1> QED BY <1>3, <1>4, <1>5, <1>7, AccountIs

LEMMA SweepOverdueAccount ==
  ASSUME Typed, Plainly, AccountInv, NEW b \in Advance, NEW n \in Name, SweepOverdue(b, n) PROVE AccountInv'
<1>0. /\ Sweep \in Slot /\ CanStart(Sweep) /\ UNCHANGED <<case, doc, hooks>> /\ doc[b].age = "over"
      /\ row[b][n].status = "open" /\ Restates(b, n, "expired")
  BY DEF SweepOverdue, Handling, Slot, Overdue, Restates
<1>1. PICK v : v = IF n = "order" THEN [pc |-> "stamp", d |-> b] ELSE Idle OBVIOUS
<1>2. /\ run' = [run EXCEPT ![Sweep] = v]
      /\ n = "order" => v.pc = "stamp" /\ v.d = b
      /\ n # "order" => v = Idle
  BY <1>1 DEF SweepOverdue
<1>3. /\ Quiet /\ HooksKnow /\ Now' = v
      /\ \A a \in Advance : StoryOf(a, Idle) /\ Billed(a, Idle) /\ Carried(a, Idle)
  BY <1>0, <1>2, BeginsAccount
<1>4. HooksKnow' BY <1>0, <1>3, HooksStill
<1>5. RunKnows(v)' BY <1>2, IdleIs DEF RunKnows, PassPc, HookPc
<1>6. \A e : Unspent(e, Idle) => Unspent(e, v)' BY <1>0, UnspentStays DEF Idle
<1>7. /\ \A a \in Advance \ {b} : row'[a] = row[a]
      /\ \A m \in Name \ {n} : \A a \in Advance : row'[a][m] = row[a][m]
      /\ row'[b][n].status = "expired" /\ row'[b][n].issued = row[b][n].issued
  BY <1>0, RestateWrites
<1>8. \A a \in Advance : a # b => Work(v, a) = "none" BY <1>2, WorkIs, IdleIs
<1>9. ASSUME NEW a \in Advance PROVE StoryOf(a, v)' /\ Billed(a, v)' /\ Carried(a, v)'
  <2>0. HasTold(a)' = HasTold(a) /\ HasLost(a)' = HasLost(a) BY <1>0 DEF HasTold, HasLost
  <2>1. Work(Idle, a) = "none" BY IdleIs
  <2>2. Billed(a, v)' BY <1>0, <1>3, <1>6, IdleIs, BilledStays
  <2>3. row'[a]["order"] = row[a]["order"] \/ row'[a]["order"].status # "applied"
    BY <1>7 DEF Name
  <2>4. Unmoved(HasTold(a), Work(Idle, a)) => Unmoved(HasTold(a)', Work(v, a)) BY <2>0, <2>1 DEF Unmoved
  <2>5. Carried(a, v)' BY <1>0, <1>3, <1>6, <2>1, <2>3, <2>4, CarriedStays
  <2>6. StoryOf(a, v)'
    <3>1. CASE a # b BY <1>7, <1>8, <3>1, <1>0, <1>3, <2>1, StoryStays
    <3>2. CASE a = b
      <4>1. PICK x, p, q, p2, q2, told, lost, st, ab :
              /\ x = doc[b] /\ p = row[b]["draft"] /\ q = row[b]["order"]
              /\ p2 = row'[b]["draft"] /\ q2 = row'[b]["order"]
              /\ told = HasTold(b) /\ lost = HasLost(b) /\ st = Allowed("stuck") /\ ab = Allowed("abandon")
        OBVIOUS
      <4>2. /\ Story(b, x, p, q, told, lost, "none", st, ab)
            /\ x \in DocRec /\ p \in RowRec /\ q \in RowRec
            /\ told \in BOOLEAN /\ lost \in BOOLEAN /\ st \in BOOLEAN /\ ab \in BOOLEAN
        BY <1>3, <4>1, RestSays
      <4>3. x.age = "over" BY <1>0, <4>1
      <4>4. Typed' BY <1>0, NextTyped DEF Next
      <4>5. p2 \in RowRec /\ q2 \in RowRec BY <4>1, <4>4 DEF Typed, Name
      <4>6. Story(b, x, p2, q2, told, lost, Work(v, b), st, ab)
        BY <1>0, <1>7, <4>1, <4>2, <4>3, <4>5, OverdueStory, <1>2, WorkIs, LapseStory, IdleIs DEF Name
      <4>7. Story(b, doc'[b], row'[b]["draft"], row'[b]["order"], HasTold(b)', HasLost(b)', Work(v, b),
                  Allowed("stuck"), Allowed("abandon"))
        BY <1>0, <2>0, <3>2, <4>1, <4>6
      <4> QED BY <1>0, <3>2, <4>7, StoryNext
    <3> QED BY <3>1, <3>2
  <2> QED BY <2>2, <2>5, <2>6
<1> QED BY <1>3, <1>4, <1>5, <1>9, AccountIs

LEMMA StampAccount ==
  ASSUME Typed, Plainly, OneRequest, AccountInv, NEW s \in Slot, Stamp(s) PROVE AccountInv'
<1>0. run[s].pc = "stamp" /\ Step(s) /\ Done(s) /\ UNCHANGED <<case, row, hooks>> BY DEF Stamp, Handling, Step
<1>1. PICK r, d, x, y : r = run[s] /\ d = run[s].d /\ x = doc[d] /\ y = doc'[d] OBVIOUS
<1>2. Now = r BY <1>0, <1>1, NowIs
<1>3. /\ HooksKnow /\ \A a \in Advance : StoryOf(a, r) /\ Billed(a, r) /\ Carried(a, r)
  BY <1>2 DEF AccountInv
<1>4. d \in Advance /\ d \in Doc BY <1>0, <1>1, OtherRunning, AdvanceAssumption DEF SweepRun
<1>5. x \in DocRec BY <1>1, <1>4 DEF Typed
<1>6. Now' = Idle BY <1>0, StepRuns, QuietOrOne, NextNow DEF Busy, Done, Typed
<1>7. /\ \A e \in Doc \ {d} : doc'[e] = doc[e]
      /\ Leaves(x, y, {"order"}) /\ y.order = "expired" /\ y \in DocRec /\ y.tag = x.tag /\ y.legs = x.legs
  BY <1>1, <1>4, OrderLeaves DEF Stamp, Status
<1>8. \A e \in Doc : /\ doc'[e].state = doc[e].state /\ doc'[e].piece = doc[e].piece
                     /\ doc'[e].tag = doc[e].tag /\ doc'[e].legs = doc[e].legs
                     /\ doc'[e].refunded = doc[e].refunded
  BY <1>1, <1>7 DEF Leaves
<1>9. HooksKnow' BY <1>0, <1>3, <1>8, HooksStill
<1>10. \A e : Unspent(e, r) => Unspent(e, Idle)' BY <1>0, <1>1, UnspentStays
<1>11. PICK p, q, told, lost, st, ab :
         /\ p = row[d]["draft"] /\ q = row[d]["order"] /\ told = HasTold(d) /\ lost = HasLost(d)
         /\ st = Allowed("stuck") /\ ab = Allowed("abandon")
  OBVIOUS
<1>12. Work(r, d) = "stamp" /\ \A a : a # d => Work(r, a) = "none" BY <1>0, <1>1, WorkIs
<1>13. /\ Story(d, x, p, q, told, lost, "stamp", st, ab) /\ p \in RowRec /\ q \in RowRec
       /\ told \in BOOLEAN /\ lost \in BOOLEAN /\ st \in BOOLEAN /\ ab \in BOOLEAN
  <2>1. StoryOf(d, r) BY <1>3, <1>4
  <2>2. Story(d, x, p, q, told, lost, "stamp", st, ab) BY <1>1, <1>11, <1>12, <2>1 DEF StoryOf
  <2>3. p \in RowRec /\ q \in RowRec BY <1>4, <1>11 DEF Typed, Name
  <2>4. told \in BOOLEAN /\ lost \in BOOLEAN /\ st \in BOOLEAN /\ ab \in BOOLEAN
    BY <1>11 DEF HasTold, HasLost, Allowed
  <2> QED BY <2>2, <2>3, <2>4
<1>14. x.state = "order" /\ q.status = "expired" /\ x.order \in {"open", "applied"}
  BY <1>13 DEF Story, Early, Ordered, HookPc
<1>15. ASSUME NEW a \in Advance PROVE StoryOf(a, Idle)' /\ Billed(a, Idle)' /\ Carried(a, Idle)'
  <2>0. a \in Doc BY AdvanceAssumption
  <2>1. Work(Idle, a) = "none" BY IdleIs
  <2>2. HasTold(a)' = HasTold(a) /\ HasLost(a)' = HasLost(a) BY <1>0 DEF HasTold, HasLost
  <2>3. CASE a # d
    <3>1. Work(r, a) = "none" /\ doc'[a] = doc[a] /\ row'[a] = row[a] BY <1>0, <1>7, <1>12, <2>0, <2>3
    <3>2. StoryOf(a, Idle)' BY <1>0, <1>3, <2>1, <3>1, StoryStays
    <3>3. Billed(a, Idle)' BY <1>0, <1>1, <1>3, <1>8, <1>10, <3>1, BilledStays
    <3>4. Carried(a, Idle)' BY <1>0, <1>3, <1>8, <1>10, <2>1, <2>2, <3>1, CarriedStays
    <3> QED BY <3>2, <3>3, <3>4
  <2>4. CASE a = d
    <3>1. Story(d, y, p, q, told, lost, "none", st, ab) BY <1>5, <1>7, <1>13, StampStory
    <3>2. Story(d, doc'[d], row'[d]["draft"], row'[d]["order"], HasTold(d)', HasLost(d)', Work(Idle, d),
                Allowed("stuck"), Allowed("abandon"))
      BY <1>0, <1>1, <1>11, <2>1, <2>2, <2>4, <3>1
    <3>3. StoryOf(d, Idle)' BY <1>0, <1>4, <3>2, StoryNext
    <3>4. Billed(d, r) BY <1>3, <1>4
    <3>5. (Allowed("reject")' <=> Allowed("reject")) /\ (Allowed("abandon")' <=> Allowed("abandon"))
      BY <1>0 DEF Allowed
    <3>6. Billed(d, Idle)' BY <1>1, <1>7, <1>14, <1>0, <1>4, <1>8, <1>10, <3>4, <3>5 DEF Billed
    <3>7. Carried(d, Idle)' BY <1>0, <1>1, <1>7, <1>11, <1>14 DEF Carried
    <3> QED BY <2>4, <3>3, <3>6, <3>7
  <2> QED BY <2>3, <2>4
<1>16. RunKnows(Idle)' BY IdleIs
<1> QED BY <1>6, <1>9, <1>15, <1>16, AccountIs

LEMMA InitAccount == Init => AccountInv
<1> SUFFICES ASSUME Init PROVE AccountInv OBVIOUS
<1>1. Quiet BY DEF Init, Quiet, Busy, Idle
<1>2. Now = Idle BY <1>1, QuietNow
<1>3. hooks = {} /\ \A e : ~HasTold(e) /\ ~HasLost(e) BY DEF Init, HasTold, HasLost
<1>4. \A d \in Doc : /\ doc[d].state = "draft" /\ doc[d].order = "none" /\ doc[d].status = "none" /\ doc[d].tag = {}
                     /\ doc[d].legs = NoLegs /\ doc[d].age = "new" /\ ~doc[d].line /\ ~doc[d].refunded /\ ~doc[d].paid
                     /\ doc[d].piece = (d \notin Advance)
  BY DEF Init
<1>5. \A a \in Advance : row[a]["draft"] = NoRow /\ row[a]["order"] = NoRow BY DEF Init, Name
<1>6. HooksKnow BY <1>3, <1>4 DEF HooksKnow
<1>7. RunKnows(Idle) BY DEF RunKnows, Idle, PassPc, HookPc
<1>8. ASSUME NEW a \in Advance PROVE StoryOf(a, Idle) /\ Billed(a, Idle) /\ Carried(a, Idle)
  <2>0. a \in Doc BY AdvanceAssumption
  <2>1. \A d \in Doc : ~(doc[d].legs[a] > 0) BY <1>4 DEF NoLegs
  <2>2. Billed(a, Idle) BY <1>4, <2>1 DEF Billed
  <2>3. Carried(a, Idle) BY <1>4, <1>5, <2>0 DEF Carried, NoRow
  <2>4. PICK x, p, q : x = doc[a] /\ p = row[a]["draft"] /\ q = row[a]["order"] OBVIOUS
  <2>5. /\ x.state = "draft" /\ x.order = "none" /\ x.status = "none" /\ x.age = "new" /\ ~x.line /\ ~x.refunded
        /\ ~x.piece /\ ~x.paid /\ p = NoRow /\ q = NoRow
    BY <1>4, <1>5, <2>0, <2>4
  <2>6. ~HasTold(a) /\ ~HasLost(a) /\ Work(Idle, a) = "none" BY <1>3, IdleIs
  <2>7. StoryOf(a, Idle)
    BY <2>4, <2>5, <2>6
       DEF StoryOf, Story, Early, Drafted, Lined, Lost, Ordered, Returned, Unmoved, PassPc, HookPc, NoRow, Live
  <2> QED BY <2>2, <2>3, <2>7
<1> QED BY <1>2, <1>6, <1>7, <1>8 DEF AccountInv
LEMMA StepAccount ==
  ASSUME Typed, Plainly, OneRequest, AccountInv, NEW s \in Slot, Step(s) PROVE AccountInv'
  BY CaptureAccount, CommitAccount, GateAccount, AbsorbAccount, ClearAccount, ReserveAccount, TagAccount,
     ReserveRowAccount, RefundAccount, CopyAccount, SpendAccount, SpendRowAccount, OwnAccount, RekeyAccount,
     SettleAccount, SettleRowAccount, CloseDeletedAccount, RevertAccount, ConvertAccount, StampAccount DEF Step

LEMMA NothingAccount ==
  ASSUME AccountInv, UNCHANGED vars PROVE AccountInv'
<1>1. UNCHANGED <<case, doc, row, run, hooks>> BY DEF vars
<1>2. Plainly' <=> Plainly BY <1>1 DEF Plainly, Only
<1>3. Now' = Now BY <1>1 DEF Now, Quiet, Busy
<1>4. HooksKnow' <=> HooksKnow BY <1>1 DEF HooksKnow
<1>5. \A e : (HasTold(e)' <=> HasTold(e)) /\ (HasLost(e)' <=> HasLost(e)) BY <1>1 DEF HasTold, HasLost
<1>6. RunKnows(Now)' <=> RunKnows(Now) BY <1>1, <1>3, <1>5 DEF RunKnows
<1>7. ASSUME Plainly, NEW a \in Advance PROVE StoryOf(a, Now)' /\ Billed(a, Now)' /\ Carried(a, Now)'
  <2>1. PICK r : r = Now OBVIOUS
  <2>2. StoryOf(a, r) /\ Billed(a, r) /\ Carried(a, r) BY <1>7, <2>1 DEF AccountInv
  <2>3. \A e : Unspent(e, r) => Unspent(e, r)' BY <1>1, <1>5 DEF Unspent
  <2>4. StoryOf(a, r)' BY <1>1, <2>2, StoryStays
  <2>5. Billed(a, r)' BY <1>1, <2>2, <2>3, BilledStays
  <2>6. HasTold(a)' = HasTold(a) BY <1>1 DEF HasTold
  <2>7. Carried(a, r)' BY <1>1, <2>2, <2>3, <2>6, CarriedStays
  <2>8. r = Now' BY <1>3, <2>1
  <2>9. /\ StoryOf(a, Now)' <=> StoryOf(a, r)'
        /\ Billed(a, Now)' <=> Billed(a, r)'
        /\ Carried(a, Now)' <=> Carried(a, r)'
    BY <2>8 DEF StoryOf, Billed, Carried, Unspent
  <2> QED BY <2>4, <2>5, <2>7, <2>9
<1> QED BY <1>2, <1>4, <1>6, <1>7 DEF AccountInv

LEMMA AccountNext ==
  ASSUME Typed, ~Allowed("overlap") => OneRequest, AccountInv, [Next]_vars PROVE AccountInv'
  BY NothingAccount, CaseStays, PlainlyIs, StaffAccount, AgeAccount, CompleteAccount, DeleteAccount, PassAccount,
     StepAccount, CompletedAccount, DeletedAccount, SweepStaleAccount, SweepOverdueAccount DEF Plainly, Only,
     AccountInv, Restart, Fails, Forget, Next

\* What the accounts of an advance say when nothing is under way.
LEMMA RestIs ==
  ASSUME Typed, Plainly, AccountInv, AtRest, NEW a \in Advance,
         NEW x, x = doc[a], NEW p, p = row[a]["draft"], NEW q, q = row[a]["order"],
         NEW st, st = Allowed("stuck"), NEW ab, ab = Allowed("abandon")
  PROVE  /\ Story(a, x, p, q, FALSE, FALSE, "none", st, ab)
         /\ Billed(a, Idle) /\ Carried(a, Idle) /\ \A d : ~Unspent(d, Idle)
         /\ a \in Doc /\ x \in DocRec /\ ~x.dirty
         /\ ~Unmoved(HasTold(a), Work(Idle, a)) /\ Work(Idle, a) = "none"
  BY IdleIs, RestsHere, AdvanceAssumption DEF AtRest, HasTold, HasLost, StoryOf, Unspent, Idle, Typed, Unmoved

LEMMA RestRegister ==
  ASSUME Typed, AccountInv PROVE RegisterAgrees
<1> SUFFICES ASSUME Only({"late", "reject"}), AtRest, NEW a \in Advance, doc[a].paid
             PROVE  CASE doc[a].state = "gone" -> row[a]["draft"].status \notin Live
                      [] OTHER -> /\ row[a][doc[a].state].status = StatusOf(a)
                                  /\ StatusOf(a) # "none"
                                  /\ \A n \in Name \ {doc[a].state} : row[a][n] = NoRow
  BY DEF RegisterAgrees
<1>0. Plainly /\ ~Allowed("stuck") /\ ~Allowed("abandon") BY DEF Plainly, Only, Allowed
<1>1. PICK x, p, q, st, ab :
        /\ x = doc[a] /\ p = row[a]["draft"] /\ q = row[a]["order"]
        /\ st = Allowed("stuck") /\ ab = Allowed("abandon")
  OBVIOUS
<1>2. Story(a, x, p, q, FALSE, FALSE, "none", st, ab) /\ x \in DocRec /\ ~x.dirty BY <1>0, <1>1, RestIs
<1>3. x.paid /\ ~st /\ ~ab BY <1>0, <1>1
<1>4. CASE x.state = "gone" BY <1>2, <1>4, <1>1 DEF Story, Lost
<1>5. CASE x.state = "draft" BY <1>2, <1>3, <1>5, <1>1 DEF Story, Early, Drafted, StatusOf, Name
<1>6. CASE x.state = "order" BY <1>2, <1>3, <1>6, <1>1 DEF Story, Ordered, Unmoved, StatusOf, Name
<1> QED BY <1>2, <1>4, <1>5, <1>6 DEF DocRec

LEMMA RestSpent ==
  ASSUME Typed, AccountInv PROVE SpentIsCarried
<1> SUFFICES ASSUME Only({"late", "stuck"}), AtRest, NEW a \in Advance
             PROVE  /\ StatusOf(a) = "applied" => CarriedBy(a, "draft") \/ doc[a].state = "gone"
                    /\ StatusOf(a) = "redeemed" <=> CarriedBy(a, "order")
  BY DEF SpentIsCarried
<1>0. Plainly /\ ~Allowed("reject") /\ ~Allowed("abandon") BY DEF Plainly, Only, Allowed
<1>1. PICK x, p, q, st, ab :
        /\ x = doc[a] /\ p = row[a]["draft"] /\ q = row[a]["order"]
        /\ st = Allowed("stuck") /\ ab = Allowed("abandon")
  OBVIOUS
<1>2. Story(a, x, p, q, FALSE, FALSE, "none", st, ab) /\ x \in DocRec BY <1>0, <1>1, RestIs
<1>3. /\ Billed(a, Idle) /\ Carried(a, Idle) /\ \A d : ~Unspent(d, Idle)
      /\ ~Unmoved(HasTold(a), Work(Idle, a)) /\ Work(Idle, a) = "none" /\ a \in Doc
  BY <1>0, RestIs
<1>4. StatusOf(a) = IF x.state = "order" THEN x.order ELSE x.status BY <1>1 DEF StatusOf
<1>5. ASSUME StatusOf(a) = "applied" PROVE CarriedBy(a, "draft") \/ doc[a].state = "gone"
  BY <1>2, <1>4, <1>5, <1>1, <1>0, <1>3 DEF Story, Drafted, CarriedBy, Carried, DocRec
<1>6. ASSUME StatusOf(a) = "redeemed" PROVE CarriedBy(a, "order")
  BY <1>2, <1>4, <1>6, <1>1, <1>3 DEF Story, Early, Ordered, Carried, CarriedBy
<1>7. ASSUME CarriedBy(a, "order") PROVE StatusOf(a) = "redeemed"
  BY <1>0, <1>3, <1>1, <1>4, <1>2, <1>7 DEF Billed, Story, Ordered, Unmoved, CarriedBy
<1> QED BY <1>5, <1>6, <1>7

LEMMA RestReturned ==
  ASSUME Typed, AccountInv PROVE MoneyBackIsClosed
<1> SUFFICES ASSUME Plainly, AtRest, NEW a \in Advance, doc[a].refunded, doc[a].state # "gone"
             PROVE  StatusOf(a) = "refunded" /\ \A d \in Doc : doc[d].legs[a] = 0
  BY DEF MoneyBackIsClosed, Plainly
<1>1. PICK x, p, q, st, ab :
        /\ x = doc[a] /\ p = row[a]["draft"] /\ q = row[a]["order"]
        /\ st = Allowed("stuck") /\ ab = Allowed("abandon")
  OBVIOUS
<1>2. Story(a, x, p, q, FALSE, FALSE, "none", st, ab) /\ x \in DocRec /\ ~x.dirty BY <1>1, RestIs
<1>3. Billed(a, Idle) BY RestIs
<1>4. x.refunded /\ x.state # "gone" BY <1>1
<1>5. x.status = "refunded" BY <1>2, <1>4 DEF Story, Returned, PassPc
<1>6. x.state = "order" => x.order = "refunded"
  BY <1>2, <1>4 DEF Story, Returned, Ordered
<1>7. StatusOf(a) = "refunded" BY <1>1, <1>5, <1>6 DEF StatusOf
<1>8. ASSUME NEW d \in Doc PROVE doc[d].legs[a] = 0 BY <1>3, AdvanceAssumption DEF Billed, Typed, DocRec
<1> QED BY <1>7, <1>8

\* At rest every account of an advance agrees: the document says what the register says, what is
\* reserved or spent is on a bill, and what was given back is on none.
THEOREM AccountsAgreeHolds == Spec => []AccountsAgree
<1> DEFINE IInv == Typed /\ (~Allowed("overlap") => OneRequest) /\ AccountInv
<1>1. Init => IInv BY InitTyped, InitSettles, InitAccount
<1>2. IInv /\ [Next]_vars => IInv'
  <2> SUFFICES ASSUME IInv, [Next]_vars PROVE IInv' OBVIOUS
  <2>1. Typed' BY NextTyped
  <2>2. AccountInv' BY AccountNext
  <2>3. Allowed("overlap")' <=> Allowed("overlap") BY CaseStays DEF Allowed
  <2>4. ~Allowed("overlap")' => OneRequest' BY <2>3, OneRequestNext
  <2> QED BY <2>1, <2>2, <2>4
<1>3. IInv => AccountsAgree
  BY TypedIsTypeOK, RestRegister, RestSpent, RestReturned DEF AccountsAgree
<1> QED BY <1>1, <1>2, <1>3, PTL DEF Spec
=============================================================================
