------------------------------- MODULE Serial -------------------------------
(***************************************************************************)
(* Document numbering (src/modules/serialization): one counter per store,  *)
(* one ledger row per numbered document, and the passes of the Node        *)
(* process that draw a number and record it.  Every awaited call to        *)
(* Supabase or Shopify is one action, so that any two passes interleave    *)
(* at every await.  One instance stands for one document type: rows and    *)
(* counters of different types never meet.                                 *)
(***************************************************************************)
EXTENDS Naturals, FiniteSets

CONSTANTS
    Store,       \* store codes with a counter (counterKeyFor)
    Order,       \* Shopify orders, numbered by the order-serial webhook
    Draft,       \* Shopify drafts numbered by a tag: challan, repair, PO
    Manual,      \* hand-raised documents, keyed by the sheet's reference
    Note,        \* vouchers and exchange notes: no id of their own
    Chained,     \* the drafts whose passes the draft chain serialises
    Correctable, \* documents whose store code staff may correct
    Cancellable, \* documents that can be cancelled or voided
    Pass,        \* handler runs of the Node process
    Faults,      \* the failures a run allows, among FaultKind
    MaxEdits,    \* bound: store corrections and cancellations
    MaxFaults,   \* bound: failures and restarts
    None         \* no row, no number, no store code, no document

Doc == Order \cup Draft \cup Manual \cup Note
Locked == Order \cup Chained
FaultKind == {"fails", "lostReply", "restart"}
Number == [store : Store, seq : Nat \ {0}]
Row == [store : Store, seq : Nat \ {0}, status : {"active", "cancelled"}]
Step == {"idle", "meta", "lookup", "rewind", "redraw", "move", "draw",
         "record", "handback", "winner", "stamp"}

ASSUME ClassAssumption ==
    /\ Order \cap (Draft \cup Manual \cup Note) = {}
    /\ Draft \cap (Manual \cup Note) = {}
    /\ Manual \cap Note = {}
    /\ Chained \subseteq Draft
    /\ Correctable \subseteq Doc
    /\ Cancellable \subseteq Draft \cup Manual \cup Note
ASSUME BoundAssumption ==
    /\ MaxEdits \in Nat
    /\ MaxFaults \in Nat
    /\ Faults \subseteq FaultKind
ASSUME NoneAssumption ==
    /\ None \notin Doc
    /\ None \notin Store
    /\ None \notin Number
    /\ None \notin Row

VARIABLES
    counter,   \* serial_counters: last number drawn for a store, 0 = no row
    ledger,    \* serial_ledger: the row of a document, or None
    place,     \* custom.state_code / the store typed on the form, or None
    printed,   \* number the document carries (serial_code, or the reply)
    numbering, \* _numberingInFlight, and the chain lock of Chained drafts
    pc,        \* the call a pass is about to make
    doc,       \* the document a pass numbers
    at,        \* the store code it read
    seen,      \* the ledger row it read
    got,       \* the number it drew
    edits,     \* corrections and cancellations so far
    faults     \* failures and restarts so far

db == <<counter, ledger>>
shop == <<place, printed>>
job == <<doc, at, seen, got>>
vars == <<counter, ledger, place, printed, numbering, pc, doc, at, seen, got,
          edits, faults>>

NumberOf(row) == [store |-> row.store, seq |-> row.seq]
Recorded(d) == ledger[d] # None
Busy(p) == pc[p] # "idle"

\* serial_ledger_seq_unique: some document other than d already has number n.
TakenByOther(d, n) ==
    \E e \in Doc \ {d} : Recorded(e) /\ NumberOf(ledger[e]) = n

Init ==
    /\ counter = [s \in Store |-> 0]
    /\ ledger = [d \in Doc |-> None]
    /\ place = [d \in Doc |-> None]
    /\ printed = [d \in Doc |-> None]
    /\ numbering = {}
    /\ pc = [p \in Pass |-> "idle"]
    /\ doc = [p \in Pass |-> None]
    /\ at = [p \in Pass |-> None]
    /\ seen = [p \in Pass |-> None]
    /\ got = [p \in Pass |-> None]
    /\ edits = 0
    /\ faults = 0

-----------------------------------------------------------------------------
\* Faulty Finish: no finally, the lock is never released.
FinishKeepsLock(p) ==
    /\ pc' = [pc EXCEPT ![p] = "idle"]
    /\ doc' = [doc EXCEPT ![p] = None]
    /\ at' = [at EXCEPT ![p] = None]
    /\ seen' = [seen EXCEPT ![p] = None]
    /\ got' = [got EXCEPT ![p] = None]
    /\ UNCHANGED numbering

\* Every way a pass returns or throws to its caller; the finally of the
\* webhook releases the lock.
Finish(p) ==
    /\ pc' = [pc EXCEPT ![p] = "idle"]
    /\ doc' = [doc EXCEPT ![p] = None]
    /\ at' = [at EXCEPT ![p] = None]
    /\ seen' = [seen EXCEPT ![p] = None]
    /\ got' = [got EXCEPT ![p] = None]
    /\ numbering' = numbering \ {doc[p]}

Goto(p, step) ==
    /\ pc' = [pc EXCEPT ![p] = step]
    /\ UNCHANGED <<doc, numbering>>

Start(p, d, step) ==
    /\ pc[p] = "idle"
    /\ pc' = [pc EXCEPT ![p] = step]
    /\ doc' = [doc EXCEPT ![p] = d]
    /\ UNCHANGED <<db, shop, seen, got, edits, faults>>

StartDraftUnlocked(p, d) ==
    /\ d \in Draft
    /\ Start(p, d, "meta")
    /\ numbering' = numbering \cup ({d} \cap Chained)
    /\ UNCHANGED at

\* A delivery of orders/create or orders/update; one that finds the order
\* in the lock is ignored.
StartOrder(p, d) ==
    /\ d \in Order
    /\ d \notin numbering
    /\ Start(p, d, "meta")
    /\ numbering' = numbering \cup {d}
    /\ UNCHANGED at

\* A tagged draft reaches assignDocSerial or assignRepairSerial, which have
\* no lock of their own: only the draft chain keeps two passes apart.
StartDraft(p, d) ==
    /\ d \in Draft
    /\ d \notin numbering
    /\ Start(p, d, "meta")
    /\ numbering' = numbering \cup ({d} \cap Chained)
    /\ UNCHANGED at

\* /api/serial/manual-mint: the same reference may be sent again at any time.
StartManual(p, d) ==
    /\ d \in Manual
    /\ place[d] # None
    /\ Start(p, d, "lookup")
    /\ at' = [at EXCEPT ![p] = place[d]]
    /\ UNCHANGED numbering

\* /api/serial/allocate for a voucher or an exchange note: no id to look up,
\* every request is a document of its own.
StartNote(p, d) ==
    /\ d \in Note
    /\ place[d] # None
    /\ ~Recorded(d)
    /\ printed[d] = None
    /\ \A q \in Pass : doc[q] # d
    /\ Start(p, d, "draw")
    /\ at' = [at EXCEPT ![p] = place[d]]
    /\ UNCHANGED numbering

\* Faulty NotToMint: an order that prints a number is minted again.
NothingToMint(d) == place[d] = None

\* Nothing to mint yet, or an order that already prints a number.
NotToMint(d) == place[d] = None \/ (d \in Order /\ printed[d] # None)

\* readSerialMetafields: one read gives the printed number and the store code.
ReadMetafields(p) ==
    /\ pc[p] = "meta"
    /\ UNCHANGED <<db, shop, edits, faults>>
    /\ \/ /\ NotToMint(doc[p])
          /\ Finish(p)
       \/ /\ ~NotToMint(doc[p])
          /\ Goto(p, "lookup")
          /\ at' = [at EXCEPT ![p] = place[doc[p]]]
          /\ UNCHANGED <<seen, got>>

Reply(d, n) == printed' = [printed EXCEPT ![d] = n]

\* Does this document already hold a number?
Lookup(p) ==
    LET row == ledger[doc[p]] IN
    /\ pc[p] = "lookup"
    /\ UNCHANGED <<db, place, edits, faults>>
    /\ \/ /\ row = None
          /\ Goto(p, "draw")
          /\ UNCHANGED <<printed, at, seen, got>>
       \/ /\ row # None /\ row.status = "active" /\ row.store = at[p]
          /\ Finish(p)
          /\ IF doc[p] \in Manual THEN Reply(doc[p], NumberOf(row))
             ELSE UNCHANGED printed
       \/ /\ row # None /\ ~(row.status = "active" /\ row.store = at[p])
          /\ Goto(p, "rewind")
          /\ seen' = [seen EXCEPT ![p] = row]
          /\ UNCHANGED <<printed, at, got>>

\* Faulty RewindIfTip: the number need not be the tip; the counter goes down
\* by one whatever it was.
RewindTo(n) == counter' = [counter EXCEPT ![n.store] = n.seq - 1]
RewindByOne(n) == counter' = [counter EXCEPT ![n.store] = @ - 1]

\* UPDATE serial_counters SET current_value = n.seq - 1 WHERE it is n.seq.
RewindIfTip(n) ==
    counter' = [counter EXCEPT ![n.store] = IF @ = n.seq THEN n.seq - 1 ELSE @]

\* Re-issue, first call: reclaim the abandoned number if it is still the tip.
Rewind(p) ==
    /\ pc[p] = "rewind"
    /\ RewindIfTip(seen[p])
    /\ Goto(p, "redraw")
    /\ UNCHANGED <<ledger, shop, at, seen, got, edits, faults>>

\* The allocate_serial RPC.
Allocate(p) ==
    /\ counter' = [counter EXCEPT ![at[p]] = @ + 1]
    /\ got' = [got EXCEPT ![p] = [store |-> at[p], seq |-> counter[at[p]] + 1]]

Redraw(p) ==
    /\ pc[p] = "redraw"
    /\ Allocate(p)
    /\ Goto(p, "move")
    /\ UNCHANGED <<ledger, shop, at, seen, edits, faults>>

\* The document's ledger row carries number n from now on.
SetRow(d, n) ==
    ledger' = [ledger EXCEPT ![d] =
                  [store |-> n.store, seq |-> n.seq, status |-> "active"]]

\* After the move the serial is mirrored on Shopify, or returned to the sheet
\* (whose answer is empty when the UPDATE returned no row).
AfterMove(p, updated) ==
    IF doc[p] \in Manual
    THEN /\ Finish(p)
         /\ IF updated THEN Reply(doc[p], got[p]) ELSE UNCHANGED printed
    ELSE /\ Goto(p, "stamp")
         /\ UNCHANGED <<printed, at, seen, got>>

\* Re-issue, last database call: the document's row takes the new number.
\* The error of an UPDATE that meets serial_ledger_seq_unique is not looked at.
Move(p) ==
    /\ pc[p] = "move"
    /\ UNCHANGED <<counter, place, edits, faults>>
    /\ IF TakenByOther(doc[p], got[p])
       THEN /\ UNCHANGED ledger
            /\ AfterMove(p, FALSE)
       ELSE /\ SetRow(doc[p], got[p])
            /\ AfterMove(p, TRUE)

Draw(p) ==
    /\ pc[p] = "draw"
    /\ Allocate(p)
    /\ Goto(p, "record")
    /\ UNCHANGED <<ledger, shop, at, seen, edits, faults>>

\* Faulty Conflict: a ledger without serial_ledger_resource_unique.
ConflictBySeq(p) == TakenByOther(doc[p], got[p])

\* The INSERT meets either unique constraint of serial_ledger.
Conflict(p) == Recorded(doc[p]) \/ TakenByOther(doc[p], got[p])

\* INSERT into serial_ledger; a conflict leads to the hand-back.
Record(p) ==
    /\ pc[p] = "record"
    /\ UNCHANGED <<counter, place, edits, faults>>
    /\ \/ /\ Conflict(p)
          /\ Goto(p, "handback")
          /\ UNCHANGED <<ledger, printed, at, seen, got>>
       \/ /\ ~Conflict(p)
          /\ SetRow(doc[p], got[p])
          /\ IF doc[p] \in Manual \cup Note
             THEN Finish(p) /\ Reply(doc[p], got[p])
             ELSE Goto(p, "stamp") /\ UNCHANGED <<printed, at, seen, got>>

\* Lost the race: give the number back if nothing was drawn since.
HandBack(p) ==
    /\ pc[p] = "handback"
    /\ RewindIfTip(got[p])
    /\ Goto(p, "winner")
    /\ UNCHANGED <<ledger, shop, at, seen, got, edits, faults>>

\* Faulty Winners: the query does not filter by the resource.
AnyWinners(p) == {e \in Doc : Recorded(e)}

\* The documents whose row the winner query (by resource id) can return: the
\* document itself, or, for a note whose id is the drawn code, that code's row.
Winners(p) ==
    IF doc[p] \in Note
    THEN {e \in Note : Recorded(e) /\ NumberOf(ledger[e]) = got[p]}
    ELSE {e \in {doc[p]} : Recorded(e)}

\* Return the winner's row, or throw when there is none; no stamp either way.
Winner(p) ==
    /\ pc[p] = "winner"
    /\ Finish(p)
    /\ UNCHANGED <<db, place, edits, faults>>
    /\ \/ Winners(p) = {} /\ UNCHANGED printed
       \/ \E e \in Winners(p) :
             IF doc[p] \in Manual \cup Note
             THEN Reply(doc[p], NumberOf(ledger[e]))
             ELSE UNCHANGED printed

\* writeSerialMetafields puts serial_code on the order or draft.
Stamp(p) ==
    /\ pc[p] = "stamp"
    /\ Reply(doc[p], got[p])
    /\ Finish(p)
    /\ UNCHANGED <<db, place, edits, faults>>

-----------------------------------------------------------------------------
\* Failures.  supabase-js returns errors instead of throwing, and mintSerial
\* looks at the error of the RPC and of the INSERT only.
Fault(kind) ==
    /\ kind \in Faults
    /\ faults < MaxFaults
    /\ faults' = faults + 1

\* A call fails without effect.
CallFails(p) ==
    /\ Fault("fails")
    /\ UNCHANGED <<db, place, edits>>
    /\ \/ /\ pc[p] \in {"meta", "redraw", "draw", "winner", "stamp"}
          /\ Finish(p)
          /\ UNCHANGED printed
       \/ /\ pc[p] = "lookup"
          /\ Goto(p, "draw")
          /\ UNCHANGED <<printed, at, seen, got>>
       \/ /\ pc[p] = "rewind"
          /\ Goto(p, "redraw")
          /\ UNCHANGED <<printed, at, seen, got>>
       \/ /\ pc[p] = "move"
          /\ AfterMove(p, FALSE)
       \/ /\ pc[p] = "record"
          /\ Goto(p, "handback")
          /\ UNCHANGED <<printed, at, seen, got>>
       \/ /\ pc[p] = "handback"
          /\ Goto(p, "winner")
          /\ UNCHANGED <<printed, at, seen, got>>

\* A call takes effect but its answer is lost.
ReplyLost(p) ==
    /\ Fault("lostReply")
    /\ UNCHANGED <<place, edits>>
    /\ \/ /\ pc[p] \in {"draw", "redraw"}
          /\ counter' = [counter EXCEPT ![at[p]] = @ + 1]
          /\ Finish(p)
          /\ UNCHANGED <<ledger, printed>>
       \/ /\ pc[p] = "record" /\ ~Conflict(p)
          /\ SetRow(doc[p], got[p])
          /\ Goto(p, "handback")
          /\ UNCHANGED <<counter, printed, at, seen, got>>
       \/ /\ pc[p] = "move" /\ ~TakenByOther(doc[p], got[p])
          /\ SetRow(doc[p], got[p])
          /\ AfterMove(p, FALSE)
          /\ UNCHANGED counter

\* The process restarts: every pass and the in-process locks are gone.
Restart ==
    /\ Fault("restart")
    /\ \E p \in Pass : Busy(p)
    /\ pc' = [p \in Pass |-> "idle"]
    /\ doc' = [p \in Pass |-> None]
    /\ at' = [p \in Pass |-> None]
    /\ seen' = [p \in Pass |-> None]
    /\ got' = [p \in Pass |-> None]
    /\ numbering' = {}
    /\ UNCHANGED <<db, shop, edits>>

-----------------------------------------------------------------------------
\* Staff.
Edit ==
    /\ edits < MaxEdits
    /\ edits' = edits + 1

\* The store code is entered for the first time.
EnterStore(d, s) ==
    /\ place[d] = None
    /\ place' = [place EXCEPT ![d] = s]
    /\ UNCHANGED <<db, printed, numbering, pc, job, edits, faults>>

\* The store code on a document is corrected.
CorrectStore(d, s) ==
    /\ Edit
    /\ d \in Correctable
    /\ place[d] \notin {None, s}
    /\ place' = [place EXCEPT ![d] = s]
    /\ UNCHANGED <<db, printed, numbering, pc, job, faults>>

\* cancelSerial by resource id: one UPDATE, whoever else is working.
Cancel(d) ==
    /\ Edit
    /\ d \in Cancellable
    /\ Recorded(d)
    /\ ledger' = [ledger EXCEPT ![d].status = "cancelled"]
    /\ UNCHANGED <<counter, shop, numbering, pc, job, faults>>

-----------------------------------------------------------------------------
PassStep(p) ==
    \/ ReadMetafields(p) \/ Lookup(p)
    \/ Rewind(p) \/ Redraw(p) \/ Move(p)
    \/ Draw(p) \/ Record(p) \/ HandBack(p) \/ Winner(p)
    \/ Stamp(p)

Next ==
    \/ \E p \in Pass, d \in Doc :
          StartOrder(p, d) \/ StartDraft(p, d) \/ StartManual(p, d) \/ StartNote(p, d)
    \/ \E p \in Pass : PassStep(p) \/ CallFails(p) \/ ReplyLost(p)
    \/ Restart
    \/ \E d \in Doc, s \in Store : EnterStore(d, s) \/ CorrectStore(d, s)
    \/ \E d \in Doc : Cancel(d)

Spec == Init /\ [][Next]_vars

\* Every awaited call returns: the HTTP clients time out and the event loop
\* runs every continuation.
FairSpec == Spec /\ \A p \in Pass : WF_vars(PassStep(p))

-----------------------------------------------------------------------------
\* Types of the state; the ledger is keyed by document because
\* serial_ledger_resource_unique allows one row per resource.
TypeOK ==
    /\ counter \in [Store -> Nat]
    /\ ledger \in [Doc -> Row \cup {None}]
    /\ place \in [Doc -> Store \cup {None}]
    /\ printed \in [Doc -> Number \cup {None}]
    /\ numbering \subseteq Locked
    /\ pc \in [Pass -> Step]
    /\ doc \in [Pass -> Doc \cup {None}]
    /\ at \in [Pass -> Store \cup {None}]
    /\ seen \in [Pass -> Row \cup {None}]
    /\ got \in [Pass -> Number \cup {None}]
    /\ edits \in 0..MaxEdits
    /\ faults \in 0..MaxFaults

\* What a pass knows at each of its steps.
StepData ==
    \A p \in Pass :
        /\ pc[p] = "idle" <=> doc[p] = None
        /\ pc[p] \notin {"idle", "meta"} => at[p] \in Store
        /\ pc[p] \in {"rewind", "redraw", "move"} => seen[p] \in Row
        /\ pc[p] \in {"move", "record", "handback", "winner", "stamp"} =>
              got[p] \in Number

\* A pass that has drawn a number and neither recorded it nor let it go.
InHand(p) == pc[p] \in {"record", "move", "handback"}

\* The document's old number has been given back and its row not yet moved.
Reissuing(d) == \E p \in Pass : doc[p] = d /\ pc[p] \in {"redraw", "move"}

\* Two passes never hold the same number, and no pass holds a number some
\* document records, unless that document is being moved off it: what the
\* hand-back and the rewind of mintSerial must not break.
NoSharedNumber ==
    /\ \A p, q \in Pass : InHand(p) /\ InHand(q) /\ got[p] = got[q] => p = q
    /\ \A p \in Pass, d \in Doc :
          InHand(p) /\ Recorded(d) /\ ~Reissuing(d) => got[p] # NumberOf(ledger[d])

\* The counter is never behind a number that is recorded or about to be, so
\* that the next draw is a number nobody has.
CounterCovers ==
    /\ \A d \in Doc :
          Recorded(d) /\ ~Reissuing(d) => ledger[d].seq \in 1..counter[ledger[d].store]
    /\ \A p \in Pass : InHand(p) => got[p].seq \in 1..counter[got[p].store]

\* One document was corrected or cancelled so far, and its passes are kept
\* apart.  (Two re-issues of one store at a time block each other's move when
\* one drew the other's old number: then the old rows stay, above the counter.)
OneReissue ==
    faults = 0 /\ edits <= 1 /\ Correctable \cup Cancellable \subseteq Locked

\* A re-issue breaks neither: it takes a second one beside it, a failed call,
\* a lost answer or a restart.
ReissueSafe == OneReissue => NoSharedNumber /\ CounterCovers

\* No store code was corrected, nothing cancelled and no answer lost so far:
\* every mint was a first mint.
OnlyFirstMints == edits = 0 /\ (faults = 0 \/ "lostReply" \notin Faults)

\* The inductive invariant of first mints: no pass re-issues, a pass works with
\* the store of its document, and a row stays as it was recorded.
FirstMintInv ==
    /\ \A p \in Pass :
          /\ pc[p] \notin {"rewind", "redraw", "move"}
          /\ pc[p] \notin {"idle", "meta"} => at[p] = place[doc[p]]
    /\ \A d \in Doc :
          Recorded(d) => ledger[d].status = "active" /\ ledger[d].store = place[d]
    /\ \A p \in Pass :
          pc[p] \in {"record", "handback", "winner", "stamp"} => got[p].store = at[p]
    /\ NoSharedNumber
    /\ CounterCovers

\* What a document prints is what the ledger says it holds.
PrintedIsRecorded ==
    \A d \in Doc : printed[d] # None =>
        Recorded(d) /\ NumberOf(ledger[d]) = printed[d]

\* Two documents never print the same number.
NoSharedPrint ==
    \A d, e \in Doc : printed[d] # None /\ printed[d] = printed[e] => d = e

\* What is printed is recorded, and is one document's own.
PrintsAgree == PrintedIsRecorded /\ NoSharedPrint

\* The winner query finds the document's own row: a voucher's row is looked up
\* by its code, which another voucher may have drawn after a failed INSERT.
OwnWinner == OnlyFirstMints /\ (faults = 0 \/ Note = {})

\* First mints number every document once, and each prints what the ledger says.
FirstMintsAgree ==
    /\ OnlyFirstMints => FirstMintInv
    /\ OwnWinner => PrintsAgree

\* A locked document is worked on by one pass at a time, and the lock is held
\* exactly while a pass works on it: no restart or failure leaves it behind.
OnePass ==
    /\ \A p, q \in Pass : doc[p] \in Locked /\ doc[p] = doc[q] => p = q
    /\ numbering = {doc[p] : p \in Pass} \cap Locked

\* The state is well typed and no two passes work on a locked document.
PassesSound == TypeOK /\ OnePass

\* A pass that went past its read of an order works on an order that prints
\* nothing (with OnePass, the inductive invariant of OrderPrintsOnce).
OrderBlank ==
    \A p \in Pass :
        doc[p] \in Order /\ pc[p] \notin {"idle", "meta"} => printed[doc[p]] = None

\* The number on an order is written once: no later delivery, re-issue,
\* failure or restart replaces it.
OrderPrintsOnce ==
    [][\A d \in Order : printed[d] # None => printed'[d] = printed[d]]_vars

\* A recorded number stays with its document until a store code is corrected,
\* a document cancelled or an answer lost.
NumberIsPermanent ==
    [][OnlyFirstMints' => \A d \in Doc : Recorded(d) => ledger'[d] = ledger[d]]_vars

\* Taking a number is one atomic step of the abstract series: a document
\* holds its number from the draw on, whichever calls are still to come.
HeldBy(d) ==
    IF Recorded(d) THEN NumberOf(ledger[d])
    ELSE LET drawn == {got[p] : p \in {q \in Pass : doc[q] = d /\ InHand(q)}}
         IN  IF drawn = {} THEN None ELSE CHOOSE n \in drawn : TRUE

Series == INSTANCE NumberSeries WITH
    issued <- counter,
    holds <- [d \in Doc |-> HeldBy(d)]

\* Under the locks and without failures the mint implements the gapless
\* series: no pass ever draws a second number for a document.
ImplementsSeries == Series!SSpec

\* A mint that started ends with the document numbered, whoever won the race.
MintConcludes ==
    \A d \in Doc :
        (\E p \in Pass : doc[p] = d /\ pc[p] = "lookup") ~> Recorded(d)

\* The numbering lock is always released (the finally of the webhook).
LockReleased == \A d \in Locked : d \in numbering ~> d \notin numbering

\* Mints end, and give their lock back.
MintEnds == MintConcludes /\ LockReleased

-----------------------------------------------------------------------------
\* The claims of comments that the code does not keep.

\* A cancelled number is not handed back to its counter.
VoidedNotHandedBack ==
    [][\A d \in Doc :
          Recorded(d) /\ ledger[d].status = "cancelled"
          /\ ledger[d].seq <= counter[ledger[d].store] =>
             ledger[d].seq <= counter'[ledger[d].store]]_vars

=============================================================================
