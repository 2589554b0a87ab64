---------------------------- MODULE NumberSeries ----------------------------
(***************************************************************************)
(* What document numbering promises: every store has one series, a         *)
(* document takes the next number of a series in one step, keeps it        *)
(* forever, and no number of a series is skipped or given twice.           *)
(***************************************************************************)
EXTENDS Naturals

CONSTANTS Store, Doc, None

VARIABLES
    issued,   \* last number of each store's series
    holds     \* the number of each document, or None

svars == <<issued, holds>>

SInit ==
    /\ issued = [s \in Store |-> 0]
    /\ holds = [d \in Doc |-> None]

Issue(d, s) ==
    /\ holds[d] = None
    /\ issued' = [issued EXCEPT ![s] = @ + 1]
    /\ holds' = [holds EXCEPT ![d] = [store |-> s, seq |-> issued[s] + 1]]

SNext == \E d \in Doc, s \in Store : Issue(d, s)

SSpec == SInit /\ [][SNext]_svars
=============================================================================
