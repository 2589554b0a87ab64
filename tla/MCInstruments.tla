--------------------------- MODULE MCInstruments ---------------------------
EXTENDS Instruments, TLC

CONSTANTS v1, v2, d1, d2, o1

With(kind, trouble, n) == [kind |-> kind, trouble |-> trouble, events |-> n]
Together == {"swap", "late", "online", "again"}
MCCase ==
    {With(k, Together, 5) : k \in {"voucher", "exchange_note"}}
    \cup {With("voucher", {t}, 5) : t \in {"again", "both", "converted"}}
    \cup {With("voucher", {t}, 4) : t \in {"fault", "overlap"}}
    \cup {With("voucher", {"stale"}, 5)}
SwapCase == {With("voucher", {"swap"}, 8)}
BothCase == {With("voucher", {"both"}, 6)}
StaleCase == {With("voucher", {"stale"}, 6)}
=============================================================================
