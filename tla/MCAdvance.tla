------------------------------ MODULE MCAdvance ------------------------------
EXTENDS Advance, TLC

CONSTANTS d1, d2, d3

With(trouble, n) == [trouble |-> trouble, events |-> n]
Short == {"hasty", "bought", "orderRefund", "fault"}
MCCase ==
    {With({}, 6), With({"overlap"}, 3)}
    \cup {With({x}, 5) : x \in Trouble \ (Short \cup {"overlap"})}
    \cup {With({x}, 4) : x \in Short}
=============================================================================
