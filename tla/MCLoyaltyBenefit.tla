-------------------------- MODULE MCLoyaltyBenefit --------------------------
EXTENDS LoyaltyBenefit, TLC

CONSTANTS c1, c2, c3, d1, d2, k1, k2, ring, coin

With(trouble, drafts, carts, n) ==
    [trouble |-> trouble, drafts |-> drafts, carts |-> carts, entries |-> FALSE, events |-> n]
Store(trouble, n) == With(trouble, {d1, d2}, {}, n)
Online(trouble, n) == With(trouble, {}, {k1, k2}, n)
Either(trouble, n) == With(trouble, {d1}, {k1}, n)
MCCase ==
    {Store({}, 5), Online({}, 5), Either({}, 5), Store({"again"}, 4), Either({"again"}, 4),
     Store({"refresh"}, 5), Either({"counter"}, 4), Either({"late"}, 4), Online({"amount"}, 4),
     Store({"early"}, 4), Store({"stale"}, 4), Either({"fault"}, 4), Either({"overlap"}, 4)}
    \cup {[Store({"early"}, 4) EXCEPT !.entries = TRUE]}
CounterCase == {Either({"counter"}, 5)}
StaleCase == {With({"stale"}, {d1}, {}, 5)}
RefreshCase == {Store({"refresh"}, 5)}
=============================================================================
