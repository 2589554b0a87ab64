--------------------------- MODULE MCLoyaltyPoints ---------------------------
EXTENDS LoyaltyPoints, TLC

CONSTANTS o1, o2, c1, c2

Both == {<<o1, c1, None>>, <<o1, c2, c1>>, <<o2, c1, None>>}
One == {<<o1, c1, None>>}
MCFloors == <<2, 4>>
Having(trouble, n) == [trouble |-> trouble, comes |-> Both, events |-> n]
MCCase == {Having({t}, 4) : t \in Trouble \ {"overlap", "staff"}} \cup {Having({"staff"}, 3)}
          \cup {[Having({"overlap"}, 3) EXCEPT !.comes = One]}
=============================================================================
