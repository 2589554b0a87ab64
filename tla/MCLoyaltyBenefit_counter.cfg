CONSTANTS
    c1 = c1  c2 = c2  c3 = c3  d1 = d1  d2 = d2  k1 = k1  k2 = k2
    ring = ring  coin = coin
    None = None
    Code = {c1, c2, c3}
    Draft = {d1, d2}
    Cart = {k1, k2}
    Pieces = {ring, coin}
    Plain = {coin}
    Case <- CounterCase
SPECIFICATION FairSpec
INVARIANT CartOrCounter
CHECK_DEADLOCK FALSE
