----------------------------- MODULE MCBuyPlan -----------------------------
EXTENDS BuyPlan
MCStart == [piece |-> "ring", price |-> 4, gold |-> 2]
MCMarket == [p \in {"ring", "band"} |-> IF p = "ring" THEN {4, 5} ELSE {2}]

(* What happens to one plan beside the passing of its days: pairs of       *)
(* events, each pair with the others left out.                             *)
Quiet == [e \in Event |-> 0]
With(deposit, events) ==
    [deposit |-> deposit, budget |-> [e \in Event |-> IF e \in events THEN 1 ELSE 0]]
MCCase ==
    {With(d, {"edit", "change"}) : d \in {0, 3}}
    \cup {With(0, {"pay", "crash"}), With(0, {"edit", "crash"}), With(2, {"pay", "nudge"}),
          With(0, {"pay", "delete"}), With(2, {"nudge", "delete"}), With(0, {"delete", "crash"}),
          With(2, {"edit", "delete"})}
    \cup {[deposit |-> 0, budget |-> [Quiet EXCEPT !["pay"] = 2]]}
=============================================================================
