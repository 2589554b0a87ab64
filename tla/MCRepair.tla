------------------------------ MODULE MCRepair ------------------------------
(* Repairs on small instances: what may happen besides the plain course.   *)
EXTENDS Repair, TLC

With(outside, trouble, n) ==
    [outside |-> outside, known |-> FALSE, price |-> 1, trouble |-> trouble, events |-> n, loose |-> 2]
Known(outside, trouble, n) == [With(outside, trouble, n) EXCEPT !.known = TRUE]
MCAmount == {1, 2}
MCCase == {Known(FALSE, {t}, 7) : t \in {"revise", "waived", "balance", "late", "again"}}
          \cup {Known(FALSE, {"fault"}, 6), [Known(FALSE, {"overlap"}, 3) EXCEPT !.loose = 3]}
          \cup {With(FALSE, {}, 7), With(TRUE, {}, 7)}
RequoteCase == {Known(FALSE, {"revise"}, 4)}
=============================================================================
