------------------------------ MODULE MCAgent -------------------------------
(* A vault of two holders. *)
EXTENDS Agent

CONSTANTS m1, m2, u1, u2

OneMarket  == <<m1>>
Whole      == [m \in {m1} |-> BPS]
TwoMarkets == <<m1, m2>>
Halves     == [m \in {m1, m2} |-> BPS \div 2]
Moves      == {-8, 6}
Losing     == {-8}
Halfs      == [u \in {u1, u2} |-> 50]
Holdings   == [u \in {u1, u2} |-> IF u = u1 THEN 60 ELSE 40]
=============================================================================
