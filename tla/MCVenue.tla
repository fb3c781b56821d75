------------------------------ MODULE MCVenue -------------------------------
(* A vault of two markets, four fifths of it meant for the first. *)
EXTENDS Venue

CONSTANTS m1, m2

TwoMarkets == <<m1, m2>>
Weights    == [m \in {m1, m2} |-> IF m = m1 THEN 8 ELSE 2]
=============================================================================
