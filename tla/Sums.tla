-------------------------------- MODULE Sums ---------------------------------
(***************************************************************************)
(* The sum of a function from a finite set to the naturals, as the number  *)
(* of units it hands out: a form whose properties follow from those of     *)
(* Cardinality without induction.                                          *)
(***************************************************************************)
EXTENDS Naturals, FiniteSets

Units(f) == UNION {{x} \X (1 .. f[x]) : x \in DOMAIN f}
Total(f) == Cardinality(Units(f))
=============================================================================
