--------------------------- MODULE MCSettlerDust ---------------------------
(* Settler without AboveDust: tariffs small enough to pass for rounding. *)
EXTENDS Settler

MCZeroChain == 0
=============================================================================
