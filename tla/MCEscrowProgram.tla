-------------------------- MODULE MCEscrowProgram --------------------------
(* Values for EscrowProgram's constants. *)
EXTENDS EscrowProgram

CONSTANTS c1, c2

MCVouchers ==
  {[seq |-> 1, cumulative |-> 2, chain |-> c1],
   [seq |-> 2, cumulative |-> 4, chain |-> c2],
   [seq |-> 3, cumulative |-> 6, chain |-> c1],
   [seq |-> 3, cumulative |-> 3, chain |-> c2]}
=============================================================================
