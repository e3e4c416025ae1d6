------------------------------ MODULE MCRunner ------------------------------
(* A small instance of OperationalRunner for TLC. *)
EXTENDS OperationalRunner, TLC

CONSTANTS k1

MCKin == {k1}
=============================================================================
