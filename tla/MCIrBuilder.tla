---------------------------- MODULE MCIrBuilder ----------------------------
(***************************************************************************)
(* IrBuilder over the programs of module Programs.                         *)
(***************************************************************************)
EXTENDS IrBuilder, Programs
=============================================================================
