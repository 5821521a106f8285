------------------------------- MODULE ExecMC -------------------------------
(* All compressed encodings and all immediates. *)
EXTENDS ExecSpec
MCCompressed == 0 .. 65535
MCImmediates == 0 .. 4095
=============================================================================
