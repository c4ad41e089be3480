------------------------------- MODULE MCScan -------------------------------
(***************************************************************************)
(* The scan command on its own, on the machines of Machines.               *)
(***************************************************************************)
EXTENDS Scan, Machines
=============================================================================
