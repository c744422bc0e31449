----------------------------- MODULE MCProcesses -----------------------------
(* TLC instance of Processes.                                               *)
EXTENDS Processes
=============================================================================
