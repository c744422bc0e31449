----------------------------- MODULE MCIouPages -----------------------------
(* TLC instances of IouPages.                                               *)
EXTENDS IouPages
=============================================================================
