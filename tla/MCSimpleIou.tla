----------------------------- MODULE MCSimpleIou -----------------------------
(* TLC instances of SimpleIou: one client thread and its handler.           *)
EXTENDS SimpleIou
=============================================================================
