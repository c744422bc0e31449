--------------------------- MODULE MCSimpleClient ---------------------------
(* TLC instance of SimpleClient: one client thread and any server.          *)
EXTENDS SimpleClient
=============================================================================
