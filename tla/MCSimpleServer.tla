--------------------------- MODULE MCSimpleServer ---------------------------
(* TLC instance of SimpleServer: one handler thread and any client.         *)
EXTENDS SimpleServer
=============================================================================
