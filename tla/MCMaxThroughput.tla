-------------------------- MODULE MCMaxThroughput --------------------------
(* TLC instance of MaxThroughput: two client threads and their handlers.    *)
EXTENDS MaxThroughput
=============================================================================
