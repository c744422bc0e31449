------------------------------ MODULE PageCalls ------------------------------
(***************************************************************************)
(* What the blocking pair promises, seen from outside: calls are made one  *)
(* after the other.  The outcome of a call depends on its own number only: *)
(* correct if the page it is for exists on the server, incorrect if not.   *)
(* A call may be lost, and then all that follow are lost too.              *)
(***************************************************************************)
EXTENDS Integers

VARIABLES
  client_pages,  \* the number of pages the client counts on
  server_pages,  \* and the number the server has
  requests,      \* calls to make
  calls,         \* calls over
  correct, incorrect

confVars == <<client_pages, server_pages, requests>>
callVars == <<confVars, calls, correct, incorrect>>

CallsInit == calls = 0 /\ correct = 0 /\ incorrect = 0

\* The client and the server read their configuration.
Configure == calls = 0 /\ UNCHANGED <<calls, correct, incorrect>>

Lost == calls # correct + incorrect

Answered ==
  /\ calls < requests /\ ~Lost
  /\ IF calls % client_pages < server_pages
     THEN correct' = correct + 1 /\ UNCHANGED incorrect
     ELSE incorrect' = incorrect + 1 /\ UNCHANGED correct
  /\ calls' = calls + 1
  /\ UNCHANGED confVars

Lose ==
  /\ calls < requests
  /\ calls' = calls + 1
  /\ UNCHANGED <<confVars, correct, incorrect>>

CallsNext == Configure \/ Answered \/ Lose
CallsSpec == CallsInit /\ [][CallsNext]_callVars
=============================================================================
