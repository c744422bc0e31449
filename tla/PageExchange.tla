---------------------------- MODULE PageExchange ----------------------------
(***************************************************************************)
(* What one connection of simple_iou_client and simple_iou_server promises *)
(* when seen from outside: pages are asked for, answered and received as a *)
(* stream of units, never more than was asked for, within a window of      *)
(* pages; the exchange ends when all pages were asked for, and all but the *)
(* last few were received.                                                 *)
(***************************************************************************)
EXTENDS Integers

CONSTANTS
  NumRequests,  \* pages to exchange
  PageUnits,    \* units of a page
  Window,       \* pages asked for and not yet received
  Abandoned     \* pages that need not have been received at the end

VARIABLES
  asked,     \* pages asked for
  answered,  \* units sent back
  received,  \* units received
  over       \* whether the client is done

exchangeVars == <<asked, answered, received, over>>

ExchangeInit == asked = 0 /\ answered = 0 /\ received = 0 /\ over = FALSE

Ask ==
  /\ ~over
  /\ asked < NumRequests
  /\ asked * PageUnits < received + Window * PageUnits
  /\ asked' = asked + 1
  /\ UNCHANGED <<answered, received, over>>

AnswerUnits ==
  /\ ~over
  /\ answered' \in (answered + 1)..(asked * PageUnits)
  /\ UNCHANGED <<asked, received, over>>

Receive ==
  /\ ~over
  /\ received' \in (received + 1)..answered
  /\ UNCHANGED <<asked, answered, over>>

\* What was sent back and not received is lost.
Finish ==
  /\ ~over
  /\ asked = NumRequests
  /\ received + Abandoned * PageUnits >= NumRequests * PageUnits
  /\ over' = TRUE
  /\ answered' = received
  /\ UNCHANGED <<asked, received>>

ExchangeNext == Ask \/ AnswerUnits \/ Receive \/ Finish
ExchangeSpec == ExchangeInit /\ [][ExchangeNext]_exchangeVars
=============================================================================
