--------------------------- MODULE WriteRequests ---------------------------
(***************************************************************************)
(* What becomes of a request of the API: handleRequest() finds the         *)
(* operation it is for (Routing), withIdempotency() claims the key that a  *)
(* writing one comes with (the module extended here), and its handler      *)
(* changes the actions and the quota (CloudActions).  They meet only where *)
(* the one calls the other, and share no table.                            *)
(***************************************************************************)
EXTENDS IdempotencyKeys

CONSTANTS
  Requests, Keys, Limit, Targets, Months, Floor, Ceiling,                      \* CloudActions
  PathKeys, Orgs, Wild                                                         \* Routing

VARIABLES
  rows, usage, month, overage, writes, deaths, lapsed, slotless,               \* CloudActions
  sent, executed, reply                                                        \* Routing

Cloud == INSTANCE CloudActions WITH
  row <- rows, request <- writes, crashes <- deaths

Router == INSTANCE Routing WITH Keys <- PathKeys

actionVars == <<rows, usage, month, overage, writes, deaths, lapsed, slotless>>
routingVars == <<sent, executed, reply>>

(* See CloudActions: slots are distinct, kept while an action counts, and  *)
(* over the limit only while they are in flight or lost; an action without *)
(* a slot is one whose insert answered with an error.                      *)
UsageAccounted == Cloud!UsageAccounted

(* See Routing: a request leads to the operation it was made for.          *)
RequestsArrive == Router!RequestsArrive
=============================================================================
