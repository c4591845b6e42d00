------------------------------ MODULE Clients -------------------------------
(***************************************************************************)
(* What the clients of the API and of the SDK do and see: the hosted SDK   *)
(* (the module extended here), the timeline of an action, tool loops and   *)
(* the Vercel adapter.  They share no state: here are their parameters,    *)
(* their variables and what each promises.                                 *)
(***************************************************************************)
EXTENDS HostedRun, Sequences

CONSTANTS
  Writers, Writable, MaxUpdates, MaxLosses, MaxRepeats,                     \* Timeline
  Agents, SurfaceOf, ScopeOf, BatchOf, Handlers, PolicyOf, FlakyTools,
  MaxFailures, MaxRounds,                                                \* ToolLoop
  Calls, ToolKeys, Setups                                                \* VercelAdapter

VARIABLES
  bus, stamped, updatedAt, writer, log, undelivered, losses, repeats,
  applied, clashed, putOff,                                              \* Timeline
  ledger, agent, failures, rounds, worked,                               \* ToolLoop
  setup, action, approval, call, strays, made, mishaps, toolEffects,
  excuses                                                                \* VercelAdapter

History == INSTANCE Timeline WITH
  Requests <- Writers, Statuses <- Writable, row <- stamped, request <- writer, due <- undelivered,
  late <- putOff

Loop == INSTANCE ToolLoop WITH Flaky <- FlakyTools, done <- worked

Adapter == INSTANCE VercelAdapter WITH Keys <- ToolKeys, effects <- toolEffects

ClientsAssumption ==
  /\ HostedAssumption /\ History!TimelineAssumption /\ Loop!ToolLoopAssumption /\ Adapter!VercelAssumption

-----------------------------------------------------------------------------
(* See HostedRun for HostedSafe.  See Timeline: what it shows is true, and *)
(* all of it there once nothing is under way.                              *)
TimelineTells == History!TimelineTells

(* See ToolLoop: every tool call has its answer, and the same call over    *)
(* another surface is the same action.                                     *)
BatchesSafe == Loop!BatchesSafe

(* See VercelAdapter: what repeats an effect, and by how much calls side   *)
(* by side overshoot the budget.                                           *)
AdapterBounded == Adapter!AdapterBounded
=============================================================================
