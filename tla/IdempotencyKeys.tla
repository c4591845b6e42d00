-------------------------- MODULE IdempotencyKeys --------------------------
(***************************************************************************)
(* withIdempotency() of apps/api (service.ts) for one Idempotency-Key of   *)
(* one organisation, over the Postgres store (pgStore.ts).                 *)
(*                                                                         *)
(* Clients send write requests under the key, again and again, and several *)
(* at once; some send another body under it.  A store query is atomic and  *)
(* requests interleave between them, in one API process or in several.     *)
(***************************************************************************)
EXTENDS Integers, Sequences, FiniteSets

CONSTANTS
  Clients,          \* senders of requests, each with one in flight
  Bodies,           \* fingerprints of the requests
  None,             \* a model value: no row, no answer
  HandlerFails,     \* may a handler throw or answer other than 2xx?
  MaxCrashes,       \* bound: how many requests die with their process
  MaxLapses,        \* bound: how many handlers outlive the stale window
  MaxFaults         \* bound: how many store queries fail

IdempotencyAssumption ==
  /\ IsFiniteSet(Clients) /\ Clients # {}
  /\ None \notin Bodies
  /\ None \notin [body : Bodies, answer : Nat, stale : BOOLEAN, owner : Clients]
  /\ HandlerFails \in BOOLEAN
  /\ {MaxCrashes, MaxLapses, MaxFaults} \subseteq Nat

VARIABLES
  row,              \* the row of the key in idempotency_keys, or None
  request,          \* the locals of each client's request in flight
  senders,          \* the clients there are
  crashes, lapses, faults,
  \* history variables
  done,             \* the body of each execution of the handler, in order
  told              \* pairs <<body, execution>>: 2xx answers clients got

vars == <<row, request, senders, crashes, lapses, faults, done, told>>
bounds == <<senders, crashes, lapses, faults>>

(* Where a request is: at each await, named for what it is about to do.    *)
Places == {"idle", "claim", "look", "reclaim", "handle", "complete", "release"}

Idle == [pc |-> "idle", body |-> None, answer |-> 0]

Init ==
  /\ row = None
  /\ request = [c \in Clients |-> Idle]
  /\ senders \in (SUBSET Clients) \ {{}}
  /\ crashes = 0 /\ lapses = 0 /\ faults = 0
  /\ done = <<>>
  /\ told = {}

-----------------------------------------------------------------------------
At(c, place) == request[c].pc = place
Goto(c, place) == request' = [request EXCEPT ![c].pc = place]
Return(c) == request' = [request EXCEPT ![c] = Idle]

(* The request returns the 2xx answer of an execution.                     *)
Answer(c, execution) ==
  /\ Return(c)
  /\ told' = told \cup {<<request[c].body, execution>>}

-----------------------------------------------------------------------------
(* A client sends a request under the key, for the first time or again.    *)
Send(c, b) ==
  /\ At(c, "idle")
  /\ request' = [request EXCEPT ![c] = [pc |-> "claim", body |-> b, answer |-> 0]]
  /\ UNCHANGED <<row, bounds, done, told>>

(* A faulty Claim: it takes the row over, as an upsert would.              *)
ClaimByUpsert(c) ==
  /\ At(c, "claim")
  /\ row' = [body |-> request[c].body, answer |-> 0, stale |-> FALSE, owner |-> c]
  /\ Goto(c, "handle")
  /\ UNCHANGED <<bounds, done, told>>

(* claimIdempotency: insert unless there is a row ...                      *)
Claim(c) ==
  /\ At(c, "claim")
  /\ \/ /\ row = None
        /\ row' = [body |-> request[c].body, answer |-> 0, stale |-> FALSE, owner |-> c]
        /\ Goto(c, "handle")
     \/ /\ row # None
        /\ Goto(c, "look")
        /\ UNCHANGED row
  /\ UNCHANGED <<bounds, done, told>>

(* Faulty SameBody and Orphaned: the body is not compared; the age of a    *)
(* claim is not looked at; no claim is ever given up.                      *)
AnyBody(c) == TRUE
AnyClaim == row.answer = 0
NoClaim == FALSE

(* The row is that of the same request, by its fingerprint.                *)
SameBody(c) == row.body = request[c].body

(* Its claim is in progress for more than IDEMPOTENCY_STALE_MS.            *)
Orphaned == row.answer = 0 /\ row.stale

(* ... and read that row with a second query.  It may be gone by then, and *)
(* then reading its fingerprint throws.                                    *)
Look(c) ==
  /\ At(c, "look")
  /\ \/ /\ \/ row = None
           \/ row # None /\ ~SameBody(c)                                  \* 422
           \/ row # None /\ SameBody(c) /\ row.answer = 0 /\ ~Orphaned    \* 409
        /\ Return(c)
        /\ UNCHANGED told
     \/ /\ row # None /\ SameBody(c) /\ Orphaned
        /\ Goto(c, "reclaim")
        /\ UNCHANGED told
     \/ /\ row # None /\ SameBody(c) /\ row.answer # 0
        /\ Answer(c, row.answer)
  /\ UNCHANGED <<row, bounds, done>>

(* An in-progress claim of more than IDEMPOTENCY_STALE_MS is deleted, as   *)
(* is whatever row took its place meanwhile; then all starts over.         *)
Reclaim(c) ==
  /\ At(c, "reclaim")
  /\ row' = None
  /\ Goto(c, "claim")
  /\ UNCHANGED <<bounds, done, told>>

(* The handler does its work and answers 2xx.                              *)
Handle(c) ==
  /\ At(c, "handle")
  /\ done' = Append(done, request[c].body)
  /\ request' = [request EXCEPT ![c] = [@ EXCEPT !.pc = "complete",
                                                 !.answer = Len(done) + 1]]
  /\ UNCHANGED <<row, bounds, told>>

(* A faulty HandleFails: the answer of a failed request is completed too.  *)
CompleteFailure(c) ==
  /\ At(c, "handle")
  /\ HandlerFails
  /\ Goto(c, "complete")
  /\ UNCHANGED <<row, bounds, done, told>>

(* The handler throws, or answers with another status.                     *)
HandleFails(c) ==
  /\ At(c, "handle")
  /\ HandlerFails
  /\ Goto(c, "release")
  /\ UNCHANGED <<row, bounds, done, told>>

(* A faulty Complete: the claim is given up with the answer.               *)
CompleteAndForget(c) ==
  /\ At(c, "complete")
  /\ row' = None
  /\ Answer(c, request[c].answer)
  /\ UNCHANGED <<bounds, done>>

(* completeIdempotency updates the row of the key, whoever claimed it.     *)
Complete(c) ==
  /\ At(c, "complete")
  /\ row' = IF row = None THEN None ELSE [row EXCEPT !.answer = request[c].answer]
  /\ Answer(c, request[c].answer)
  /\ UNCHANGED <<bounds, done>>

(* deleteIdempotency deletes it, whoever claimed it; the client gets no 2xx*)
Release(c) ==
  /\ At(c, "release")
  /\ row' = None
  /\ Return(c)
  /\ UNCHANGED <<bounds, done, told>>

(* A query fails.  A failed delete is ignored; a failed completion, applied*)
(* or not, gives the claim up; other failures end the request.             *)
QueryFails(c) ==
  /\ faults < MaxFaults
  /\ faults' = faults + 1
  /\ \/ At(c, "claim") /\ Return(c) /\ UNCHANGED row
     \/ At(c, "look") /\ Return(c) /\ UNCHANGED row
     \/ At(c, "reclaim") /\ Goto(c, "claim") /\ UNCHANGED row
     \/ At(c, "release") /\ Return(c) /\ UNCHANGED row
     \/ /\ At(c, "complete") /\ Goto(c, "release")
        /\ \/ UNCHANGED row
           \/ row # None /\ row' = [row EXCEPT !.answer = request[c].answer]
  /\ UNCHANGED <<senders, crashes, lapses, done, told>>

(* The process of a request dies.                                          *)
Crash(c) ==
  /\ ~At(c, "idle") /\ crashes < MaxCrashes
  /\ crashes' = crashes + 1
  /\ Return(c)
  /\ UNCHANGED <<row, senders, lapses, faults, done, told>>

(* A claim in progress gets older than IDEMPOTENCY_STALE_MS: an orphan, or *)
(* one whose request is slow.                                              *)
GoesStale ==
  /\ row # None /\ row.answer = 0 /\ ~row.stale
  /\ IF request[row.owner].pc \in {"handle", "complete", "release"}
     THEN lapses < MaxLapses /\ lapses' = lapses + 1
     ELSE UNCHANGED lapses
  /\ row' = [row EXCEPT !.stale = TRUE]
  /\ UNCHANGED <<request, senders, crashes, faults, done, told>>

(* A request that is on its way goes on.                                   *)
Step(c) ==
  \/ Claim(c) \/ Look(c) \/ Reclaim(c) \/ Handle(c) \/ HandleFails(c)
  \/ Complete(c) \/ Release(c) \/ QueryFails(c)

Next ==
  \/ \E c \in senders : \/ \E b \in Bodies : Send(c, b)
                        \/ Step(c)
                        \/ Crash(c)
  \/ GoesStale

Spec == Init /\ [][Next]_vars

(* A promise that can continue does, time passes, and clients retry until  *)
(* they are answered.                                                      *)
Fairness ==
  /\ \A c \in Clients : WF_vars(c \in senders /\ Step(c))
  /\ WF_vars(GoesStale)
  /\ \A b \in Bodies : SF_vars(\E c \in senders : Send(c, b))

FairSpec == Spec /\ Fairness

-----------------------------------------------------------------------------
(* Properties.                                                             *)

Executions == DOMAIN done

(* Every variable has its type; a request that has claimed the key or been *)
(* through its handler knows its body and answer.                          *)
TypeOK ==
  /\ row = None \/ row \in [body : Bodies, answer : {0} \cup Executions,
                            stale : BOOLEAN, owner : Clients]
  /\ request \in [Clients -> [pc : Places, body : Bodies \cup {None}, answer : {0} \cup Executions]]
  /\ \A c \in Clients :
       /\ IF At(c, "idle") THEN request[c] = Idle ELSE request[c].body \in Bodies
       /\ At(c, "complete") => request[c].answer # 0
  /\ senders \in SUBSET Clients
  /\ crashes \in 0 .. MaxCrashes /\ lapses \in 0 .. MaxLapses
  /\ faults \in 0 .. MaxFaults
  /\ done \in Seq(Bodies)
  /\ told \subseteq Bodies \X Executions

(* A client gets the answer of an execution for the body it sent: a key    *)
(* that is reused with another body is refused (service.ts:99, 264-270).   *)
AnswersMatch == \A t \in told : done[t[2]] = t[1]

(* At most one request holds the claim and may run the handler: "claims the*)
(* key, runs the handler once" (service.ts:247-248).                       *)
Exclusive ==
  \A c, d \in Clients :
    /\ request[c].pc \in {"handle", "complete"}
    /\ request[d].pc \in {"handle", "complete"}
    => c = d

(* As long as nothing has died, lapsed or failed, both of these hold.      *)
Unharmed == crashes = 0 /\ lapses = 0 /\ faults = 0
OneClaim == TypeOK /\ (Unharmed => AnswersMatch /\ Exclusive)

(* Whatever dies, lapses or fails, the handler is run again only by a      *)
(* request that was in flight when a claim was given up: every further     *)
(* execution is paid for by one such loss and one request.                 *)
LossesPaid ==
  Len(done) <= 1 + (crashes + lapses + faults) * Cardinality(senders)
=============================================================================
