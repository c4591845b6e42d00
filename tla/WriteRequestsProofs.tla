------------------------- MODULE WriteRequestsProofs -------------------------
(* Proofs about the two sides of a writing request, for any number of      *)
(* clients, bodies, senders and actions, and about the way of a request to *)
(* its operation, for any set of keys.                                     *)
EXTENDS WriteRequests, NumberLemmas, TLAPS

(* A request between its claim and the end of it.                          *)
Held == {"handle", "complete", "release"}

(* While nothing has died, lapsed or failed: a claim in progress is fresh  *)
(* and belongs to the one request that is at it, and without one nobody is.*)
ClaimOwned ==
  /\ \A c \in Clients : ~At(c, "reclaim")
  /\ \A c \in Clients : request[c].pc \in Held =>
       row # None /\ row.answer = 0 /\ row.owner = c /\ row.body = request[c].body
  /\ row # None /\ row.answer = 0 => ~row.stale /\ request[row.owner].pc \in Held

(* And the answers that are stored or about to be are of executions for    *)
(* that body; there is one at most.                                        *)
AnswersOwned ==
  /\ \A c \in Clients : At(c, "complete") => done[request[c].answer] = request[c].body
  /\ row # None /\ row.answer # 0 => done[row.answer] = row.body
  /\ AnswersMatch

RunOnce ==
  /\ Len(done) <= 1
  /\ Len(done) = 1 => \/ row # None /\ row.answer # 0
                      \/ \E c \in Clients : At(c, "complete")

IInv == TypeOK /\ (Unharmed => ClaimOwned /\ AnswersOwned /\ RunOnce)

LEMMA InitInv == IdempotencyAssumption /\ Init => IInv
BY DEF IdempotencyAssumption, Init, IInv, TypeOK, Executions, At, Idle, Places, Unharmed,
       ClaimOwned, AnswersOwned, AnswersMatch, RunOnce, Held

LEMMA InvClaims == IInv => OneClaim
BY DEF IInv, OneClaim, Unharmed, ClaimOwned, AnswersOwned, Exclusive, Held, TypeOK

(* The parts of TypeOK, for a history d.                                   *)
Locals(d) == [pc : Places, body : Bodies \cup {None}, answer : {0} \cup DOMAIN d]
Rows(d) ==
  {None} \cup [body : Bodies, answer : {0} \cup DOMAIN d, stale : BOOLEAN, owner : Clients]

RequestOK(c) ==
  /\ IF At(c, "idle") THEN request[c] = Idle ELSE request[c].body \in Bodies
  /\ At(c, "complete") => request[c].answer # 0

LEMMA TypeParts ==
  TypeOK <=> /\ row \in Rows(done)
             /\ request \in [Clients -> Locals(done)]
             /\ \A c \in Clients : RequestOK(c)
             /\ senders \in SUBSET Clients
             /\ crashes \in 0 .. MaxCrashes /\ lapses \in 0 .. MaxLapses
             /\ faults \in 0 .. MaxFaults
             /\ done \in Seq(Bodies)
             /\ told \subseteq Bodies \X DOMAIN done
BY DEF TypeOK, Rows, Locals, RequestOK, Executions

(* What the small steps of a request do to its locals.                     *)
LEMMA GotoEffect ==
  ASSUME request \in [Clients -> Locals(done)], \A c \in Clients : RequestOK(c),
         NEW c \in Clients, NEW place \in Places \ {"idle"}, Goto(c, place), ~At(c, "idle"),
         place = "complete" => request[c].answer # 0
  PROVE  /\ request' \in [Clients -> Locals(done)]
         /\ \A d \in Clients : RequestOK(d)'
         /\ request'[c].pc = place /\ request'[c].body = request[c].body
         /\ request'[c].answer = request[c].answer
         /\ \A d \in Clients \ {c} : request'[d] = request[d]
BY DEF Goto, Locals, RequestOK, At

LEMMA ReturnEffect ==
  ASSUME request \in [Clients -> Locals(done)], \A c \in Clients : RequestOK(c),
         NEW c \in Clients, Return(c)
  PROVE  /\ request' \in [Clients -> Locals(done)]
         /\ \A d \in Clients : RequestOK(d)'
         /\ request'[c] = Idle
         /\ \A d \in Clients \ {c} : request'[d] = request[d]
BY DEF Return, Locals, RequestOK, At, Idle, Places

LEMMA NextType ==
  ASSUME IdempotencyAssumption, TypeOK, [Next]_vars
  PROVE  TypeOK'
<1> DEFINE T == /\ row \in Rows(done)
                /\ request \in [Clients -> Locals(done)]
                /\ \A c \in Clients : RequestOK(c)
                /\ senders \in SUBSET Clients
             /\ crashes \in 0 .. MaxCrashes /\ lapses \in 0 .. MaxLapses
                /\ faults \in 0 .. MaxFaults
                /\ done \in Seq(Bodies)
                /\ told \subseteq Bodies \X DOMAIN done
<1>0. T  BY TypeParts
<1> SUFFICES T'  BY DEF TypeOK, Rows, Locals, RequestOK, Executions
<1> USE <1>0 DEF bounds
<1>1. ASSUME NEW c \in Clients, NEW b \in Bodies, Send(c, b) PROVE T'
  BY <1>1 DEF Send, Locals, RequestOK, At, Places
<1>2. ASSUME NEW c \in Clients, Claim(c) PROVE T'
  <2>1. request[c].body \in Bodies  BY <1>2 DEF Claim, RequestOK, At
  <2>2. row' \in Rows(done)
    <3>1. CASE UNCHANGED row  BY <3>1
    <3>2. CASE row' = [body |-> request[c].body, answer |-> 0, stale |-> FALSE, owner |-> c]
      BY <2>1, <3>2 DEF Rows
    <3> QED  BY <1>2, <3>1, <3>2 DEF Claim
  <2>3. PICK place \in {"handle", "look"} : Goto(c, place)  BY <1>2 DEF Claim
  <2> QED  BY <1>2, <2>2, <2>3, GotoEffect DEF Claim, At, Places
<1>3. ASSUME NEW c \in Clients, Look(c) PROVE T'
  <2>1. CASE Return(c) /\ UNCHANGED told  BY <1>3, <2>1, ReturnEffect DEF Look
  <2>2. CASE Goto(c, "reclaim") /\ UNCHANGED told
    BY <1>3, <2>2, GotoEffect DEF Look, At, Places
  <2>3. CASE row # None /\ SameBody(c) /\ row.answer # 0 /\ Answer(c, row.answer)
    <3>1. request[c].body \in Bodies  BY <1>3 DEF Look, RequestOK, At
    <3>2. row.answer \in DOMAIN done  BY <2>3 DEF Rows
    <3> QED  BY <1>3, <2>3, <3>1, <3>2, ReturnEffect DEF Look, Answer
  <2> QED  BY <1>3, <2>1, <2>2, <2>3 DEF Look
<1>4. ASSUME NEW c \in Clients, Reclaim(c) PROVE T'
  BY <1>4, GotoEffect DEF Reclaim, At, Places, Rows
<1>5. ASSUME NEW c \in Clients, Handle(c) PROVE T'
  <2>1. request[c].body \in Bodies  BY <1>5 DEF Handle, RequestOK, At
  <2>2. /\ done' \in Seq(Bodies) /\ DOMAIN done \subseteq DOMAIN done'
        /\ Len(done) + 1 \in DOMAIN done' /\ Len(done) + 1 # 0
    BY <1>5, <2>1 DEF Handle
  <2>3. request' \in [Clients -> Locals(done')]
    BY ZenonT(30), <1>5, <2>2 DEF Handle, Locals, Places
  <2>4. \A d \in Clients : RequestOK(d)'
    BY <1>5, <2>1, <2>2 DEF Handle, RequestOK, At, Locals
  <2>5. row \in Rows(done')  BY <2>2 DEF Rows
  <2> QED  BY <1>5, <2>2, <2>3, <2>4, <2>5 DEF Handle
<1>6. ASSUME NEW c \in Clients, HandleFails(c) PROVE T'
  BY <1>6, GotoEffect DEF HandleFails, At, Places
<1>7. ASSUME NEW c \in Clients, Complete(c) PROVE T'
  <2>1. request[c].body \in Bodies /\ request[c].answer \in DOMAIN done
    BY <1>7 DEF Complete, RequestOK, At, Locals
  <2>2. row' \in Rows(done)  BY <1>7, <2>1 DEF Complete, Rows
  <2> QED  BY <1>7, <2>1, <2>2, ReturnEffect DEF Complete, Answer
<1>8. ASSUME NEW c \in Clients, Release(c) PROVE T'
  BY <1>8, ReturnEffect DEF Release, Rows
<1>9. ASSUME NEW c \in Clients, QueryFails(c) PROVE T'
  <2>1. request[c].answer \in {0} \cup DOMAIN done  BY DEF Locals
  <2>2. row' \in Rows(done)  BY <1>9, <2>1 DEF QueryFails, Rows
  <2>3. faults' \in 0 .. MaxFaults  BY <1>9 DEF QueryFails, IdempotencyAssumption
  <2>4. CASE Return(c)  BY <1>9, <2>2, <2>3, <2>4, ReturnEffect DEF QueryFails
  <2>5. CASE \E place \in {"claim", "release"} : ~At(c, "idle") /\ Goto(c, place)
    BY <1>9, <2>2, <2>3, <2>5, GotoEffect DEF QueryFails, Places
  <2> QED  BY <1>9, <2>4, <2>5 DEF QueryFails, At
<1>10. ASSUME NEW c \in Clients, Crash(c) PROVE T'
  <2>1. crashes' \in 0 .. MaxCrashes  BY <1>10 DEF Crash, IdempotencyAssumption
  <2> QED  BY <1>10, <2>1, ReturnEffect DEF Crash
<1>11. CASE GoesStale
  <2>1. row' \in Rows(done)  BY <1>11 DEF GoesStale, Rows
  <2>2. lapses' \in 0 .. MaxLapses  BY <1>11 DEF GoesStale, IdempotencyAssumption
  <2> QED  BY <1>11, <2>1, <2>2 DEF GoesStale, RequestOK, At
<1>12. CASE UNCHANGED vars  BY <1>12 DEF vars, RequestOK, At
<1> QED
  BY <1>1, <1>2, <1>3, <1>4, <1>5, <1>6, <1>7, <1>8, <1>9, <1>10, <1>11, <1>12 DEF Next, Step

(* What is counted once stays counted.                                     *)
LEMMA CountersRise ==
  ASSUME {crashes, lapses, faults} \subseteq Nat, senders \subseteq Clients, [Next]_vars
  PROVE  crashes' >= crashes /\ lapses' >= lapses /\ faults' >= faults
<1> USE DEF bounds
<1>1. ASSUME NEW c \in Clients, Step(c) PROVE UNCHANGED <<crashes, lapses>> /\ faults' \in {faults, faults + 1}
  BY <1>1 DEF Step, Claim, Look, Reclaim, Handle, HandleFails, Complete, Release, QueryFails
<1>2. ASSUME NEW c \in Clients, NEW b \in Bodies, Send(c, b) PROVE UNCHANGED bounds
  BY <1>2 DEF Send
<1>3. ASSUME NEW c \in Clients, Crash(c) PROVE UNCHANGED <<lapses, faults>> /\ crashes' = crashes + 1
  BY <1>3 DEF Crash
<1>4. CASE GoesStale  BY <1>4 DEF GoesStale
<1>5. CASE UNCHANGED vars  BY <1>5 DEF vars
<1> QED  BY <1>1, <1>2, <1>3, <1>4, <1>5 DEF Next

(* While nothing is lost, claims, answers and executions stay as they are  *)
(* said to be above.                                                       *)
LEMMA NextClaim ==
  ASSUME IdempotencyAssumption, IInv, [Next]_vars, Unharmed'
  PROVE  (ClaimOwned /\ AnswersOwned /\ RunOnce)'
<1> DEFINE G == ClaimOwned /\ AnswersOwned /\ RunOnce
<1> SUFFICES G'  OBVIOUS
<1>0. /\ request \in [Clients -> Locals(done)] /\ \A c \in Clients : RequestOK(c)
      /\ row \in Rows(done) /\ done \in Seq(Bodies) /\ told \subseteq Bodies \X DOMAIN done
      /\ {crashes, lapses, faults} \subseteq Nat /\ senders \subseteq Clients
  BY TypeParts DEF IInv, IdempotencyAssumption
<1>a. Unharmed  BY <1>0, CountersRise DEF Unharmed
<1>b. G  BY <1>a DEF IInv
<1>c. \/ Len(done) = 0
      \/ row # None /\ row.answer # 0
      \/ \E c \in Clients : request[c].pc = "complete"
  <2>1. Len(done) \in Nat  BY <1>0
  <2>2. Len(done) <= 1  BY <1>b DEF RunOnce
  <2>3. Len(done) = 1 => \/ row # None /\ row.answer # 0
                         \/ \E c \in Clients : request[c].pc = "complete"
    BY <1>b DEF RunOnce, At
  <2>4. \A n \in Nat : n <= 1 => n = 0 \/ n = 1  OBVIOUS
  <2> QED  BY <2>1, <2>2, <2>3, <2>4, Zenon
<1>d. \A c \in Clients : request[c].pc \in Held =>
        \A d \in Clients : request[d].pc \in Held => d = c
  BY <1>b DEF ClaimOwned
<1> USE <1>0, <1>b DEF bounds, At
<1>1. ASSUME NEW c \in Clients, NEW b \in Bodies, Send(c, b) PROVE G'
  <2>1. /\ request'[c].pc = "claim" /\ \A d \in Clients \ {c} : request'[d] = request[d]
        /\ request[c].pc = "idle" /\ UNCHANGED <<row, done, told>>
    BY <1>1 DEF Send
  <2> QED  BY <2>1 DEF ClaimOwned, AnswersOwned, AnswersMatch, RunOnce, Held, Rows
<1>2. ASSUME NEW c \in Clients, Claim(c) PROVE G'
  <2>1. CASE row = None
    <3>1. /\ \A d \in Clients : request[d].pc \notin Held
          /\ Len(done) = 0
      BY <2>1, <1>c DEF ClaimOwned, Held
    <3>2. /\ request'[c].pc = "handle" /\ request'[c].body = request[c].body
          /\ \A d \in Clients \ {c} : request'[d] = request[d]
          /\ row' = [body |-> request[c].body, answer |-> 0, stale |-> FALSE, owner |-> c]
          /\ UNCHANGED <<done, told>>
      BY <1>2, <2>1, GotoEffect DEF Claim, Places
    <3>3. row' # None
      <4>1. request[c].body \in Bodies  BY <1>2 DEF Claim, RequestOK
      <4>2. row' \in [body : Bodies, answer : Nat, stale : BOOLEAN, owner : Clients]
        BY <3>2, <4>1
      <4> QED  BY <4>2 DEF IdempotencyAssumption
    <3> QED  BY <3>1, <3>2, <3>3 DEF ClaimOwned, AnswersOwned, AnswersMatch, RunOnce, Held
  <2>2. CASE row # None
    <3>1. /\ request'[c].pc = "look" /\ \A d \in Clients \ {c} : request'[d] = request[d]
          /\ request[c].pc = "claim" /\ UNCHANGED <<row, done, told>>
      BY <1>2, <2>2, GotoEffect DEF Claim, Places
    <3> QED  BY <3>1 DEF ClaimOwned, AnswersOwned, AnswersMatch, RunOnce, Held, Rows
  <2> QED  BY <2>1, <2>2
<1>3. ASSUME NEW c \in Clients, Look(c) PROVE G'
  <2>1. ~(row # None /\ Orphaned)  BY DEF ClaimOwned, Orphaned
  <2>2. Return(c)  BY <1>3, <2>1 DEF Look, Answer
  <2>3. /\ request'[c].pc = "idle" /\ \A d \in Clients \ {c} : request'[d] = request[d]
        /\ request[c].pc = "look" /\ UNCHANGED <<row, done>>
    BY <1>3, <2>2, ReturnEffect DEF Look, Idle
  <2>4. AnswersMatch'
    <3>1. CASE UNCHANGED told  BY <2>3, <3>1 DEF AnswersOwned, AnswersMatch
    <3>2. CASE row # None /\ SameBody(c) /\ row.answer # 0 /\ Answer(c, row.answer)
      BY <2>3, <3>2 DEF AnswersOwned, AnswersMatch, Answer, SameBody
    <3> QED  BY <1>3, <3>1, <3>2 DEF Look
  <2> QED  BY <2>3, <2>4 DEF ClaimOwned, AnswersOwned, RunOnce, Held, Rows
<1>4. ASSUME NEW c \in Clients, Reclaim(c) PROVE G'
  BY <1>4 DEF Reclaim, ClaimOwned
<1>5. ASSUME NEW c \in Clients, Handle(c) PROVE G'
  <2>1. /\ row # None /\ row.answer = 0 /\ row.owner = c /\ row.body = request[c].body
        /\ ~row.stale
        /\ \A d \in Clients \ {c} : request[d].pc \notin Held
    BY <1>5, <1>d DEF Handle, ClaimOwned, Held
  <2>2. Len(done) = 0  BY <1>5, <1>c, <2>1 DEF Handle, Held
  <2>3. request[c].body \in Bodies  BY <1>5 DEF Handle, RequestOK
  <2>5. /\ request'[c].pc = "complete" /\ request'[c].body = request[c].body
        /\ request'[c].answer = 1
        /\ \A d \in Clients \ {c} : request'[d] = request[d]
        /\ UNCHANGED <<row, told>>
    BY <1>5, <2>2 DEF Handle, Locals
  <2>6. told = {}  BY <2>2
  <2>7. done'[1] = request[c].body /\ Len(done') = 1  BY <1>5, <2>2, <2>3 DEF Handle
  <2> QED  BY <2>1, <2>5, <2>6, <2>7 DEF ClaimOwned, AnswersOwned, AnswersMatch, RunOnce, Held
<1>6. ASSUME NEW c \in Clients, HandleFails(c) PROVE G'
  <2>1. /\ request'[c].pc = "release" /\ request'[c].body = request[c].body
        /\ \A d \in Clients \ {c} : request'[d] = request[d]
        /\ request[c].pc = "handle" /\ UNCHANGED <<row, done, told>>
    BY <1>6, GotoEffect DEF HandleFails, Places
  <2> QED  BY <2>1 DEF ClaimOwned, AnswersOwned, AnswersMatch, RunOnce, Held, Rows
<1>7. ASSUME NEW c \in Clients, Complete(c) PROVE G'
  <2>1. /\ row # None /\ row.answer = 0 /\ row.owner = c /\ row.body = request[c].body
        /\ \A d \in Clients \ {c} : request[d].pc \notin Held
        /\ done[request[c].answer] = request[c].body
    BY <1>7, <1>d DEF Complete, ClaimOwned, AnswersOwned, Held
  <2>2. /\ request'[c].pc = "idle" /\ \A d \in Clients \ {c} : request'[d] = request[d]
        /\ told' = told \cup {<<request[c].body, request[c].answer>>} /\ UNCHANGED done
    BY <1>7, ReturnEffect DEF Complete, Answer, Idle
  <2>3. request[c].answer # 0  BY <1>7 DEF Complete, RequestOK
  <2>4. row'.answer = request[c].answer /\ row'.body = row.body
    BY <1>7, <2>1 DEF Complete, Rows
  <2>5. row' # None
    <3>1. request[c].answer \in Nat  BY DEF Locals
    <3>2. row' \in [body : Bodies, answer : Nat, stale : BOOLEAN, owner : Clients]
      BY <1>7, <2>1, <3>1 DEF Rows, Complete
    <3> QED  BY <3>2 DEF IdempotencyAssumption
  <2>6. AnswersMatch'  BY <2>1, <2>2 DEF AnswersOwned, AnswersMatch
  <2> QED  BY <2>1, <2>2, <2>3, <2>4, <2>5, <2>6 DEF ClaimOwned, AnswersOwned, RunOnce, Held
<1>8. ASSUME NEW c \in Clients, Release(c) PROVE G'
  <2>1. /\ row.answer = 0 /\ \A d \in Clients \ {c} : request[d].pc \notin Held
    BY <1>8, <1>d DEF Release, ClaimOwned, Held
  <2>2. /\ request'[c].pc = "idle" /\ \A d \in Clients \ {c} : request'[d] = request[d]
        /\ request[c].pc = "release" /\ row' = None /\ UNCHANGED <<done, told>>
    BY <1>8, ReturnEffect DEF Release, Idle
  <2> QED  BY <2>1, <2>2 DEF ClaimOwned, AnswersOwned, AnswersMatch, RunOnce, Held
<1>9. ASSUME NEW c \in Clients, QueryFails(c) \/ Crash(c) PROVE G'
  BY <1>9, <1>a DEF QueryFails, Crash, Unharmed
<1>10. CASE GoesStale
  BY <1>10, <1>a DEF GoesStale, Unharmed, ClaimOwned, Held
<1>11. CASE UNCHANGED vars
  BY <1>11 DEF vars, ClaimOwned, AnswersOwned, AnswersMatch, RunOnce, Held
<1> QED
  BY <1>1, <1>2, <1>3, <1>4, <1>5, <1>6, <1>7, <1>8, <1>9, <1>10, <1>11 DEF Next, Step

(* Types are kept, and as long as nothing dies, lapses or fails one request*)
(* at a time holds the claim, and a 2xx answer is that of an execution for *)
(* the body it answers (service.ts:247-249).                               *)
THEOREM OneClaimHolds ==
  ASSUME IdempotencyAssumption
  PROVE  Spec => []OneClaim
<1>1. Init => IInv  BY InitInv
<1>2. IInv /\ [Next]_vars => IInv'  BY NextType, NextClaim DEF IInv
<1>3. IInv => OneClaim  BY InvClaims
<1> QED  BY <1>1, <1>2, <1>3, PTL DEF Spec

-----------------------------------------------------------------------------
(* Requests that may still run the handler, or give up a claim by releasing*)
(* it, and requests that are about to reclaim one.                         *)
Working == {c \in Clients : request[c].pc \in {"handle", "release"}}
Reclaiming == {c \in senders : At(c, "reclaim")}

(* The claim in progress is old, or its request is gone.                   *)
Doomed == row # None /\ row.answer = 0 /\ (row.stale \/ request[row.owner].pc \notin Held)

(* What there is to come of executions: one for each request at work, one  *)
(* for a free key, and one for each request that reclaims it, or may do so *)
(* now that its claim is doomed.                                           *)
ToCome ==
  Cardinality(Working) + (IF row = None THEN 1 ELSE 0)
    + (IF Doomed THEN Cardinality(senders) ELSE Cardinality(Reclaiming))

Budgeted ==
  Len(done) + ToCome <= 1 + (crashes + lapses + faults) * Cardinality(senders)

(* What a move of one request does to the numbers of them.                 *)
LEMMA MovesCount ==
  ASSUME IdempotencyAssumption, TypeOK, NEW c \in senders,
         \A d \in Clients \ {c} : request'[d] = request[d], senders' = senders
  PROVE  /\ Cardinality(Working') + (IF request[c].pc \in {"handle", "release"} THEN 1 ELSE 0)
              = Cardinality(Working) + (IF request'[c].pc \in {"handle", "release"} THEN 1 ELSE 0)
         /\ Cardinality(Reclaiming') + (IF request[c].pc = "reclaim" THEN 1 ELSE 0)
              = Cardinality(Reclaiming) + (IF request'[c].pc = "reclaim" THEN 1 ELSE 0)
<1>0. c \in Clients /\ IsFiniteSet(Clients) /\ IsFiniteSet(senders)
  BY FS_Subset DEF IdempotencyAssumption, TypeOK
<1>1. IsFiniteSet(Working) /\ IsFiniteSet(Reclaiming)
  BY <1>0, FS_Subset DEF Working, Reclaiming
<1>2. Working \ {c} = Working' \ {c} /\ Reclaiming \ {c} = Reclaiming' \ {c}
  BY <1>0 DEF Working, Reclaiming, At, TypeOK
<1>3. /\ c \in Working <=> request[c].pc \in {"handle", "release"}
      /\ c \in Working' <=> request'[c].pc \in {"handle", "release"}
      /\ c \in Reclaiming <=> request[c].pc = "reclaim"
      /\ c \in Reclaiming' <=> request'[c].pc = "reclaim"
  BY <1>0 DEF Working, Reclaiming, At
<1>4. /\ Cardinality(Working') + (IF c \in Working THEN 1 ELSE 0)
           = Cardinality(Working) + (IF c \in Working' THEN 1 ELSE 0)
      /\ Cardinality(Reclaiming') + (IF c \in Reclaiming THEN 1 ELSE 0)
           = Cardinality(Reclaiming) + (IF c \in Reclaiming' THEN 1 ELSE 0)
  BY <1>1, <1>2, OneMoves
<1> QED  BY <1>3, <1>4

(* There are requests, and no more at reclaiming than there are.           *)
LEMMA CountsBounded ==
  ASSUME IdempotencyAssumption, TypeOK
  PROVE  /\ {Cardinality(senders), Cardinality(Working), Cardinality(Reclaiming)} \subseteq Nat
         /\ Cardinality(Reclaiming) <= Cardinality(senders)
         /\ senders # {} => Cardinality(senders) >= 1
         /\ Len(done) \in Nat /\ {crashes, lapses, faults} \subseteq Nat
<1>1. IsFiniteSet(Clients) /\ IsFiniteSet(senders)
  BY FS_Subset DEF IdempotencyAssumption, TypeOK
<1>2. /\ IsFiniteSet(Working) /\ IsFiniteSet(Reclaiming)
      /\ Cardinality(Reclaiming) <= Cardinality(senders)
  BY <1>1, FS_Subset DEF Working, Reclaiming
<1>3. {Cardinality(senders), Cardinality(Working), Cardinality(Reclaiming)} \subseteq Nat
  BY <1>1, <1>2, FS_CardinalityType
<1>4. senders # {} => Cardinality(senders) >= 1
  <2>1. senders # {} => Cardinality(senders) # 0  BY <1>1, FS_EmptySet
  <2> QED  BY <1>3, <2>1
<1>5. Len(done) \in Nat /\ {crashes, lapses, faults} \subseteq Nat
  BY DEF TypeOK, IdempotencyAssumption
<1> QED  BY <1>2, <1>3, <1>4, <1>5

LEMMA NextBudgeted ==
  ASSUME IdempotencyAssumption, TypeOK, Budgeted, [Next]_vars
  PROVE  Budgeted'
<1> DEFINE w == Cardinality(Working)
           r == Cardinality(Reclaiming)
           n == Cardinality(senders)
           z == IF row = None THEN 1 ELSE 0
           k == IF Doomed THEN n ELSE r
           len == Len(done)
           losses == crashes + lapses + faults
           paid == losses * n
           w2 == Cardinality(Working')
           r2 == Cardinality(Reclaiming')
           n2 == Cardinality(senders')
           z2 == IF row' = None THEN 1 ELSE 0
           k2 == IF Doomed' THEN n2 ELSE r2
           len2 == Len(done')
           paid2 == losses' * n2
<1>0. /\ request \in [Clients -> Locals(done)] /\ senders \subseteq Clients
      /\ \A c \in Clients : RequestOK(c)
      /\ row \in Rows(done) /\ done \in Seq(Bodies) /\ TypeOK'
      /\ None \notin [body : Bodies, answer : Nat, stale : BOOLEAN, owner : Clients]
  BY TypeParts, NextType DEF IdempotencyAssumption
<1>1. /\ n \in Nat /\ w \in Nat /\ r \in Nat /\ Len(done) \in Nat /\ losses \in Nat /\ paid \in Nat
      /\ r <= n /\ (senders # {} => n >= 1)
      /\ crashes \in Nat /\ lapses \in Nat /\ faults \in Nat
  <2>1. /\ n \in Nat /\ w \in Nat /\ r \in Nat /\ Len(done) \in Nat /\ losses \in Nat
        /\ r <= n /\ (senders # {} => n >= 1)
        /\ crashes \in Nat /\ lapses \in Nat /\ faults \in Nat
    BY CountsBounded
  <2> HIDE DEF n, losses
  <2>2. paid \in Nat  BY <2>1
  <2> QED  BY <2>1, <2>2
<1>2. len + (w + z + k) <= 1 + paid
  BY DEF Budgeted, ToCome
<1> DEFINE left == len2 + (w2 + z2 + k2) <= 1 + paid2
<1> SUFFICES left
  BY DEF Budgeted, ToCome
<1>3. ASSUME losses' = losses + 1, senders' = senders PROVE paid2 = paid + n
  <2> HIDE DEF losses, n, n2
  <2>1. paid2 = (losses + 1) * n2  BY <1>3
  <2>2. n2 = n  BY <1>3 DEF n, n2
  <2>3. (losses + 1) * n = losses * n + n  BY <1>1
  <2> QED  BY <2>1, <2>2, <2>3
<1>4. ASSUME UNCHANGED bounds PROVE paid2 = paid /\ n2 = n  BY <1>4 DEF bounds
<1>k. /\ Doomed => k = n
      /\ ~Doomed => k = r
      /\ Doomed' => k2 = n2
      /\ ~Doomed' => k2 = r2
  OBVIOUS
<1>z. /\ row = None => z = 1
      /\ row # None => z = 0
      /\ row' = None => z2 = 1
      /\ row' # None => z2 = 0
  OBVIOUS
<1>d. UNCHANGED done => len2 = len  OBVIOUS
<1>n. k \in Nat /\ z \in {0, 1} /\ z2 \in {0, 1} /\ len \in Nat  BY <1>1
<1> HIDE DEF w, r, n, paid, k, z, len, w2, r2, n2, paid2, k2, z2, len2
<1>m. ASSUME NEW c \in senders, \A d \in Clients \ {c} : request'[d] = request[d], senders' = senders
      PROVE  /\ w2 + (IF request[c].pc \in {"handle", "release"} THEN 1 ELSE 0)
                  = w + (IF request'[c].pc \in {"handle", "release"} THEN 1 ELSE 0)
             /\ r2 + (IF request[c].pc = "reclaim" THEN 1 ELSE 0)
                  = r + (IF request'[c].pc = "reclaim" THEN 1 ELSE 0)
             /\ w2 \in Nat /\ r2 \in Nat /\ r2 <= n /\ n2 = n /\ n >= 1
  <2>1. w2 \in Nat /\ r2 \in Nat /\ r2 <= n2
    <3>1. IsFiniteSet(Clients) /\ IsFiniteSet(senders') /\ senders' \subseteq Clients
      BY <1>0, <1>m, FS_Subset DEF IdempotencyAssumption
    <3>2. IsFiniteSet(Working') /\ IsFiniteSet(Reclaiming') /\ Cardinality(Reclaiming') <= Cardinality(senders')
      BY <3>1, FS_Subset DEF Working, Reclaiming
    <3> QED  BY <3>2, FS_CardinalityType DEF w2, r2, n2
  <2>2. n2 = n  BY <1>m DEF n, n2
  <2> QED  BY <1>m, <1>1, <2>1, <2>2, MovesCount DEF w, r, w2, r2
<1>u. \A c \in Clients : request[c].pc \in Places  BY <1>0 DEF Locals
<1>5. ASSUME NEW c \in senders, NEW b \in Bodies, Send(c, b) PROVE left
  <2>1. /\ request[c].pc = "idle" /\ request'[c].pc = "claim" /\ UNCHANGED <<row, done, bounds>>
        /\ \A d \in Clients \ {c} : request'[d] = request[d]
    BY <1>5, <1>0 DEF Send, At
  <2>2. Doomed' = Doomed  BY <1>0, <2>1 DEF Doomed, Rows, Held
  <2>c. w2 = w /\ r2 = r /\ w2 \in Nat /\ r2 \in Nat /\ r2 <= n /\ n2 = n /\ n >= 1
    BY <1>1, <1>m, <2>1, <2>2 DEF bounds
  <2>e. z2 = z /\ k2 = k /\ len2 = len /\ paid2 = paid /\ k2 \in Nat
    BY <1>1, <1>4, <1>k, <1>z, <1>d, <2>c, <2>1, <2>2 DEF bounds
  <2> QED  BY <1>1, <1>2, <1>n, <2>c, <2>e
<1>6. ASSUME NEW c \in senders, Claim(c) PROVE left
  <2>1. request[c].pc = "claim" /\ UNCHANGED <<done, bounds>> /\ request[c].body \in Bodies
    BY <1>6, <1>0 DEF Claim, At, RequestOK
  <2>2. CASE row = None
    <3>1. /\ row' = [body |-> request[c].body, answer |-> 0, stale |-> FALSE, owner |-> c]
          /\ Goto(c, "handle")
      BY <1>6, <2>2 DEF Claim
    <3>2. /\ request'[c].pc = "handle" /\ \A d \in Clients \ {c} : request'[d] = request[d]
      BY <1>0, <2>1, <3>1, GotoEffect DEF Places, At
    <3>3. row' # None
      <4>1. row' \in [body : Bodies, answer : Nat, stale : BOOLEAN, owner : Clients]
        BY <1>0, <2>1, <3>1
      <4> QED  BY <1>0, <4>1
    <3>4. ~Doomed /\ ~Doomed'  BY <2>2, <3>1, <3>2 DEF Doomed, Held
    <3>5. senders' = senders  BY <2>1 DEF bounds
    <3>c. w2 = w + 1 /\ r2 = r /\ w2 \in Nat /\ r2 \in Nat /\ r2 <= n /\ n2 = n /\ n >= 1
      BY <1>1, <1>6, <1>m, <2>1, <3>2, <3>5
    <3>e. z = 1 /\ z2 = 0 /\ k = r /\ k2 = r2 /\ len2 = len /\ paid2 = paid /\ k2 \in Nat
      BY <1>1, <1>4, <1>k, <1>z, <1>d, <3>c, <2>1, <2>2, <3>2, <3>3, <3>4 DEF bounds
    <3> QED  BY <1>1, <1>2, <1>n, <3>c, <3>e
  <2>3. CASE row # None
    <3>1. /\ request'[c].pc = "look" /\ UNCHANGED row
          /\ \A d \in Clients \ {c} : request'[d] = request[d]
      BY <1>6, <1>0, <2>1, <2>3, GotoEffect DEF Claim, Places, At
    <3>2. Doomed' = Doomed  BY <1>0, <2>1, <3>1 DEF Doomed, Rows, Held
    <3>c. w2 = w /\ r2 = r /\ w2 \in Nat /\ r2 \in Nat /\ r2 <= n /\ n2 = n /\ n >= 1
      BY <1>1, <1>m, <2>1, <3>1, <3>2 DEF bounds
    <3>e. z2 = z /\ k2 = k /\ len2 = len /\ paid2 = paid /\ k2 \in Nat
      BY <1>1, <1>4, <1>k, <1>z, <1>d, <3>c, <2>1, <3>1, <3>2 DEF bounds
    <3> QED  BY <1>1, <1>2, <1>n, <3>c, <3>e
  <2> QED  BY <2>2, <2>3
<1>7. ASSUME NEW c \in senders, Look(c) PROVE left
  <2>1. request[c].pc = "look" /\ UNCHANGED <<row, done, bounds>>
    BY <1>7 DEF Look, At
  <2>2. CASE Return(c)
    <3>1. /\ request'[c].pc = "idle" /\ \A d \in Clients \ {c} : request'[d] = request[d]
      BY <1>0, <2>2, ReturnEffect DEF Idle
    <3>2. Doomed' = Doomed  BY <1>0, <2>1, <3>1 DEF Doomed, Rows, Held
    <3>c. w2 = w /\ r2 = r /\ w2 \in Nat /\ r2 \in Nat /\ r2 <= n /\ n2 = n /\ n >= 1
      BY <1>1, <1>m, <2>1, <3>1, <3>2 DEF bounds
    <3>e. z2 = z /\ k2 = k /\ len2 = len /\ paid2 = paid /\ k2 \in Nat
      BY <1>1, <1>4, <1>k, <1>z, <1>d, <3>c, <2>1, <3>1, <3>2 DEF bounds
    <3> QED  BY <1>1, <1>2, <1>n, <3>c, <3>e
  <2>3. CASE row # None /\ Orphaned /\ Goto(c, "reclaim")
    <3>1. /\ request'[c].pc = "reclaim" /\ \A d \in Clients \ {c} : request'[d] = request[d]
      BY <1>0, <2>1, <2>3, GotoEffect DEF Places, At
    <3>2. Doomed /\ Doomed'  BY <2>1, <2>3 DEF Doomed, Orphaned
    <3>c. w2 = w /\ w2 \in Nat /\ r2 \in Nat /\ r2 <= n /\ n2 = n /\ n >= 1
      BY <1>1, <1>m, <2>1, <3>1, <3>2 DEF bounds
    <3>e. z2 = z /\ k = n /\ k2 = n /\ len2 = len /\ paid2 = paid /\ k2 \in Nat
      BY <1>1, <1>4, <1>k, <1>z, <1>d, <3>c, <2>1, <3>1, <3>2 DEF bounds
    <3> QED  BY <1>1, <1>2, <1>n, <3>c, <3>e
  <2> QED  BY <1>7, <2>2, <2>3 DEF Look, Answer
<1>8. ASSUME NEW c \in senders, Reclaim(c) PROVE left
  <2>1. /\ request[c].pc = "reclaim" /\ UNCHANGED <<done, bounds>> /\ row' = None
        /\ request'[c].pc = "claim" /\ \A d \in Clients \ {c} : request'[d] = request[d]
    BY <1>8, <1>0, GotoEffect DEF Reclaim, Places, At
  <2>2. ~Doomed'  BY <2>1 DEF Doomed
  <2>c. w2 = w /\ r2 + 1 = r /\ w2 \in Nat /\ r2 \in Nat /\ r2 <= n /\ n2 = n /\ n >= 1
    BY <1>1, <1>m, <2>1, <2>2 DEF bounds
  <2>e. k2 = r2 /\ r <= k /\ z2 = 1 /\ len2 = len /\ paid2 = paid /\ k2 \in Nat
    BY <1>1, <1>4, <1>k, <1>z, <1>d, <2>c, <2>1, <2>2 DEF bounds
  <2> QED  BY <1>1, <1>2, <1>n, <2>c, <2>e
<1>9. ASSUME NEW c \in senders, Handle(c) PROVE left
  <2>1. /\ request[c].pc = "handle" /\ UNCHANGED <<row, bounds>> /\ request'[c].pc = "complete"
        /\ \A d \in Clients \ {c} : request'[d] = request[d]
    BY <1>9, <1>0 DEF Handle, At, Locals
  <2>2. Len(done') = Len(done) + 1
    <3>1. request[c].body \in Bodies  BY <1>9, <1>0 DEF Handle, RequestOK, At
    <3> QED  BY <1>9, <1>0, <3>1 DEF Handle
  <2>3. Doomed' = Doomed  BY <1>0, <2>1 DEF Doomed, Rows, Held
  <2>c. w2 + 1 = w /\ r2 = r /\ w2 \in Nat /\ r2 \in Nat /\ r2 <= n /\ n2 = n /\ n >= 1
    BY <1>1, <1>m, <2>1, <2>2, <2>3 DEF bounds
  <2>e. z2 = z /\ k2 = k /\ len2 = len + 1 /\ paid2 = paid /\ k2 \in Nat
    BY <1>1, <1>4, <1>k, <1>z, <1>d, <2>c, <2>1, <2>2, <2>3 DEF bounds, len, len2
  <2> QED  BY <1>1, <1>2, <1>n, <2>c, <2>e
<1>10. ASSUME NEW c \in senders, HandleFails(c) PROVE left
  <2>1. /\ request[c].pc = "handle" /\ UNCHANGED <<row, done, bounds>> /\ request'[c].pc = "release"
        /\ \A d \in Clients \ {c} : request'[d] = request[d]
    BY <1>10, <1>0, GotoEffect DEF HandleFails, Places, At
  <2>2. Doomed' = Doomed  BY <1>0, <2>1 DEF Doomed, Rows, Held
  <2>c. w2 = w /\ r2 = r /\ w2 \in Nat /\ r2 \in Nat /\ r2 <= n /\ n2 = n /\ n >= 1
    BY <1>1, <1>m, <2>1, <2>2 DEF bounds
  <2>e. z2 = z /\ k2 = k /\ len2 = len /\ paid2 = paid /\ k2 \in Nat
    BY <1>1, <1>4, <1>k, <1>z, <1>d, <2>c, <2>1, <2>2 DEF bounds
  <2> QED  BY <1>1, <1>2, <1>n, <2>c, <2>e
<1>11. ASSUME NEW c \in senders, Complete(c) PROVE left
  <2>1. /\ request[c].pc = "complete" /\ UNCHANGED <<done, bounds>> /\ request'[c].pc = "idle"
        /\ \A d \in Clients \ {c} : request'[d] = request[d]
        /\ row' = IF row = None THEN None ELSE [row EXCEPT !.answer = request[c].answer]
        /\ request[c].answer # 0
    BY <1>11, <1>0, ReturnEffect DEF Complete, Answer, Idle, At, RequestOK
  <2>2. ~Doomed'  BY <1>0, <2>1 DEF Doomed, Rows
  <2>3. row = None <=> row' = None
    <3> SUFFICES ASSUME row # None PROVE row' # None  BY <2>1
    <3>1. request[c].answer \in Nat /\ row \in [body : Bodies, answer : Nat, stale : BOOLEAN, owner : Clients]
      BY <1>0 DEF Locals, Rows
    <3>2. row' \in [body : Bodies, answer : Nat, stale : BOOLEAN, owner : Clients]
      BY <2>1, <3>1
    <3> QED  BY <1>0, <3>2
  <2>4. /\ request[c].pc = "complete" /\ request'[c].pc = "idle" /\ senders' = senders
        /\ \A d \in Clients \ {c} : request'[d] = request[d]
    BY <2>1 DEF bounds
  <2>c. w2 = w /\ r2 = r /\ w2 \in Nat /\ r2 \in Nat /\ r2 <= n /\ n2 = n /\ n >= 1
    BY <1>1, <1>m, <2>4
  <2>e. z2 = z /\ k2 = r2 /\ r <= k /\ len2 = len /\ paid2 = paid /\ k2 \in Nat
    BY <1>1, <1>4, <1>k, <1>z, <1>d, <2>c, <2>1, <2>2, <2>3 DEF bounds
  <2> QED  BY <1>1, <1>2, <1>n, <2>c, <2>e
<1>12. ASSUME NEW c \in senders, Release(c) PROVE left
  <2>1. /\ request[c].pc = "release" /\ UNCHANGED <<done, bounds>> /\ row' = None
        /\ request'[c].pc = "idle" /\ \A d \in Clients \ {c} : request'[d] = request[d]
    BY <1>12, <1>0, ReturnEffect DEF Release, Idle, At
  <2>2. ~Doomed'  BY <2>1 DEF Doomed
  <2>c. w2 + 1 = w /\ r2 = r /\ w2 \in Nat /\ r2 \in Nat /\ r2 <= n /\ n2 = n /\ n >= 1
    BY <1>1, <1>m, <2>1, <2>2 DEF bounds
  <2>e. z2 = 1 /\ k2 = r2 /\ r <= k /\ len2 = len /\ paid2 = paid /\ k2 \in Nat
    BY <1>1, <1>4, <1>k, <1>z, <1>d, <2>c, <2>1, <2>2 DEF bounds
  <2> QED  BY <1>1, <1>2, <1>n, <2>c, <2>e
<1>13. ASSUME NEW c \in senders, QueryFails(c) PROVE left
  <2>1. UNCHANGED <<done, senders>> /\ losses' = losses + 1
    BY <1>13, <1>1 DEF QueryFails
  <2>2. paid2 = paid + n /\ n2 = n  BY <1>3, <2>1 DEF n, n2
  <2>3. CASE request[c].pc \in {"claim", "look", "release"} /\ Return(c) /\ UNCHANGED row
    <3>1. /\ request'[c].pc = "idle" /\ \A d \in Clients \ {c} : request'[d] = request[d]
      BY <1>0, <2>3, ReturnEffect DEF Idle
    <3>c. w2 <= w /\ w2 \in Nat /\ r2 \in Nat /\ r2 <= n /\ n2 = n /\ n >= 1
      BY <1>1, <1>m, <2>1, <2>2, <2>3, <3>1 DEF bounds
    <3>e. z2 = z /\ k2 <= n /\ len2 = len /\ k2 \in Nat
      BY <1>1, <1>k, <1>z, <1>d, <3>c, <2>1, <2>2, <2>3, <3>1 DEF bounds
    <3> QED  BY <1>1, <1>2, <1>n, <2>2, <3>c, <3>e
  <2>4. CASE request[c].pc = "reclaim" /\ Goto(c, "claim") /\ UNCHANGED row
    <3>1. /\ request'[c].pc = "claim" /\ \A d \in Clients \ {c} : request'[d] = request[d]
      BY <1>0, <2>4, GotoEffect DEF Places, At
    <3>c. w2 = w /\ w2 \in Nat /\ r2 \in Nat /\ r2 <= n /\ n2 = n /\ n >= 1
      BY <1>1, <1>m, <2>1, <2>2, <2>4, <3>1 DEF bounds
    <3>e. z2 = z /\ k2 <= n /\ len2 = len /\ k2 \in Nat
      BY <1>1, <1>k, <1>z, <1>d, <3>c, <2>1, <2>2, <2>4, <3>1 DEF bounds
    <3> QED  BY <1>1, <1>2, <1>n, <2>2, <3>c, <3>e
  <2>5. CASE /\ request[c].pc = "complete" /\ Goto(c, "release")
             /\ \/ UNCHANGED row
                \/ row # None /\ row' = [row EXCEPT !.answer = request[c].answer]
    <3>1. /\ request'[c].pc = "release" /\ \A d \in Clients \ {c} : request'[d] = request[d]
      BY <1>0, <2>5, GotoEffect DEF Places, At
    <3>2. Doomed' => Doomed
      <4>1. CASE UNCHANGED row  BY <1>0, <2>5, <3>1, <4>1 DEF Doomed, Rows, Held
      <4>2. CASE row # None /\ row' = [row EXCEPT !.answer = request[c].answer]
        BY <1>0, <2>5, <4>2 DEF Doomed, Rows, RequestOK, At
      <4> QED  BY <2>5, <4>1, <4>2
    <3>3. row = None => row' = None  BY <2>5
    <3>4. row # None => row' # None
      <4> SUFFICES ASSUME row # None, row' = [row EXCEPT !.answer = request[c].answer] PROVE row' # None
        BY <2>5
      <4>1. request[c].answer \in Nat /\ row \in [body : Bodies, answer : Nat, stale : BOOLEAN, owner : Clients]
        BY <1>0 DEF Locals, Rows
      <4>2. row' \in [body : Bodies, answer : Nat, stale : BOOLEAN, owner : Clients]
        BY <4>1
      <4> QED  BY <1>0, <4>2
    <3>5. request[c].pc = "complete"  BY <2>5
    <3>c. w2 = w + 1 /\ r2 = r /\ w2 \in Nat /\ r2 \in Nat /\ r2 <= n /\ n2 = n /\ n >= 1
      BY <1>1, <1>m, <2>1, <3>1, <3>5
    <3>e. z2 = z /\ k2 <= k /\ len2 = len /\ n >= 1 /\ k2 \in Nat
      BY SMTT(30), <1>1, <1>k, <1>z, <1>d, <3>c, <2>1, <2>2, <2>5, <3>1, <3>2, <3>3, <3>4 DEF bounds
    <3> QED  BY <1>1, <1>2, <1>n, <2>2, <3>c, <3>e
  <2> QED  BY <1>13, <2>3, <2>4, <2>5 DEF QueryFails, At
<1>14. ASSUME NEW c \in senders, Crash(c) PROVE left
  <2>1. UNCHANGED <<row, done, senders>> /\ losses' = losses + 1
    BY <1>14, <1>1 DEF Crash
  <2>2. paid2 = paid + n /\ n2 = n  BY <1>3, <2>1 DEF n, n2
  <2>3. /\ request'[c].pc = "idle" /\ \A d \in Clients \ {c} : request'[d] = request[d]
    BY <1>14, <1>0, ReturnEffect DEF Crash, Idle
  <2>c. w2 <= w /\ w2 \in Nat /\ r2 \in Nat /\ r2 <= n /\ n2 = n /\ n >= 1
    BY <1>1, <1>m, <2>1, <2>2, <2>3 DEF bounds
  <2>e. z2 = z /\ k2 <= n /\ len2 = len /\ k2 \in Nat
    BY <1>1, <1>k, <1>z, <1>d, <2>c, <2>1, <2>2, <2>3 DEF bounds
  <2> QED  BY <1>1, <1>2, <1>n, <2>2, <2>c, <2>e
<1>15. CASE GoesStale
  <2>1. /\ UNCHANGED <<request, done, senders, crashes, faults>> /\ row # None /\ row.answer = 0
        /\ row' = [row EXCEPT !.stale = TRUE]
    BY <1>15 DEF GoesStale
  <2>2. row' # None
    <3>1. row \in [body : Bodies, answer : Nat, stale : BOOLEAN, owner : Clients]
      BY <1>0, <2>1 DEF Rows
    <3>2. row' \in [body : Bodies, answer : Nat, stale : BOOLEAN, owner : Clients]
      BY <2>1, <3>1
    <3> QED  BY <1>0, <3>2
  <2>3. w2 = w /\ r2 = r /\ n2 = n  BY <2>1 DEF w, r, n, w2, r2, n2, Working, Reclaiming, At
  <2>4. CASE request[row.owner].pc \in Held
    <3>1. losses' = losses + 1  BY <1>15, <1>1, <2>1, <2>4 DEF GoesStale, Held
    <3>2. paid2 = paid + n  BY <1>3, <2>1, <3>1
    <3>c. w2 = w /\ w2 \in Nat /\ r2 \in Nat /\ r2 <= n /\ n2 = n
      BY <1>1, <2>3
    <3>e. z2 = z /\ k2 <= n /\ len2 = len /\ k2 \in Nat
      BY <1>1, <1>k, <1>z, <1>d, <3>c, <2>1, <2>2, <2>3 DEF bounds
    <3> QED  BY <1>1, <1>2, <1>n, <3>2, <3>c, <3>e
  <2>5. CASE request[row.owner].pc \notin Held
    <3>1. UNCHANGED bounds  BY <1>15, <2>1, <2>5 DEF GoesStale, bounds, Held
    <3>2. Doomed  BY <2>1, <2>5 DEF Doomed
    <3>e. w2 = w /\ z2 = z /\ k2 <= k /\ len2 = len /\ paid2 = paid /\ k2 \in Nat
      BY <1>1, <1>4, <1>m, <1>k, <1>z, <1>d, <2>1, <2>2, <2>3, <3>1, <3>2
    <3> QED  BY <1>1, <1>2, <1>n, <3>e
  <2> QED  BY <2>4, <2>5
<1>16. CASE UNCHANGED vars
  <2>1. w2 = w /\ r2 = r /\ UNCHANGED <<row, done, bounds>> /\ Doomed' = Doomed
    BY <1>16 DEF w, r, w2, r2, Working, Reclaiming, At, vars, bounds, Doomed
  <2>2. k2 = k /\ z2 = z /\ len2 = len /\ paid2 = paid  BY <1>4, <1>k, <1>z, <1>d, <2>1
  <2> QED  BY <1>2, <2>1, <2>2
<1> QED
  BY <1>5, <1>6, <1>7, <1>8, <1>9, <1>10, <1>11, <1>12, <1>13, <1>14, <1>15, <1>16 DEF Next, Step

(* Whatever dies, lapses or fails, and however many requests race and are  *)
(* sent again: each loss is paid for with at most one further execution for*)
(* each client there is.                                                   *)
THEOREM LossesPaidHolds ==
  ASSUME IdempotencyAssumption
  PROVE  Spec => []LossesPaid
<1>1. ASSUME Init PROVE IInv /\ Budgeted
  <2>1. Working = {} /\ Reclaiming = {} /\ row = None /\ Len(done) = 0
    BY <1>1 DEF Init, Working, Reclaiming, At, Idle, IdempotencyAssumption
  <2>2. Cardinality(Working) = 0 /\ Cardinality(Reclaiming) = 0  BY <2>1, FS_EmptySet
  <2>3. Cardinality(senders) \in Nat /\ crashes + lapses + faults = 0
    <3>1. IsFiniteSet(senders)  BY <1>1, FS_Subset DEF Init, IdempotencyAssumption
    <3> QED  BY <1>1, <3>1, FS_CardinalityType DEF Init
  <2>4. 0 * Cardinality(senders) = 0  BY <2>3
  <2> QED  BY <1>1, <2>1, <2>2, <2>3, <2>4, InitInv DEF Budgeted, ToCome, Doomed
<1>2. ASSUME IInv, Budgeted, [Next]_vars PROVE IInv' /\ Budgeted'
  <2>1. TypeOK'  BY <1>2, NextType DEF IInv
  <2>2. Unharmed' => (ClaimOwned /\ AnswersOwned /\ RunOnce)'  BY <1>2, NextClaim
  <2> QED  BY <1>2, <2>1, <2>2, NextBudgeted DEF IInv
<1>3. ASSUME IInv, Budgeted PROVE LossesPaid
  <2> DEFINE n == Cardinality(senders)
             p == (crashes + lapses + faults) * n
             t == ToCome
  <2>1. /\ n \in Nat /\ Len(done) \in Nat /\ crashes + lapses + faults \in Nat /\ t \in Nat
    <3>1. /\ {n, Cardinality(Working), Cardinality(Reclaiming)} \subseteq Nat
          /\ Len(done) \in Nat /\ {crashes, lapses, faults} \subseteq Nat
      BY <1>3, CountsBounded DEF IInv
    <3> QED  BY <3>1 DEF ToCome
  <2>2. p \in Nat  BY <2>1
  <2>3. Len(done) + t <= 1 + p  BY <1>3 DEF Budgeted
  <2> HIDE DEF n, p, t
  <2>4. Len(done) <= 1 + p  BY <2>1, <2>2, <2>3
  <2> QED  BY <2>4 DEF LossesPaid, p, n
<1> QED
  <2>1. Init => IInv /\ Budgeted  BY <1>1
  <2>2. IInv /\ Budgeted /\ [Next]_vars => (IInv /\ Budgeted)'  BY <1>2
  <2>3. IInv /\ Budgeted => LossesPaid  BY <1>3
  <2> QED  BY <2>1, <2>2, <2>3, PTL DEF Spec

-----------------------------------------------------------------------------
(* The promise of OncePerKey for the one key.                              *)
Promise == INSTANCE OncePerKey WITH
  Keys <- {"key"},
  done <- [k \in {"key"} |-> Len(done)],
  told <- IF told = {} THEN {} ELSE {"key"}

(* Without deaths, lapses and failed queries withIdempotency() keeps the   *)
(* promise of run() (service.ts:247-249): the handler completes at most    *)
(* once, and what is replayed is the answer of that execution.             *)
THEOREM ImplementsOncePerKey ==
  ASSUME IdempotencyAssumption, MaxCrashes = 0, MaxLapses = 0, MaxFaults = 0
  PROVE  Spec => Promise!Spec
<1>1. Init => Promise!Init /\ IInv
  BY InitInv DEF Init, Promise!Init
<1>2. IInv /\ [Next]_vars => IInv'  BY NextType, NextClaim DEF IInv
<1>3. ASSUME IInv, IInv', [Next]_vars PROVE [Promise!Next]_(Promise!vars)
  <2>1. Unharmed /\ Unharmed'  BY <1>3, TypeParts DEF IInv, Unharmed, TypeOK
  <2>2. CASE UNCHANGED <<done, told>>  BY <2>2 DEF Promise!vars
  <2>3. ASSUME NEW c \in Clients, Handle(c) PROVE Promise!Perform("key")
    <3>1. /\ done \in Seq(Bodies) /\ done' = Append(done, request[c].body) /\ UNCHANGED told
      BY <1>3, <2>3, TypeParts DEF IInv, Handle
    <3>2. Len(done) \in Nat /\ Len(done') = Len(done) + 1 /\ Len(done') <= 1
      BY <1>3, <2>1, <3>1 DEF IInv, RunOnce
    <3> QED  BY <3>1, <3>2 DEF Promise!Perform
  <2>4. ASSUME NEW c \in Clients, NEW n, Answer(c, n), told' \subseteq Bodies \X DOMAIN done,
               UNCHANGED done
        PROVE  Promise!Tell("key")
    <3>1. told' # {}  BY <2>4 DEF Answer
    <3>2. Len(done) <= 1 /\ done \in Seq(Bodies)
      BY <1>3, <2>1, TypeParts DEF IInv, RunOnce
    <3>3. PICK i : i \in DOMAIN done  BY <2>4, <3>1
    <3>4. Len(done) = 1  BY <3>2, <3>3
    <3> QED  BY <2>4, <3>1, <3>4 DEF Promise!Tell
  <2>5. told' \subseteq Bodies \X DOMAIN done'  BY <1>3 DEF IInv, TypeOK, Executions
  <2>6. senders \subseteq Clients  BY <1>3, TypeParts DEF IInv
  <2> QED
    BY <1>3, <2>2, <2>3, <2>4, <2>5, <2>6 DEF Next, Step, Send, Claim, Look, Reclaim, HandleFails,
       Complete, Release, QueryFails, Crash, GoesStale, vars, bounds, Promise!Next
<1> QED  BY <1>1, <1>2, <1>3, PTL DEF Spec, Promise!Spec
-----------------------------------------------------------------------------
(* The quota.                                                              *)

(* Sets have the size there that they have here.                           *)
LEMMA SameSizes ==
  \A S : /\ Cloud!Cardinality(S) = Cardinality(S)
         /\ Cloud!IsFiniteSet(S) <=> IsFiniteSet(S)
BY DEF Cloud!Cardinality, Cardinality, Cloud!IsFiniteSet, IsFiniteSet

(* What a request keeps.                                                   *)
Kept == [pc : Cloud!Places, key : Keys \cup {None}, target : Targets \cup {None},
           from : Cloud!Status \cup {None}, month : 1 .. Months]

(* It knows what it is about.                                              *)
KeptOK(l) ==
  /\ l.key = None <=> l.pc = "idle"
  /\ l.pc = "apply" => l.target \in Cloud!Allowed[l.from]

Lone(q) == \A p \in Requests \ {q} : writes'[p] = writes[p]

(* The request goes on with other locals, and no other does.               *)
LEMMA Becomes ==
  ASSUME Cloud!TypeOK, NEW q \in Requests, NEW l \in Kept, Cloud!Become(q, l)
  PROVE  /\ writes' \in [Requests -> Kept] /\ writes'[q] = l /\ Lone(q)
         /\ KeptOK(l) => \A p \in Requests : KeptOK(writes'[p])
BY DEF Cloud!TypeOK, Cloud!Become, Lone, Kept, KeptOK, Cloud!At

(* The parts of the type.                                                  *)
LEMMA QuotaParts ==
  ASSUME Cloud!CloudAssumption, Cloud!TypeOK
  PROVE  /\ rows \in [Keys -> Cloud!Status \cup {None}] /\ usage \in [1 .. Months -> Int]
         /\ month \in 1 .. Months /\ Months \in Nat /\ 1 \in 1 .. Months
         /\ writes \in [Requests -> Kept]
         /\ \A q \in Requests : writes[q] \in Kept /\ KeptOK(writes[q])
         /\ deaths \in 0 .. MaxCrashes /\ MaxCrashes \in Nat
         /\ overage \in BOOLEAN /\ lapsed \subseteq Keys /\ slotless \subseteq Keys
         /\ Cloud!Idle \in Kept /\ KeptOK(Cloud!Idle) /\ None \notin Keys
BY DEF Cloud!TypeOK, Cloud!CloudAssumption, Kept, KeptOK, Cloud!At, Cloud!Idle, Cloud!Places

(* And what the rest of the type asks of a step.                           *)
LEMMA NewKept ==
  ASSUME writes' \in [Requests -> Kept], \A p \in Requests : KeptOK(writes'[p])
  PROVE  /\ writes' \in [Requests -> [pc : Cloud!Places, key : Keys \cup {None},
                                       target : Targets \cup {None},
                                       from : Cloud!Status \cup {None}, month : 1 .. Months]]
         /\ \A q \in Requests : /\ writes'[q].key = None <=> Cloud!At(q, "idle")'
                                /\ Cloud!At(q, "apply")' => writes'[q].target \in Cloud!Allowed[writes'[q].from]
BY DEF Kept, KeptOK, Cloud!At

LEMMA NextTypeQuota ==
  ASSUME Cloud!CloudAssumption, Cloud!TypeOK, [Cloud!Next]_(Cloud!vars)
  PROVE  Cloud!TypeOK'
<1> DEFINE good == writes' \in [Requests -> Kept] /\ \A p \in Requests : KeptOK(writes'[p])
<1>0. /\ rows \in [Keys -> Cloud!Status \cup {None}] /\ usage \in [1 .. Months -> Int]
      /\ month \in 1 .. Months /\ Months \in Nat
      /\ writes \in [Requests -> Kept]
      /\ \A q \in Requests : writes[q] \in Kept /\ KeptOK(writes[q])
      /\ deaths \in 0 .. MaxCrashes /\ MaxCrashes \in Nat
      /\ overage \in BOOLEAN /\ lapsed \subseteq Keys /\ slotless \subseteq Keys
      /\ Cloud!Idle \in Kept /\ KeptOK(Cloud!Idle) /\ None \notin Keys
  BY QuotaParts
<1>g. ASSUME good,
             rows' \in [Keys -> Cloud!Status \cup {None}], usage' \in [1 .. Months -> Int],
             month' \in 1 .. Months, overage' = overage,
             deaths' \in 0 .. MaxCrashes, lapsed' \subseteq Keys, slotless' \subseteq Keys
      PROVE  Cloud!TypeOK'
  <2>1. overage' \in BOOLEAN  BY <1>0, <1>g
  <2> QED  BY <1>g, <2>1, NewKept DEF Cloud!TypeOK
<1>i. ASSUME NEW m \in 1 .. Months, NEW by \in Int, Cloud!Increment(m, by)
      PROVE  usage' \in [1 .. Months -> Int]
  BY <1>0, <1>i DEF Cloud!Increment
<1>r. ASSUME NEW q \in Requests, Cloud!Return(q) PROVE good
  BY <1>0, <1>r, Becomes DEF Cloud!Return
<1>p. ASSUME NEW q \in Requests, NEW place \in Cloud!Places \ {"idle", "apply"},
             Cloud!Goto(q, place),
             writes[q].pc # "idle"
      PROVE  good
  <2> DEFINE l == [writes[q] EXCEPT !.pc = place]
  <2>1. l \in Kept /\ KeptOK(l)  BY <1>0, <1>p DEF Kept, KeptOK
  <2> HIDE DEF l
  <2> QED  BY <1>p, <2>1, Becomes DEF Cloud!Goto, l
<1>c. deaths < MaxCrashes => deaths + 1 \in 0 .. MaxCrashes  BY <1>0
<1>1. ASSUME NEW q \in Requests, NEW k \in Keys, Cloud!Post(q, k)
      PROVE  Cloud!TypeOK'
  <2> DEFINE l == [Cloud!Idle EXCEPT !.pc = "reserve", !.key = k]
  <2>1. l \in Kept /\ KeptOK(l)  BY <1>0 DEF Kept, KeptOK, Cloud!Idle, Cloud!Places
  <2> HIDE DEF l
  <2>2. good  BY <1>1, <2>1, Becomes DEF Cloud!Post, l
  <2> QED  BY <1>0, <1>1, <1>g, <2>2 DEF Cloud!Post
<1>2. ASSUME NEW q \in Requests, NEW k \in Keys, NEW to \in Targets, Cloud!Mark(q, k, to)
      PROVE  Cloud!TypeOK'
  <2> DEFINE l == [Cloud!Idle EXCEPT !.pc = "read", !.key = k, !.target = to]
  <2>1. l \in Kept /\ KeptOK(l)  BY <1>0 DEF Kept, KeptOK, Cloud!Idle, Cloud!Places
  <2> HIDE DEF l
  <2>2. good  BY <1>2, <2>1, Becomes DEF Cloud!Mark, l
  <2> QED  BY <1>0, <1>2, <1>g, <2>2 DEF Cloud!Mark
<1>3. ASSUME NEW q \in Requests, Cloud!Reserve(q)
      PROVE  Cloud!TypeOK'
  <2>1. usage' \in [1 .. Months -> Int]  BY <1>0, <1>3, <1>i DEF Cloud!Reserve
  <2>2. good
    <3>1. ASSUME NEW place \in {"rollback", "insert"},
                 Cloud!Become(q, [writes[q] EXCEPT !.pc = place, !.month = month])
          PROVE  good
      <4> DEFINE l == [writes[q] EXCEPT !.pc = place, !.month = month]
      <4>1. l \in Kept /\ KeptOK(l)
        BY <1>0, <1>3 DEF Kept, KeptOK, Cloud!Places, Cloud!Reserve, Cloud!At
      <4> HIDE DEF l
      <4> QED  BY <3>1, <4>1, Becomes DEF l
    <3> HIDE DEF good
    <3> QED  BY <1>3, <1>r, <3>1 DEF Cloud!Reserve
  <2> QED  BY <1>0, <1>3, <1>g, <2>1, <2>2 DEF Cloud!Reserve
<1>4. ASSUME NEW q \in Requests, Cloud!Rollback(q)
      PROVE  Cloud!TypeOK'
  <2>1. usage' \in [1 .. Months -> Int]  BY <1>0, <1>4, <1>i DEF Cloud!Rollback, Kept
  <2>2. good  BY <1>4, <1>r DEF Cloud!Rollback
  <2> QED  BY <1>0, <1>4, <1>g, <2>1, <2>2 DEF Cloud!Rollback
<1>5. ASSUME NEW q \in Requests, Cloud!Insert(q)
      PROVE  Cloud!TypeOK'
  <2>1. writes[q].pc = "insert" /\ writes[q].key \in Keys
    BY <1>0, <1>5 DEF Cloud!Insert, Cloud!At, Kept, KeptOK
  <2>2. good  BY <1>5, <1>r, <1>p, <2>1 DEF Cloud!Insert, Cloud!Places
  <2>3. rows' \in [Keys -> Cloud!Status \cup {None}]
    BY <1>0, <1>5 DEF Cloud!Insert, Cloud!Status
  <2> QED  BY <1>0, <1>5, <1>g, <2>2, <2>3 DEF Cloud!Insert
<1>6. ASSUME NEW q \in Requests, Cloud!Release(q)
      PROVE  Cloud!TypeOK'
  <2>1. usage' \in [1 .. Months -> Int]  BY <1>0, <1>6, <1>i DEF Cloud!Release
  <2>2. good  BY <1>6, <1>r DEF Cloud!Release
  <2> QED  BY <1>0, <1>6, <1>g, <2>1, <2>2 DEF Cloud!Release
<1>7. ASSUME NEW q \in Requests, Cloud!Read(q)
      PROVE  Cloud!TypeOK'
  <2>1. writes[q].pc = "read" /\ writes[q].key \in Keys
    BY <1>0, <1>7 DEF Cloud!Read, Cloud!At, Kept, KeptOK
  <2>2. good
    <3>1. CASE rows[writes[q].key] # None /\ Cloud!Permitted(rows[writes[q].key], writes[q].target)
      <4> DEFINE l == [writes[q] EXCEPT !.pc = "apply", !.from = rows[writes[q].key]]
      <4>1. l \in Kept /\ KeptOK(l)
        BY <1>0, <2>1, <3>1 DEF Kept, KeptOK, Cloud!Places, Cloud!Permitted
      <4> HIDE DEF l
      <4> QED  BY <1>7, <3>1, <4>1, Becomes DEF l, Cloud!Read
    <3>2. CASE ~(rows[writes[q].key] # None /\ Cloud!Permitted(rows[writes[q].key], writes[q].target))
      BY <1>7, <1>r, <3>2 DEF Cloud!Read
    <3> QED  BY <3>1, <3>2
  <2> QED  BY <1>0, <1>7, <1>g, <2>2 DEF Cloud!Read
<1>8. ASSUME NEW q \in Requests, Cloud!Apply(q)
      PROVE  Cloud!TypeOK'
  <2>1. writes[q].pc = "apply" /\ writes[q].key \in Keys
    BY <1>0, <1>8 DEF Cloud!Apply, Cloud!At, Kept, KeptOK
  <2>2. good  BY <1>8, <1>r, <1>p, <2>1 DEF Cloud!Apply, Cloud!Places
  <2>3. rows' \in [Keys -> Cloud!Status \cup {None}] /\ lapsed' \subseteq Keys
    <3>1. writes[q].target \in Cloud!Status \cup {None}  BY <1>0 DEF Kept, Cloud!CloudAssumption
    <3> QED  BY <1>0, <1>8, <2>1, <3>1 DEF Cloud!Apply
  <2> QED  BY <1>0, <1>8, <1>g, <2>2, <2>3 DEF Cloud!Apply
<1>9. ASSUME NEW q \in Requests, Cloud!InsertFails(q)
      PROVE  Cloud!TypeOK'
  <2>1. writes[q].pc = "insert" /\ writes[q].key \in Keys
    BY <1>0, <1>9 DEF Cloud!InsertFails, Cloud!At, Kept, KeptOK
  <2>2. good  BY <1>9, <1>p, <2>1 DEF Cloud!InsertFails, Cloud!Places
  <2>3. rows' \in [Keys -> Cloud!Status \cup {None}] /\ slotless' \subseteq Keys
    BY <1>0, <1>9, <2>1 DEF Cloud!InsertFails, Cloud!Status
  <2> QED  BY <1>0, <1>9, <1>c, <1>g, <2>2, <2>3 DEF Cloud!InsertFails
<1>10. ASSUME NEW q \in Requests, Cloud!Crash(q)
      PROVE  Cloud!TypeOK'
  <2>1. good  BY <1>10, <1>r DEF Cloud!Crash
  <2> QED  BY <1>0, <1>10, <1>c, <1>g, <2>1 DEF Cloud!Crash
<1>11. CASE Cloud!NextMonth
  <2>1. month' \in 1 .. Months  BY <1>0, <1>11 DEF Cloud!NextMonth
  <2> QED  BY <1>0, <1>11, <1>g, <2>1 DEF Cloud!NextMonth
<1>12. CASE UNCHANGED Cloud!vars  BY <1>0, <1>12, <1>g DEF Cloud!vars
<1> HIDE DEF good
<1> QED
  BY <1>1, <1>2, <1>3, <1>4, <1>5, <1>6, <1>7, <1>8, <1>9, <1>10, <1>11, <1>12 DEF Cloud!Next


Slots == {q \in Requests : writes[q].pc \in {"rollback", "insert", "release"}}
Inserting == {q \in Requests : writes[q].pc \in {"insert", "release"}}

(* As long as no action has failed, been denied or rejected.               *)
Unlapsed ==
  /\ \A k \in Keys : rows[k] \notin Cloud!NonCounting
  /\ \A q \in Requests :
       /\ writes[q].pc = "apply" => writes[q].from \notin Cloud!NonCounting
       /\ writes[q].pc = "reserve" => writes[q].target = None

(* What a request knows of the row and of the month it reserved in.        *)
Informed ==
  \A q \in Requests :
    /\ writes[q].pc = "apply" =>
         /\ writes[q].key \in Keys /\ rows[writes[q].key] # None
         /\ writes[q].target \in Cloud!Status
    /\ writes[q].pc = "rollback" => writes[q].month <= month

(* An action without a slot is there, and a failed query is behind it.     *)
Excepted == (\A k \in slotless : rows[k] # None) /\ Cardinality(slotless) <= deaths

(* NoOvershoot does not follow from the other two: a request that dies     *)
(* before its rollback raises the counter for good.  What inserts take is  *)
(* within the limit since they reserved it.                                *)
QuotaInv ==
  /\ Informed /\ (lapsed = {} => Unlapsed)
  /\ Cloud!UsageBounded /\ Excepted
  /\ Cloud!Steady =>
       /\ Cardinality(Cloud!Holding) + Cardinality(Slots) <= usage[1]
       /\ ~overage => Cardinality(Cloud!Holding) + Cardinality(Inserting) <= Limit
       /\ deaths = 0 => usage[1] = Cardinality(Cloud!Holding) + Cardinality(Slots)

(* A set that at most c joins or leaves.                                   *)
LEMMA Moves ==
  ASSUME NEW S, IsFiniteSet(S), NEW T, NEW c, S \ {c} = T \ {c}
  PROVE  /\ Cardinality(S) \in Nat /\ Cardinality(T) \in Nat
         /\ (c \in S <=> c \in T) => Cardinality(T) = Cardinality(S)
         /\ c \notin S /\ c \in T => Cardinality(T) = Cardinality(S) + 1
         /\ c \in S /\ c \notin T => Cardinality(T) = Cardinality(S) - 1
<1> DEFINE s == Cardinality(S)
           t == Cardinality(T)
<1>1. /\ s \in Nat /\ t \in Nat
      /\ t + (IF c \in S THEN 1 ELSE 0) = s + (IF c \in T THEN 1 ELSE 0)
  BY OneMoves
<1> HIDE DEF s, t
<1>2. /\ (c \in S <=> c \in T) => t = s
      /\ c \notin S /\ c \in T => t = s + 1
      /\ c \in S /\ c \notin T => t = s - 1
  BY <1>1
<1> QED  BY <1>1, <1>2 DEF s, t

(* The counters of the quota are finite sets.                              *)
LEMMA QuotaFinite ==
  ASSUME Cloud!CloudAssumption
  PROVE  /\ IsFiniteSet(Cloud!Holding) /\ IsFiniteSet(Slots) /\ IsFiniteSet(Inserting)
         /\ \A m : IsFiniteSet(Cloud!InMonth(m, "rollback"))
         /\ Cardinality(Cloud!Holding) \in Nat /\ Cardinality(Slots) \in Nat
         /\ Cardinality(Inserting) \in Nat /\ Cardinality(Inserting) <= Cardinality(Slots)
<1>1. IsFiniteSet(Keys) /\ IsFiniteSet(Requests)  BY SameSizes DEF Cloud!CloudAssumption
<1>2. /\ Cloud!Holding \subseteq Keys /\ Slots \subseteq Requests
      /\ Inserting \subseteq Requests /\ Inserting \subseteq Slots
      /\ \A m : Cloud!InMonth(m, "rollback") \subseteq Requests
  BY DEF Cloud!Holding, Cloud!Counting, Slots, Inserting, Cloud!InMonth
<1>3. /\ IsFiniteSet(Cloud!Holding) /\ IsFiniteSet(Slots) /\ IsFiniteSet(Inserting)
      /\ \A m : IsFiniteSet(Cloud!InMonth(m, "rollback"))
  BY <1>1, <1>2, FS_Subset
<1>4. Cardinality(Inserting) <= Cardinality(Slots)  BY <1>2, <1>3, FS_Subset
<1> QED  BY <1>3, <1>4, FS_CardinalityType

(* What one request changes of them.                                       *)
LEMMA SlotsMove ==
  ASSUME Cloud!CloudAssumption, NEW q \in Requests, Lone(q)
  PROVE  /\ Cardinality(Slots)' \in Nat
         /\ (q \in Slots <=> q \in Slots') => Cardinality(Slots)' = Cardinality(Slots)
         /\ q \notin Slots /\ q \in Slots' => Cardinality(Slots)' = Cardinality(Slots) + 1
         /\ q \in Slots /\ q \notin Slots' => Cardinality(Slots)' = Cardinality(Slots) - 1
<1>1. Slots \ {q} = Slots' \ {q}  BY DEF Slots, Lone
<1> QED  BY <1>1, QuotaFinite, Moves

LEMMA InsertingMove ==
  ASSUME Cloud!CloudAssumption, NEW q \in Requests, Lone(q)
  PROVE  /\ Cardinality(Inserting)' \in Nat
         /\ (q \in Inserting <=> q \in Inserting') => Cardinality(Inserting)' = Cardinality(Inserting)
         /\ q \notin Inserting /\ q \in Inserting' => Cardinality(Inserting)' = Cardinality(Inserting) + 1
         /\ q \in Inserting /\ q \notin Inserting' => Cardinality(Inserting)' = Cardinality(Inserting) - 1
<1>1. Inserting \ {q} = Inserting' \ {q}  BY DEF Inserting, Lone
<1> QED  BY <1>1, QuotaFinite, Moves

LEMMA RollbacksMove ==
  ASSUME Cloud!CloudAssumption, NEW q \in Requests, Lone(q), NEW m
  PROVE  LET S == Cloud!InMonth(m, "rollback")
         IN  /\ Cardinality(S) \in Nat /\ Cardinality(S)' \in Nat
             /\ (q \in S <=> q \in S') => Cardinality(S)' = Cardinality(S)
             /\ q \notin S /\ q \in S' => Cardinality(S)' = Cardinality(S) + 1
             /\ q \in S /\ q \notin S' => Cardinality(S)' = Cardinality(S) - 1
<1> DEFINE S == Cloud!InMonth(m, "rollback")
<1>1. S \ {q} = S' \ {q}  BY DEF Cloud!InMonth, Lone, Cloud!At
<1>2. IsFiniteSet(S)  BY QuotaFinite
<1> HIDE DEF S
<1>3. /\ Cardinality(S) \in Nat /\ Cardinality(S)' \in Nat
      /\ (q \in S <=> q \in S') => Cardinality(S)' = Cardinality(S)
      /\ q \notin S /\ q \in S' => Cardinality(S)' = Cardinality(S) + 1
      /\ q \in S /\ q \notin S' => Cardinality(S)' = Cardinality(S) - 1
  BY <1>1, <1>2, Moves
<1> QED  BY <1>3 DEF S


(* A request that another one does not change.                             *)
LEMMA NextInformed ==
  ASSUME Cloud!CloudAssumption, Cloud!TypeOK, Cloud!TypeOK',
         [Cloud!Next]_(Cloud!vars), Informed, lapsed = {} => Unlapsed
  PROVE  Informed' /\ (lapsed' = {} => Unlapsed')
<1> DEFINE good == Informed' /\ (lapsed' = {} => Unlapsed')
<1>0. /\ rows \in [Keys -> Cloud!Status \cup {None}] /\ usage \in [1 .. Months -> Int]
      /\ month \in 1 .. Months
      /\ writes \in [Requests -> Kept]
      /\ \A q \in Requests : writes[q] \in Kept /\ KeptOK(writes[q])
      /\ lapsed \subseteq Keys /\ Cloud!Idle \in Kept /\ KeptOK(Cloud!Idle) /\ None \notin Keys
      /\ None \notin Cloud!Status
  BY QuotaParts DEF Cloud!CloudAssumption
<1>n. month' \in 1 .. Months  BY DEF Cloud!TypeOK
<1>a. ASSUME rows' = rows, month' = month, lapsed' = lapsed,
             NEW q \in Requests, Lone(q),
             /\ writes'[q].pc = "apply" =>
                  /\ writes'[q].key \in Keys /\ rows[writes'[q].key] # None
                  /\ writes'[q].target \in Cloud!Status
             /\ writes'[q].pc = "rollback" => writes'[q].month <= month,
             lapsed = {} =>
               /\ writes'[q].pc = "apply" => writes'[q].from \notin Cloud!NonCounting
               /\ writes'[q].pc = "reserve" => writes'[q].target = None
      PROVE  good
  BY <1>a DEF Informed, Unlapsed, Lone
<1>b. ASSUME NEW q \in Requests, NEW l \in Kept, Cloud!Become(q, l)
      PROVE  writes'[q] = l /\ Lone(q)
  BY <1>b, Becomes
<1>r. ASSUME NEW q \in Requests, Cloud!Return(q) PROVE writes'[q].pc = "idle" /\ Lone(q)
  BY <1>0, <1>r, <1>b DEF Cloud!Return, Cloud!Idle
<1>p. ASSUME NEW q \in Requests, NEW place \in Cloud!Places, Cloud!Goto(q, place)
      PROVE  writes'[q] = [writes[q] EXCEPT !.pc = place] /\ writes'[q].pc = place /\ Lone(q)
  <2> DEFINE l == [writes[q] EXCEPT !.pc = place]
  <2>1. l \in Kept /\ l.pc = place  BY <1>0 DEF Kept
  <2> HIDE DEF l
  <2>2. writes'[q] = l /\ Lone(q)  BY <1>p, <2>1, <1>b DEF Cloud!Goto, l
  <2> QED  BY <2>1, <2>2 DEF l
<1>1. ASSUME NEW q \in Requests, NEW k \in Keys, Cloud!Post(q, k) PROVE good
  <2> DEFINE l == [Cloud!Idle EXCEPT !.pc = "reserve", !.key = k]
  <2>1. l \in Kept /\ l.pc = "reserve" /\ l.target = None
    BY <1>0 DEF Kept, Cloud!Idle, Cloud!Places
  <2> HIDE DEF l
  <2>2. writes'[q] = l /\ Lone(q)  BY <1>1, <2>1, <1>b DEF Cloud!Post, l
  <2> QED  BY <1>1, <1>a, <2>1, <2>2 DEF Cloud!Post
<1>2. ASSUME NEW q \in Requests, NEW k \in Keys, NEW to \in Targets, Cloud!Mark(q, k, to)
      PROVE  good
  <2> DEFINE l == [Cloud!Idle EXCEPT !.pc = "read", !.key = k, !.target = to]
  <2>1. l \in Kept /\ l.pc = "read"  BY <1>0 DEF Kept, Cloud!Idle, Cloud!Places
  <2> HIDE DEF l
  <2>2. writes'[q] = l /\ Lone(q)  BY <1>2, <2>1, <1>b DEF Cloud!Mark, l
  <2> QED  BY <1>2, <1>a, <2>1, <2>2 DEF Cloud!Mark
<1>3. ASSUME NEW q \in Requests, Cloud!Reserve(q) PROVE good
  <2>1. ASSUME NEW place \in {"rollback", "insert"},
               Cloud!Become(q, [writes[q] EXCEPT !.pc = place, !.month = month])
        PROVE  good
    <3> DEFINE l == [writes[q] EXCEPT !.pc = place, !.month = month]
    <3>1. l \in Kept /\ l.pc = place /\ l.month = month  BY <1>0, <2>1 DEF Kept, Cloud!Places
    <3> HIDE DEF l
    <3>2. writes'[q] = l /\ Lone(q)  BY <2>1, <3>1, <1>b DEF l
    <3>3. writes'[q].month <= month  BY <1>0, <3>1, <3>2
    <3> QED  BY <1>3, <1>a, <3>1, <3>2, <3>3 DEF Cloud!Reserve
  <2>2. CASE Cloud!Return(q)  BY <1>3, <1>a, <1>r, <2>2 DEF Cloud!Reserve
  <2> HIDE DEF good
  <2> QED  BY <1>3, <2>1, <2>2 DEF Cloud!Reserve
<1>4. ASSUME NEW q \in Requests, Cloud!Rollback(q) PROVE good
  BY <1>4, <1>a, <1>r DEF Cloud!Rollback
<1>5. ASSUME NEW q \in Requests, Cloud!Insert(q) PROVE good
  <2>0. writes[q].pc = "insert" /\ writes[q].key \in Keys
    BY <1>0, <1>5 DEF Cloud!Insert, Cloud!At, Kept, KeptOK
  <2>1. ASSUME Cloud!Goto(q, "release"), UNCHANGED rows PROVE good
    BY <1>5, <1>a, <1>p, <2>1 DEF Cloud!Insert, Cloud!Places
  <2>2. ASSUME Cloud!Return(q), rows[writes[q].key] = None,
               rows' = [rows EXCEPT ![writes[q].key] = "pending"]
        PROVE  good
    <3>1. writes'[q].pc = "idle" /\ Lone(q)  BY <2>2, <1>r
    <3>2. \A k \in Keys : /\ rows[k] # None => rows'[k] # None
                          /\ rows[k] \notin Cloud!NonCounting => rows'[k] \notin Cloud!NonCounting
      BY <1>0, <2>0, <2>2 DEF Cloud!Status, Cloud!NonCounting
    <3> QED  BY <1>5, <3>1, <3>2 DEF Informed, Unlapsed, Lone, Cloud!Insert
  <2> HIDE DEF good
  <2> QED  BY <1>5, <2>1, <2>2 DEF Cloud!Insert
<1>6. ASSUME NEW q \in Requests, Cloud!Release(q) PROVE good
  BY <1>6, <1>a, <1>r DEF Cloud!Release
<1>7. ASSUME NEW q \in Requests, Cloud!Read(q) PROVE good
  <2>1. writes[q].pc = "read" /\ writes[q].key \in Keys
    BY <1>0, <1>7 DEF Cloud!Read, Cloud!At, Kept, KeptOK
  <2>2. CASE rows[writes[q].key] # None /\ Cloud!Permitted(rows[writes[q].key], writes[q].target)
    <3> DEFINE l == [writes[q] EXCEPT !.pc = "apply", !.from = rows[writes[q].key]]
    <3>1. /\ l \in Kept /\ l.pc = "apply" /\ l.key = writes[q].key
          /\ l.from = rows[writes[q].key] /\ l.target = writes[q].target
      BY <1>0, <2>1, <2>2 DEF Kept, Cloud!Places
    <3> HIDE DEF l
    <3>2. writes'[q] = l /\ Lone(q)  BY <1>7, <2>2, <3>1, <1>b DEF l, Cloud!Read
    <3>3. lapsed = {} => l.from \notin Cloud!NonCounting  BY <2>1, <3>1 DEF Unlapsed
    <3>4. l.target \in Cloud!Status
      <4>1. rows[writes[q].key] \in Cloud!Status  BY <1>0, <2>1, <2>2
      <4> QED  BY <2>2, <3>1, <4>1 DEF Cloud!Permitted, Cloud!Allowed, Cloud!Status
    <3> QED  BY <1>7, <1>a, <2>1, <2>2, <3>1, <3>2, <3>3, <3>4 DEF Cloud!Read
  <2>3. CASE ~(rows[writes[q].key] # None /\ Cloud!Permitted(rows[writes[q].key], writes[q].target))
    BY <1>7, <1>a, <1>r, <2>3 DEF Cloud!Read
  <2> QED  BY <2>2, <2>3
<1>8. ASSUME NEW q \in Requests, Cloud!Apply(q) PROVE good
  <2> DEFINE to == writes[q].target
             k == writes[q].key
             from == writes[q].from
  <2>1. writes[q].pc = "apply" /\ k \in Keys /\ to \in Cloud!Allowed[from]
    BY <1>0, <1>8 DEF Cloud!Apply, Cloud!At, Kept, KeptOK
  <2>2. to \in Cloud!Status  BY <2>1 DEF Informed
  <2>3. rows' = [rows EXCEPT ![k] = to] /\ UNCHANGED month  BY <1>8 DEF Cloud!Apply
  <2>4. \/ from \notin Cloud!NonCounting /\ to \in Cloud!NonCounting /\ Cloud!Goto(q, "release")
        \/ from \in Cloud!NonCounting /\ to \notin Cloud!NonCounting /\ Cloud!Goto(q, "reserve")
        \/ (from \in Cloud!NonCounting <=> to \in Cloud!NonCounting) /\ Cloud!Return(q)
    BY <1>8 DEF Cloud!Apply
  <2>5. Lone(q) /\ writes'[q].pc \in {"release", "reserve", "idle"}
    BY <2>4, <1>p, <1>r DEF Cloud!Places
  <2>6. Informed'
    <3>1. \A j \in Keys : rows[j] # None => rows'[j] # None  BY <1>0, <2>1, <2>2, <2>3
    <3> QED  BY <2>3, <2>5, <3>1 DEF Informed, Lone
  <2>7. ASSUME lapsed' = {} PROVE Unlapsed'
    <3>1. to \notin Cloud!NonCounting /\ lapsed = {}  BY <1>8, <2>7 DEF Cloud!Apply
    <3>2. from \notin Cloud!NonCounting  BY <2>1, <3>1 DEF Unlapsed
    <3>3. Cloud!Return(q)  BY <2>4, <3>1, <3>2
    <3>4. writes'[q].pc = "idle"  BY <3>3, <1>r
    <3>5. \A j \in Keys : rows[j] \notin Cloud!NonCounting => rows'[j] \notin Cloud!NonCounting
      BY <1>0, <2>1, <2>3, <3>1
    <3> QED  BY <2>5, <3>1, <3>4, <3>5 DEF Unlapsed, Lone
  <2> QED  BY <2>6, <2>7
<1>9. ASSUME NEW q \in Requests, Cloud!InsertFails(q) PROVE good
  <2>0. writes[q].key \in Keys /\ writes'[q].pc = "release" /\ Lone(q)
    BY <1>0, <1>9, <1>p DEF Cloud!InsertFails, Cloud!At, Cloud!Places, Kept, KeptOK
  <2>1. CASE UNCHANGED rows  BY <1>9, <1>a, <2>0, <2>1 DEF Cloud!InsertFails
  <2>2. CASE rows[writes[q].key] = None /\ rows' = [rows EXCEPT ![writes[q].key] = "pending"]
    <3>1. \A k \in Keys : /\ rows[k] # None => rows'[k] # None
                          /\ rows[k] \notin Cloud!NonCounting => rows'[k] \notin Cloud!NonCounting
      BY <1>0, <2>0, <2>2 DEF Cloud!Status, Cloud!NonCounting
    <3> QED  BY <1>9, <2>0, <3>1 DEF Informed, Unlapsed, Lone, Cloud!InsertFails
  <2> HIDE DEF good
  <2> QED  BY <1>9, <2>1, <2>2 DEF Cloud!InsertFails
<1>10. ASSUME NEW q \in Requests, Cloud!Crash(q) PROVE good
  BY <1>10, <1>a, <1>r DEF Cloud!Crash
<1>11. CASE Cloud!NextMonth
  <2>1. ASSUME NEW q \in Requests, writes[q].month <= month PROVE writes[q].month <= month + 1
    <3>1. writes[q].month \in 1 .. Months  BY <1>0 DEF Kept
    <3> QED  BY <1>0, <2>1, <3>1
  <2> QED  BY <1>11, <2>1 DEF Cloud!NextMonth, Informed, Unlapsed
<1>12. CASE UNCHANGED Cloud!vars  BY <1>12 DEF Cloud!vars, Informed, Unlapsed
<1> HIDE DEF good
<1> QED
  BY <1>1, <1>2, <1>3, <1>4, <1>5, <1>6, <1>7, <1>8, <1>9, <1>10, <1>11, <1>12 DEF Cloud!Next,
     good


LEMMA Returns ==
  ASSUME Cloud!CloudAssumption, Cloud!TypeOK, NEW q \in Requests, Cloud!Return(q)
  PROVE  writes'[q].pc = "idle" /\ Lone(q)
BY QuotaParts, Becomes DEF Cloud!Return, Cloud!Idle

LEMMA Goes ==
  ASSUME Cloud!CloudAssumption, Cloud!TypeOK, NEW q \in Requests, NEW place \in Cloud!Places,
         Cloud!Goto(q, place)
  PROVE  writes'[q].pc = place /\ writes'[q].month = writes[q].month /\ Lone(q)
<1> DEFINE l == [writes[q] EXCEPT !.pc = place]
<1>1. l \in Kept /\ l.pc = place /\ l.month = writes[q].month  BY QuotaParts DEF Kept
<1> HIDE DEF l
<1>2. writes'[q] = l /\ Lone(q)  BY <1>1, Becomes DEF Cloud!Goto, l
<1> QED  BY <1>1, <1>2

(* Where a step leaves the request that takes it.                          *)
LEMMA Reserves ==
  ASSUME Cloud!CloudAssumption, Cloud!TypeOK, NEW q \in Requests, Cloud!Reserve(q)
  PROVE  /\ Lone(q)
         /\ \/ Cloud!Over(month) /\ writes'[q].pc = "rollback" /\ writes'[q].month = month
            \/ ~Cloud!Over(month) /\ writes[q].target = None /\ writes'[q].pc = "insert"
            \/ ~Cloud!Over(month) /\ writes[q].target # None /\ writes'[q].pc = "idle"
<1>1. ASSUME NEW place \in {"rollback", "insert"},
             Cloud!Become(q, [writes[q] EXCEPT !.pc = place, !.month = month])
      PROVE  Lone(q) /\ writes'[q].pc = place /\ writes'[q].month = month
  <2> DEFINE l == [writes[q] EXCEPT !.pc = place, !.month = month]
  <2>1. l \in Kept /\ l.pc = place /\ l.month = month
    BY QuotaParts DEF Kept, Cloud!Places
  <2> HIDE DEF l
  <2>2. writes'[q] = l /\ Lone(q)  BY <1>1, <2>1, Becomes DEF l
  <2> QED  BY <2>1, <2>2
<1> QED  BY <1>1, Returns DEF Cloud!Reserve

LEMMA OtherSteps ==
  ASSUME Cloud!CloudAssumption, Cloud!TypeOK, NEW q \in Requests,
         \/ \E k \in Keys : Cloud!Post(q, k) \/ \E to \in Targets : Cloud!Mark(q, k, to)
         \/ Cloud!Read(q)
  PROVE  Lone(q) /\ writes'[q].pc \in {"reserve", "read", "apply", "idle"}
<1> USE QuotaParts DEF Kept, Cloud!Places
<1>1. ASSUME NEW k \in Keys, Cloud!Post(q, k)
      PROVE  Lone(q) /\ writes'[q].pc = "reserve"
  <2> DEFINE l == [Cloud!Idle EXCEPT !.pc = "reserve", !.key = k]
  <2>1. l \in Kept /\ l.pc = "reserve"  BY DEF Cloud!Idle
  <2> HIDE DEF l
  <2> QED  BY <1>1, <2>1, Becomes DEF Cloud!Post, l
<1>2. ASSUME NEW k \in Keys, NEW to \in Targets, Cloud!Mark(q, k, to)
      PROVE  Lone(q) /\ writes'[q].pc = "read"
  <2> DEFINE l == [Cloud!Idle EXCEPT !.pc = "read", !.key = k, !.target = to]
  <2>1. l \in Kept /\ l.pc = "read"  BY DEF Cloud!Idle
  <2> HIDE DEF l
  <2> QED  BY <1>2, <2>1, Becomes DEF Cloud!Mark, l
<1>3. ASSUME Cloud!Read(q) PROVE Lone(q) /\ writes'[q].pc \in {"apply", "idle"}
  <2> DEFINE k == writes[q].key
             l == [writes[q] EXCEPT !.pc = "apply", !.from = rows[k]]
  <2>1. CASE rows[k] # None /\ Cloud!Permitted(rows[k], writes[q].target)
    <3>1. k \in Keys  BY <1>3 DEF Cloud!Read, Cloud!At, KeptOK
    <3>2. rows[k] \in Cloud!Status  BY <2>1, <3>1
    <3>3. l \in Kept /\ l.pc = "apply"  BY <3>2
    <3> HIDE DEF l
    <3>4. Cloud!Become(q, l)  BY <1>3, <2>1 DEF l, Cloud!Read
    <3> QED  BY <3>3, <3>4, Becomes
  <2>2. CASE ~(rows[k] # None /\ Cloud!Permitted(rows[k], writes[q].target))
    BY <1>3, <2>2, Returns DEF Cloud!Read
  <2> QED  BY <2>1, <2>2
<1> QED  BY <1>1, <1>2, <1>3

LEMMA NextBounded ==
  ASSUME Cloud!CloudAssumption, Cloud!TypeOK, Cloud!TypeOK',
         [Cloud!Next]_(Cloud!vars), Cloud!UsageBounded
  PROVE  Cloud!UsageBounded'
<1>0. /\ usage \in [1 .. Months -> Int] /\ month \in 1 .. Months
      /\ writes \in [Requests -> Kept] /\ Limit \in Nat
      /\ deaths \in Nat /\ overage' = overage
  <2>1. overage' = overage
    BY ZenonT(30) DEF Cloud!Next, Cloud!vars, Cloud!Post, Cloud!Mark, Cloud!Reserve, Cloud!Rollback,
           Cloud!Insert, Cloud!Release, Cloud!Read, Cloud!Apply, Cloud!InsertFails,
           Cloud!Crash, Cloud!NextMonth
  <2> QED  BY SMTT(30), <2>1, QuotaParts DEF Cloud!CloudAssumption
<1>1. /\ usage' \in [1 .. Months -> Int] /\ deaths' \in Nat
  BY DEF Cloud!TypeOK, Cloud!CloudAssumption
<1> DEFINE r(m) == Cardinality(Cloud!InMonth(m, "rollback"))
           r2(m) == Cardinality(Cloud!InMonth(m, "rollback")')
<1>r. ASSUME NEW q \in Requests, Lone(q), NEW m
      PROVE  LET in == writes[q].pc = "rollback" /\ writes[q].month = m
                 in2 == writes'[q].pc = "rollback" /\ writes'[q].month = m
             IN  /\ r(m) \in Nat /\ r2(m) \in Nat
                 /\ (in <=> in2) => r2(m) = r(m)
                 /\ ~in /\ in2 => r2(m) = r(m) + 1
                 /\ in /\ ~in2 => r2(m) = r(m) - 1
  <2> DEFINE S == Cloud!InMonth(m, "rollback")
             T == Cloud!InMonth(m, "rollback")'
  <2>1. /\ q \in S <=> writes[q].pc = "rollback" /\ writes[q].month = m
        /\ q \in T <=> writes'[q].pc = "rollback" /\ writes'[q].month = m
    BY DEF Cloud!InMonth, Cloud!At
  <2>2. /\ Cardinality(S) \in Nat /\ Cardinality(T) \in Nat
        /\ (q \in S <=> q \in T) => Cardinality(T) = Cardinality(S)
        /\ q \notin S /\ q \in T => Cardinality(T) = Cardinality(S) + 1
        /\ q \in S /\ q \notin T => Cardinality(T) = Cardinality(S) - 1
    BY <1>r, RollbacksMove
  <2> HIDE DEF S, T
  <2>3. r(m) = Cardinality(S) /\ r2(m) = Cardinality(T)  BY DEF S, T
  <2> HIDE DEF r, r2
  <2> QED  BY <2>1, <2>2, <2>3
<1>u. \A m \in 1 .. Months : overage \/ usage[m] <= Limit + r(m) + deaths
  BY SameSizes DEF Cloud!UsageBounded
<1>g. ASSUME \A m \in 1 .. Months : overage \/ usage'[m] <= Limit + r2(m) + deaths'
      PROVE  Cloud!UsageBounded'
  BY <1>0, <1>g, SameSizes DEF Cloud!UsageBounded
<1> HIDE DEF r, r2
(* Most steps take nothing from the counter's side.                        *)
<1>k. ASSUME NEW q \in Requests, Lone(q), \A m \in 1 .. Months : usage'[m] <= usage[m],
             \/ deaths' = deaths /\ writes[q].pc # "rollback"
             \/ deaths' = deaths + 1
      PROVE  Cloud!UsageBounded'
  <2> SUFFICES ASSUME NEW m \in 1 .. Months, ~overage
               PROVE  usage'[m] <= Limit + r2(m) + deaths'
    BY <1>g
  <2> DEFINE v == usage[m]
             v2 == usage'[m]
             a == r(m)
             b == r2(m)
             c == deaths
             c2 == deaths'
  <2>1. v \in Int /\ v2 \in Int /\ a \in Nat /\ b \in Nat /\ c \in Nat /\ c2 \in Nat
    BY <1>0, <1>1, <1>r, <1>k
  <2>2. v <= Limit + a + c /\ v2 <= v  BY <1>u, <1>k
  <2>3. \/ c2 = c /\ b >= a
        \/ c2 = c + 1 /\ b >= a - 1
    <3>1. b >= a - 1 /\ (writes[q].pc # "rollback" => b >= a)
      <4>1. b = a \/ b = a + 1 \/ (writes[q].pc = "rollback" /\ b = a - 1)
        BY <1>r, <1>k
      <4> HIDE DEF a, b
      <4> QED  BY <2>1, <4>1
    <3> QED  BY <1>k, <3>1
  <2> HIDE DEF v, v2, a, b, c, c2
  <2>4. v2 <= Limit + b + c2  BY <1>0, <2>1, <2>2, <2>3
  <2> QED  BY <2>4 DEF v2, b, c2
<1>2. ASSUME NEW q \in Requests,
             \/ \E k \in Keys : Cloud!Post(q, k) \/ \E to \in Targets : Cloud!Mark(q, k, to)
             \/ Cloud!Read(q)
      PROVE  Cloud!UsageBounded'
  <2>1. Lone(q)  BY <1>2, OtherSteps
  <2>2. usage' = usage /\ deaths' = deaths /\ writes[q].pc \in {"idle", "read"}
    BY <1>2 DEF Cloud!Post, Cloud!Mark, Cloud!Read, Cloud!At
  <2> QED  BY <1>0, <1>k, <2>1, <2>2
<1>3. ASSUME NEW q \in Requests, Cloud!Reserve(q) PROVE Cloud!UsageBounded'
  <2> SUFFICES ASSUME NEW m \in 1 .. Months, ~overage
               PROVE  usage'[m] <= Limit + r2(m) + deaths'
    BY <1>g
  <2> DEFINE v == usage[m]
             v2 == usage'[m]
             a == r(m)
             b == r2(m)
             c == deaths
  <2>0. Lone(q) /\ writes[q].pc = "reserve" /\ deaths' = deaths
    BY ZenonT(30), <1>3, Reserves DEF Cloud!Reserve, Cloud!At
  <2>1. v \in Int /\ v2 \in Int /\ a \in Nat /\ b \in Nat /\ c \in Nat
    BY <1>0, <1>1, <1>r, <2>0
  <2>2. v <= Limit + a + c  BY <1>u
  <2>3. v2 = IF m = month THEN v + 1 ELSE v
    BY <1>0, <1>3 DEF Cloud!Reserve, Cloud!Increment
  <2>4. b >= a
    <3>1. b = a \/ b = a + 1  BY <1>r, <2>0
    <3> HIDE DEF a, b
    <3> QED  BY <2>1, <3>1
  <2>5. CASE m # month
    <3> HIDE DEF v, v2, a, b, c
    <3>1. v2 <= Limit + b + c  BY <1>0, <2>1, <2>2, <2>3, <2>4, <2>5
    <3> QED  BY <2>0, <3>1 DEF v2, b, c
  <2>6. CASE m = month /\ Cloud!Over(month)
    <3>1. writes'[q].pc = "rollback" /\ writes'[q].month = month
      BY <1>3, <2>6, Reserves
    <3>2. b = a + 1  BY <1>r, <2>0, <2>6, <3>1
    <3> HIDE DEF v, v2, a, b, c
    <3>3. v2 <= Limit + b + c  BY <1>0, <2>1, <2>2, <2>3, <2>6, <3>2
    <3> QED  BY <2>0, <3>3 DEF v2, b, c
  <2>7. CASE m = month /\ ~Cloud!Over(month)
    <3>1. v + 1 <= Limit  BY <1>0, <2>1, <2>7 DEF Cloud!Over
    <3> HIDE DEF v, v2, a, b, c
    <3>2. v2 <= Limit + b + c  BY <1>0, <2>1, <2>3, <2>7, <3>1
    <3> QED  BY <2>0, <3>2 DEF v2, b, c
  <2> QED  BY SMTT(30), <2>5, <2>6, <2>7
<1>4. ASSUME NEW q \in Requests, Cloud!Rollback(q) PROVE Cloud!UsageBounded'
  <2> SUFFICES ASSUME NEW m \in 1 .. Months, ~overage
               PROVE  usage'[m] <= Limit + r2(m) + deaths'
    BY <1>g
  <2> DEFINE v == usage[m]
             v2 == usage'[m]
             a == r(m)
             b == r2(m)
             c == deaths
  <2>0. /\ Lone(q) /\ writes[q].pc = "rollback" /\ writes'[q].pc = "idle"
        /\ deaths' = deaths /\ writes[q].month \in 1 .. Months
    BY <1>0, <1>4, Returns DEF Cloud!Rollback, Cloud!At, Kept
  <2>1. v \in Int /\ v2 \in Int /\ a \in Nat /\ b \in Nat /\ c \in Nat
    BY <1>0, <1>1, <1>r, <2>0
  <2>2. v <= Limit + a + c  BY <1>u
  <2>3. v2 = IF m = writes[q].month THEN v - 1 ELSE v
    BY <1>0, <1>4, <2>0 DEF Cloud!Rollback, Cloud!Increment
  <2>4. b = IF m = writes[q].month THEN a - 1 ELSE a
    BY <1>r, <2>0
  <2> HIDE DEF v, v2, a, b, c
  <2>5. v2 <= Limit + b + c  BY <1>0, <2>1, <2>2, <2>3, <2>4
  <2> QED  BY <2>0, <2>5 DEF v2, b, c
<1>5. ASSUME NEW q \in Requests, Cloud!Insert(q) PROVE Cloud!UsageBounded'
  <2>1. Lone(q)  BY <1>5, Returns, Goes DEF Cloud!Insert, Cloud!Places
  <2> QED  BY <1>0, <1>5, <1>k, <2>1 DEF Cloud!Insert, Cloud!At
<1>6. ASSUME NEW q \in Requests, Cloud!Release(q) PROVE Cloud!UsageBounded'
  <2>1. Lone(q)  BY <1>6, Returns DEF Cloud!Release
  <2>2. \A m \in 1 .. Months : usage'[m] <= usage[m]
    BY <1>0, <1>6 DEF Cloud!Release, Cloud!Increment
  <2> QED  BY <1>6, <1>k, <2>1, <2>2 DEF Cloud!Release, Cloud!At
<1>7. ASSUME NEW q \in Requests, Cloud!Apply(q) PROVE Cloud!UsageBounded'
  <2>1. Lone(q)  BY <1>7, Returns, Goes DEF Cloud!Apply, Cloud!Places
  <2> QED  BY <1>0, <1>7, <1>k, <2>1 DEF Cloud!Apply, Cloud!At
<1>8. ASSUME NEW q \in Requests, Cloud!InsertFails(q) PROVE Cloud!UsageBounded'
  <2>1. Lone(q)  BY <1>8, Goes DEF Cloud!InsertFails, Cloud!Places
  <2> QED  BY <1>0, <1>8, <1>k, <2>1 DEF Cloud!InsertFails
<1>9. ASSUME NEW q \in Requests, Cloud!Crash(q) PROVE Cloud!UsageBounded'
  <2>1. Lone(q)  BY <1>9, Returns DEF Cloud!Crash
  <2> QED  BY <1>0, <1>9, <1>k, <2>1 DEF Cloud!Crash
<1>10. CASE Cloud!NextMonth \/ UNCHANGED Cloud!vars
  BY <1>10 DEF Cloud!NextMonth, Cloud!vars, Cloud!UsageBounded, Cloud!InMonth, Cloud!At
<1> QED  BY <1>2, <1>3, <1>4, <1>5, <1>6, <1>7, <1>8, <1>9, <1>10 DEF Cloud!Next



(* An action without a slot stays there, and only a failed query adds one. *)
LEMMA NextExcepted ==
  ASSUME Cloud!CloudAssumption, Cloud!TypeOK, [Cloud!Next]_(Cloud!vars), Informed, Excepted
  PROVE  Excepted'
<1>0. /\ rows \in [Keys -> Cloud!Status \cup {None}] /\ None \notin Cloud!Status
      /\ deaths \in Nat /\ slotless \subseteq Keys
      /\ \A q \in Requests : writes[q] \in Kept /\ KeptOK(writes[q])
  BY QuotaParts DEF Cloud!CloudAssumption
<1>f. IsFiniteSet(slotless)
  BY <1>0, FS_Subset, SameSizes DEF Cloud!CloudAssumption
<1>c. Cardinality(slotless) \in Nat  BY <1>f, FS_CardinalityType
<1>k. ASSUME slotless' = slotless, deaths' \in {deaths, deaths + 1},
             \A k \in Keys : rows[k] # None => rows'[k] # None
      PROVE  Excepted'
  <2>1. Cardinality(slotless)' = Cardinality(slotless)  BY <1>k
  <2>2. Cardinality(slotless)' <= deaths'  BY <1>0, <1>c, <1>k, <2>1 DEF Excepted
  <2> QED  BY <1>0, <1>k, <2>2 DEF Excepted
<1>1. ASSUME NEW q \in Requests, Cloud!Insert(q) PROVE Excepted'
  <2>1. \A k \in Keys : rows[k] # None => rows'[k] # None
    BY <1>0, <1>1 DEF Cloud!Insert, Cloud!Status
  <2> QED  BY <1>1, <1>k, <2>1 DEF Cloud!Insert
<1>2. ASSUME NEW q \in Requests, Cloud!Apply(q) PROVE Excepted'
  <2>1. writes[q].target \in Cloud!Status  BY <1>2 DEF Informed, Cloud!Apply, Cloud!At
  <2>2. \A k \in Keys : rows[k] # None => rows'[k] # None
    BY <1>0, <1>2, <2>1 DEF Cloud!Apply
  <2> QED  BY <1>2, <1>k, <2>2 DEF Cloud!Apply
<1>3. ASSUME NEW q \in Requests, Cloud!InsertFails(q) PROVE Excepted'
  <2> DEFINE k == writes[q].key
  <2>0. k \in Keys /\ deaths' = deaths + 1
    BY <1>0, <1>3 DEF Cloud!InsertFails, Cloud!At, Kept, KeptOK
  <2>1. CASE UNCHANGED <<rows, slotless>>  BY <1>k, <2>0, <2>1
  <2>2. CASE /\ rows[k] = None /\ rows' = [rows EXCEPT ![k] = "pending"]
             /\ slotless' = slotless \cup {k}
    <3>1. \A j \in slotless' : rows'[j] # None
      BY <1>0, <2>0, <2>2 DEF Excepted, Cloud!Status
    <3>2. k \notin slotless  BY <2>2 DEF Excepted
    <3>3. Cardinality(slotless \cup {k}) = Cardinality(slotless) + 1
      BY <1>f, <3>2, FS_AddElement
    <3>4. Cardinality(slotless)' = Cardinality(slotless) + 1  BY <2>2, <3>3
    <3>5. Cardinality(slotless)' <= deaths'  BY <1>0, <1>c, <2>0, <3>4 DEF Excepted
    <3> QED  BY <3>1, <3>5 DEF Excepted
  <2> QED  BY <1>3, <2>1, <2>2 DEF Cloud!InsertFails
<1>4. CASE UNCHANGED <<rows, slotless>> /\ deaths' \in {deaths, deaths + 1}  BY <1>4, <1>k
<1> QED
  BY <1>1, <1>2, <1>3, <1>4 DEF Cloud!Next, Cloud!vars, Cloud!Post, Cloud!Mark, Cloud!Reserve,
     Cloud!Rollback, Cloud!Release, Cloud!Read, Cloud!Crash, Cloud!NextMonth

(* A step of a request takes no action's slot, and gives one only to the   *)
(* action it inserts.                                                      *)
LEMMA NextBalanced ==
  ASSUME Cloud!CloudAssumption, Cloud!TypeOK, Cloud!TypeOK',
         [Cloud!Next]_(Cloud!vars), QuotaInv, Cloud!Steady'
  PROVE  /\ Cardinality(Cloud!Holding)' + Cardinality(Slots)' <= usage'[1]
         /\ ~overage' => Cardinality(Cloud!Holding)' + Cardinality(Inserting)' <= Limit
         /\ deaths' = 0 => usage'[1] = Cardinality(Cloud!Holding)' + Cardinality(Slots)'
<1> DEFINE n == Cardinality(Cloud!Holding)
           s == Cardinality(Slots)
           i == Cardinality(Inserting)
           u == usage[1]
           n2 == Cardinality(Cloud!Holding)'
           s2 == Cardinality(Slots)'
           i2 == Cardinality(Inserting)'
           u2 == usage'[1]
           c2 == deaths'
           good == /\ n2 + s2 <= u2
                   /\ ~overage' => n2 + i2 <= Limit
                   /\ c2 = 0 => u2 = n2 + s2
<1>0. /\ rows \in [Keys -> Cloud!Status \cup {None}]
      /\ usage \in [1 .. Months -> Int] /\ month \in 1 .. Months /\ 1 \in 1 .. Months
      /\ writes \in [Requests -> Kept] /\ Limit \in Nat
      /\ deaths \in Nat /\ None \notin Cloud!Status /\ None \notin Keys
      /\ slotless \subseteq Keys /\ \A k \in slotless : rows[k] # None
      /\ \A q \in Requests : writes[q] \in Kept /\ KeptOK(writes[q])
  BY SMTT(30), QuotaParts DEF Cloud!CloudAssumption, QuotaInv, Excepted
<1>1. usage' \in [1 .. Months -> Int] /\ deaths' \in Nat
  BY DEF Cloud!TypeOK, Cloud!CloudAssumption
<1>o. overage' = overage /\ month' \in {month, month + 1} /\ lapsed \subseteq lapsed'
  BY ZenonT(30) DEF Cloud!Next, Cloud!vars, Cloud!Post, Cloud!Mark, Cloud!Reserve, Cloud!Rollback,
         Cloud!Insert, Cloud!Release, Cloud!Read, Cloud!Apply, Cloud!InsertFails,
         Cloud!Crash, Cloud!NextMonth
<1>s. month = 1 /\ month' = 1 /\ lapsed = {} /\ lapsed' = {}  BY <1>0, <1>o DEF Cloud!Steady
<1>q. Informed /\ Unlapsed  BY <1>s DEF QuotaInv
<1>b. /\ n + s <= u
      /\ ~overage => n + i <= Limit
      /\ deaths = 0 => u = n + s
  BY <1>s DEF QuotaInv, Cloud!Steady
<1>t. n \in Nat /\ s \in Nat /\ i \in Nat /\ u \in Int /\ u2 \in Int /\ c2 \in Nat /\ i <= s
  BY <1>0, <1>1, QuotaFinite
<1>c. Cloud!Holding' = Cloud!Holding => n2 = n  OBVIOUS
(* What a request moves.                                                   *)
<1>m. ASSUME NEW q \in Requests, Lone(q)
      PROVE  /\ s2 \in Nat /\ i2 \in Nat
             /\ LET in == writes[q].pc \in {"rollback", "insert", "release"}
                    in2 == writes'[q].pc \in {"rollback", "insert", "release"}
                IN  /\ (in <=> in2) => s2 = s
                    /\ ~in /\ in2 => s2 = s + 1
                    /\ in /\ ~in2 => s2 = s - 1
             /\ LET in == writes[q].pc \in {"insert", "release"}
                    in2 == writes'[q].pc \in {"insert", "release"}
                IN  /\ (in <=> in2) => i2 = i
                    /\ ~in /\ in2 => i2 = i + 1
                    /\ in /\ ~in2 => i2 = i - 1
  <2>1. /\ q \in Slots <=> writes[q].pc \in {"rollback", "insert", "release"}
        /\ q \in Slots' <=> writes'[q].pc \in {"rollback", "insert", "release"}
        /\ q \in Inserting <=> writes[q].pc \in {"insert", "release"}
        /\ q \in Inserting' <=> writes'[q].pc \in {"insert", "release"}
    BY DEF Slots, Inserting
  <2>2. /\ s2 \in Nat
        /\ (q \in Slots <=> q \in Slots') => s2 = s
        /\ q \notin Slots /\ q \in Slots' => s2 = s + 1
        /\ q \in Slots /\ q \notin Slots' => s2 = s - 1
    BY <1>m, SlotsMove
  <2>3. /\ i2 \in Nat
        /\ (q \in Inserting <=> q \in Inserting') => i2 = i
        /\ q \notin Inserting /\ q \in Inserting' => i2 = i + 1
        /\ q \in Inserting /\ q \notin Inserting' => i2 = i - 1
    BY <1>m, InsertingMove
  <2> HIDE DEF s, s2, i, i2
  <2> QED  BY <2>1, <2>2, <2>3
<1> HIDE DEF n, s, i, u, n2, s2, i2, u2, c2
(* A step that touches neither the counter nor the rows.                   *)
<1>k. ASSUME NEW q \in Requests, Lone(q), UNCHANGED <<rows, slotless, usage, deaths>>,
             writes[q].pc \notin {"rollback", "insert", "release"},
             writes'[q].pc \notin {"rollback", "insert", "release"}
      PROVE  good
  <2>1. s2 = s /\ i2 = i  BY <1>k, <1>m
  <2>2. n2 = n  BY <1>c, <1>k DEF Cloud!Holding, Cloud!Counting
  <2>3. u2 = u  BY <1>k DEF u, u2
  <2> QED  BY <1>b, <1>k, <1>o, <2>1, <2>2, <2>3 DEF c2
<1>2. ASSUME NEW q \in Requests,
             \/ \E k \in Keys : Cloud!Post(q, k) \/ \E to \in Targets : Cloud!Mark(q, k, to)
             \/ Cloud!Read(q)
      PROVE  good
  <2>1. Lone(q) /\ writes'[q].pc \notin {"rollback", "insert", "release"}
    BY <1>2, OtherSteps
  <2>2. /\ UNCHANGED <<rows, slotless, usage, deaths>>
        /\ writes[q].pc \in {"idle", "read"}
    BY <1>2 DEF Cloud!Post, Cloud!Mark, Cloud!Read, Cloud!At
  <2> HIDE DEF good
  <2> QED  BY <1>k, <2>1, <2>2
<1>3. ASSUME NEW q \in Requests, Cloud!Reserve(q) PROVE good
  <2>0. /\ Lone(q) /\ writes[q].pc = "reserve" /\ UNCHANGED <<rows, slotless, deaths>>
        /\ writes[q].target = None
    BY ZenonT(30), <1>3, <1>q, Reserves DEF Cloud!Reserve, Cloud!At, Unlapsed
  <2>1. u2 = u + 1  BY <1>0, <1>3, <1>s DEF Cloud!Reserve, Cloud!Increment, u, u2
  <2>2. n2 = n /\ c2 = deaths  BY <1>c, <2>0 DEF Cloud!Holding, Cloud!Counting, c2
  <2>m. s2 \in Nat /\ i2 \in Nat  BY <1>m, <2>0
  <2>3. CASE writes'[q].pc = "rollback"
    <3>1. s2 = s + 1 /\ i2 = i  BY <1>m, <2>0, <2>3
    <3> QED  BY <1>b, <1>t, <1>o, <2>1, <2>2, <2>m, <3>1
  <2>4. CASE writes'[q].pc = "insert"
    <3>1. s2 = s + 1 /\ i2 = i + 1  BY <1>m, <2>0, <2>4
    <3>2. ~overage => u + 1 <= Limit
      <4>1. ~Cloud!Over(1)  BY <1>3, <1>s, <2>4, Reserves
      <4> QED  BY <1>0, <1>t, <4>1 DEF Cloud!Over, u
    <3> QED  BY <1>0, <1>b, <1>t, <1>o, <2>1, <2>2, <2>m, <3>1, <3>2
  <2> QED  BY SMTT(30), <1>3, <2>0, <2>3, <2>4, Reserves
<1>4. ASSUME NEW q \in Requests, Cloud!Rollback(q) PROVE good
  <2>0. /\ Lone(q) /\ writes[q].pc = "rollback" /\ writes'[q].pc = "idle"
        /\ UNCHANGED <<rows, slotless, deaths>>
    BY <1>4, Returns DEF Cloud!Rollback, Cloud!At
  <2>1. writes[q].month = 1
    <3>1. writes[q].month \in 1 .. Months /\ writes[q].month <= 1
      BY <1>0, <1>s, <1>q, <2>0 DEF Informed, Kept
    <3> QED  BY <1>0, <3>1
  <2>2. u2 = u - 1  BY <1>0, <1>4, <2>1 DEF Cloud!Rollback, Cloud!Increment, u, u2
  <2>3. n2 = n /\ c2 = deaths  BY <1>c, <2>0 DEF Cloud!Holding, Cloud!Counting, c2
  <2>4. s2 \in Nat /\ i2 \in Nat /\ s2 = s - 1 /\ i2 = i  BY <1>m, <2>0
  <2> QED  BY <1>b, <1>t, <1>o, <2>2, <2>3, <2>4
<1>5. ASSUME NEW q \in Requests, Cloud!Insert(q) PROVE good
  <2> DEFINE k == writes[q].key
  <2>0. writes[q].pc = "insert" /\ k \in Keys /\ UNCHANGED <<usage, deaths, slotless>>
    BY <1>0, <1>5 DEF Cloud!Insert, Cloud!At, Kept, KeptOK
  <2>1. u2 = u /\ c2 = deaths  BY <2>0 DEF u, u2, c2
  <2>2. CASE rows[k] = None
    <3>1. rows' = [rows EXCEPT ![k] = "pending"] /\ Cloud!Return(q)
      BY <1>5, <2>2 DEF Cloud!Insert
    <3>2. Lone(q) /\ writes'[q].pc = "idle"  BY <3>1, Returns
    <3>3. s2 \in Nat /\ i2 \in Nat /\ s2 = s - 1 /\ i2 = i - 1  BY <1>m, <2>0, <3>2
    <3>4. n2 \in Nat /\ n2 = n + 1
      <4>1. k \notin Cloud!Holding  BY <2>2 DEF Cloud!Holding, Cloud!Counting
      <4>2. k \in Cloud!Holding'
        <5>1. k \notin slotless  BY <1>0, <2>2
        <5> QED
          BY <1>0, <2>0, <3>1, <5>1 DEF Cloud!Holding, Cloud!Counting, Cloud!NonCounting, Cloud!Status
      <4>3. Cloud!Holding \ {k} = Cloud!Holding' \ {k}
        BY <1>0, <2>0, <3>1 DEF Cloud!Holding, Cloud!Counting
      <4> QED  BY <4>1, <4>2, <4>3, QuotaFinite, Moves DEF n, n2
    <3> QED  BY <1>b, <1>t, <1>o, <2>1, <3>3, <3>4
  <2>3. CASE rows[k] # None
    <3>1. rows' = rows /\ Cloud!Goto(q, "release")  BY <1>5, <2>3 DEF Cloud!Insert
    <3>2. Lone(q) /\ writes'[q].pc = "release"  BY <3>1, Goes DEF Cloud!Places
    <3>3. s2 = s /\ i2 = i  BY <1>m, <2>0, <3>2
    <3>4. n2 = n  BY <1>c, <2>0, <3>1 DEF Cloud!Holding, Cloud!Counting
    <3> QED  BY <1>b, <1>t, <1>o, <2>1, <3>3, <3>4
  <2> QED  BY <2>2, <2>3
<1>6. ASSUME NEW q \in Requests, Cloud!Release(q) PROVE good
  <2>0. /\ Lone(q) /\ writes[q].pc = "release" /\ writes'[q].pc = "idle"
        /\ UNCHANGED <<rows, slotless, deaths>>
    BY <1>6, Returns DEF Cloud!Release, Cloud!At
  <2>2. u2 = u - 1  BY <1>0, <1>6, <1>s DEF Cloud!Release, Cloud!Increment, u, u2
  <2>3. n2 = n /\ c2 = deaths  BY <1>c, <2>0 DEF Cloud!Holding, Cloud!Counting, c2
  <2>4. s2 \in Nat /\ i2 \in Nat /\ s2 = s - 1 /\ i2 = i - 1  BY <1>m, <2>0
  <2> QED  BY <1>0, <1>b, <1>t, <1>o, <2>2, <2>3, <2>4
<1>7. ASSUME NEW q \in Requests, Cloud!Apply(q) PROVE good
  <2> DEFINE k == writes[q].key
             to == writes[q].target
             from == writes[q].from
  <2>0. writes[q].pc = "apply" /\ k \in Keys /\ rows[k] # None /\ to \in Cloud!Status
    BY <1>0, <1>7, <1>q DEF Cloud!Apply, Cloud!At, Informed
  <2>1. from \notin Cloud!NonCounting /\ rows[k] \notin Cloud!NonCounting
    BY <1>q, <2>0 DEF Unlapsed
  <2>2. to \notin Cloud!NonCounting  BY <1>7, <1>s DEF Cloud!Apply
  <2>3. /\ Cloud!Return(q) /\ rows' = [rows EXCEPT ![k] = to]
        /\ UNCHANGED <<usage, deaths, slotless>>
    BY <1>7, <2>1, <2>2 DEF Cloud!Apply
  <2>4. Lone(q) /\ writes'[q].pc = "idle"  BY <2>3, Returns
  <2>5. s2 = s /\ i2 = i  BY <1>m, <2>0, <2>4
  <2>6. Cloud!Holding' = Cloud!Holding
    <3>1. k \in Cloud!Counting /\ k \in Cloud!Counting'
      BY <1>0, <2>0, <2>1, <2>2, <2>3 DEF Cloud!Counting
    <3>2. Cloud!Counting' \ {k} = Cloud!Counting \ {k}  BY <1>0, <2>0, <2>3 DEF Cloud!Counting
    <3>3. Cloud!Counting' = Cloud!Counting  BY <3>1, <3>2
    <3> QED  BY <2>3, <3>3 DEF Cloud!Holding
  <2>7. n2 = n /\ u2 = u /\ c2 = deaths  BY <1>c, <2>3, <2>6 DEF u, u2, c2
  <2> QED  BY <1>b, <1>o, <2>5, <2>7
<1>8. ASSUME NEW q \in Requests, Cloud!InsertFails(q) PROVE good
  <2> DEFINE k == writes[q].key
  <2>0. /\ Lone(q) /\ writes[q].pc = "insert" /\ writes'[q].pc = "release"
        /\ usage' = usage /\ deaths' = deaths + 1 /\ k \in Keys
    BY <1>0, <1>8, Goes DEF Cloud!InsertFails, Cloud!At, Cloud!Places, Kept, KeptOK
  <2>1. s2 = s /\ i2 = i  BY <1>m, <2>0
  <2>2. Cloud!Holding' = Cloud!Holding
    <3>1. CASE UNCHANGED <<rows, slotless>>  BY <3>1 DEF Cloud!Holding, Cloud!Counting
    <3>2. CASE /\ rows[k] = None /\ rows' = [rows EXCEPT ![k] = "pending"]
               /\ slotless' = slotless \cup {k}
      BY <1>0, <2>0, <3>2 DEF Cloud!Holding, Cloud!Counting
    <3> QED  BY <1>8, <3>1, <3>2 DEF Cloud!InsertFails
  <2>3. n2 = n /\ u2 = u  BY <1>c, <2>0, <2>2 DEF u, u2
  <2>4. c2 # 0  BY <1>0, <2>0 DEF c2
  <2> QED  BY <1>b, <1>o, <2>1, <2>3, <2>4
<1>9. ASSUME NEW q \in Requests, Cloud!Crash(q) PROVE good
  <2>0. /\ Lone(q) /\ writes'[q].pc = "idle"
        /\ UNCHANGED <<rows, slotless, usage>> /\ deaths' = deaths + 1
    BY <1>9, Returns DEF Cloud!Crash
  <2>1. s2 \in Nat /\ i2 \in Nat /\ s2 <= s /\ i2 <= i
    <3>1. s2 \in Nat /\ i2 \in Nat /\ s2 \in {s, s - 1} /\ i2 \in {i, i - 1}  BY <1>m, <2>0
    <3> QED  BY <1>t, <3>1
  <2>2. n2 = n /\ u2 = u  BY <1>c, <2>0 DEF Cloud!Holding, Cloud!Counting, u, u2
  <2>3. c2 # 0  BY <1>0, <2>0 DEF c2
  <2> QED  BY <1>0, <1>b, <1>o, <1>t, <2>1, <2>2, <2>3
<1>10. ASSUME Cloud!NextMonth PROVE good
  BY <1>0, <1>10, <1>s DEF Cloud!NextMonth
<1>11. ASSUME UNCHANGED Cloud!vars PROVE good
  <2>1. n2 = n /\ s2 = s /\ i2 = i /\ u2 = u /\ c2 = deaths
    BY <1>11 DEF Cloud!vars, n, n2, s, s2, i, i2, u, u2, c2, Cloud!Holding, Cloud!Counting, Slots, Inserting
  <2> QED  BY <1>b, <1>o, <2>1
<1>g. good
  <2> HIDE DEF good
  <2> QED
    BY <1>2, <1>3, <1>4, <1>5, <1>6, <1>7, <1>8, <1>9, <1>10, <1>11 DEF Cloud!Next
<1> QED  BY <1>g DEF n2, s2, i2, u2, c2

LEMMA QuotaInit ==
  ASSUME Cloud!CloudAssumption, Cloud!Init
  PROVE  Cloud!TypeOK /\ QuotaInv
<1>1. Cloud!TypeOK
  BY DEF Cloud!Init, Cloud!CloudAssumption, Cloud!TypeOK, Cloud!Idle, Cloud!Places, Cloud!At
<1>2. \A q \in Requests : writes[q].pc = "idle"  BY DEF Cloud!Init, Cloud!Idle
<1>3. \A k \in Keys : rows[k] = None  BY DEF Cloud!Init
<1>4. None \notin Cloud!NonCounting
  BY DEF Cloud!CloudAssumption, Cloud!NonCounting, Cloud!Status
<1>5. Cloud!Holding = {} /\ Slots = {} /\ Inserting = {}
  BY <1>2, <1>3 DEF Cloud!Holding, Cloud!Counting, Slots, Inserting
<1>6. /\ Cardinality(Cloud!Holding) = 0 /\ Cardinality(Slots) = 0 /\ Cardinality(Inserting) = 0
      /\ \A m : Cardinality(Cloud!InMonth(m, "rollback")) \in Nat
  <2>1. \A m : Cloud!InMonth(m, "rollback") = {}  BY <1>2 DEF Cloud!InMonth, Cloud!At
  <2> QED  BY <1>5, <2>1, FS_EmptySet
<1>7. Limit \in Nat /\ Months \in Nat \ {0} /\ usage = [m \in 1 .. Months |-> 0] /\ deaths = 0
  BY DEF Cloud!Init, Cloud!CloudAssumption
<1>8. usage[1] = 0 /\ Cloud!UsageBounded  BY <1>6, <1>7, SameSizes DEF Cloud!UsageBounded
<1>9. Informed /\ Unlapsed /\ Excepted
  <2>1. slotless = {} /\ Cardinality({}) = 0  BY FS_EmptySet DEF Cloud!Init
  <2>2. Excepted  BY <1>7, <2>1 DEF Excepted
  <2> QED  BY <1>2, <1>3, <1>4, <2>2 DEF Informed, Unlapsed
<1> QED  BY <1>1, <1>6, <1>7, <1>8, <1>9 DEF QuotaInv

(* What the run checks follows.                                            *)
LEMMA QuotaGives ==
  ASSUME Cloud!CloudAssumption, Cloud!TypeOK, QuotaInv
  PROVE  UsageAccounted
<1> DEFINE n == Cardinality(Cloud!Holding)
           s == Cardinality(Slots)
           i == Cardinality(Inserting)
           u == usage[1]
<1>0. n \in Nat /\ s \in Nat /\ i \in Nat  BY QuotaFinite
<1>l. Limit \in Nat /\ u \in Int  BY QuotaParts DEF Cloud!CloudAssumption
<1>1. ASSUME Cloud!Steady
      PROVE  /\ n + s <= u /\ (~overage => n + i <= Limit) /\ (deaths = 0 => u = n + s)
  BY <1>1 DEF QuotaInv
<1>2. Cloud!UsageCovers  BY <1>1, SameSizes DEF Cloud!UsageCovers, Slots, QuotaInv, Excepted
<1>3. Cloud!NoOvershoot
  <2> SUFFICES ASSUME Cloud!Steady, ~overage PROVE n <= Limit
    BY SameSizes DEF Cloud!NoOvershoot
  <2>1. n + i <= Limit  BY <1>1
  <2> HIDE DEF n, i
  <2> QED  BY <1>0, <1>l, <2>1
<1>4. Cloud!UsageExact
  <2> SUFFICES ASSUME Cloud!Steady, deaths = 0, \A q \in Requests : Cloud!At(q, "idle")
               PROVE  u = Cardinality(Cloud!Counting)
    BY SameSizes DEF Cloud!UsageExact
  <2>e. n = Cardinality(Cloud!Counting)
    <3>1. slotless \subseteq Keys /\ IsFiniteSet(Keys)
      BY QuotaParts, SameSizes DEF Cloud!CloudAssumption
    <3>2. Cardinality(slotless) \in Nat /\ Cardinality(slotless) <= 0
      BY <3>1, FS_Subset, FS_CardinalityType DEF QuotaInv, Excepted
    <3>3. slotless = {}
      <4>1. IsFiniteSet(slotless)  BY <3>1, FS_Subset
      <4>2. Cardinality(slotless) = 0  BY <3>2
      <4> QED  BY <4>1, <4>2, FS_EmptySet
    <3> QED  BY <3>3 DEF Cloud!Holding
  <2>1. Slots = {}  BY DEF Slots, Cloud!At
  <2>2. s = 0  BY <2>1, FS_EmptySet
  <2>3. u = n + s  BY <1>1
  <2>4. u = n
    <3> HIDE DEF n, s, u
    <3> QED  BY <1>0, <1>l, <2>2, <2>3
  <2> QED  BY <2>e, <2>4
<1> QED  BY <1>2, <1>3, <1>4 DEF UsageAccounted, Cloud!UsageAccounted, QuotaInv

(* For any number of requests and actions, crashes and failed queries: the *)
(* counter is over the limit only by reservations in flight or lost; until *)
(* an action fails or a month ends, each that counts holds a slot, and they*)
(* stay within the limit, but for one without for each insert that took    *)
(* effect and answered with an error, whose slot goes back; and without    *)
(* failures a quiet counter is exact (service.ts:309-333).                 *)
THEOREM UsageAccountedHolds ==
  ASSUME Cloud!CloudAssumption
  PROVE  Cloud!Spec => []UsageAccounted
<1> DEFINE I == Cloud!TypeOK /\ QuotaInv
<1>1. Cloud!Init => I  BY QuotaInit
<1>2. I /\ [Cloud!Next]_(Cloud!vars) => I'
  <2> SUFFICES ASSUME I, [Cloud!Next]_(Cloud!vars) PROVE I'  OBVIOUS
  <2>1. Cloud!TypeOK'  BY NextTypeQuota
  <2>2. Informed' /\ (lapsed' = {} => Unlapsed')  BY <2>1, NextInformed DEF QuotaInv
  <2>3. Cloud!UsageBounded'  BY <2>1, NextBounded DEF QuotaInv
  <2>4. Cloud!Steady' =>
          /\ Cardinality(Cloud!Holding)' + Cardinality(Slots)' <= usage'[1]
          /\ ~overage' => Cardinality(Cloud!Holding)' + Cardinality(Inserting)' <= Limit
          /\ deaths' = 0 => usage'[1] = Cardinality(Cloud!Holding)' + Cardinality(Slots)'
    BY <2>1, NextBalanced
  <2>e. Excepted'  BY NextExcepted DEF QuotaInv
  <2>5. QuotaInv'  BY <2>2, <2>3, <2>4, <2>e DEF QuotaInv
  <2> QED  BY <2>1, <2>5
<1>3. I => UsageAccounted  BY QuotaGives
<1> HIDE DEF I
<1> QED  BY <1>1, <1>2, <1>3, PTL DEF Cloud!Spec

-----------------------------------------------------------------------------
(* Routing.  What the tables have, and which route the calls of clients    *)
(* take.                                                                   *)
AllCalls == Router!LedgerCalls \cup Router!DashboardReads \cup Router!DashboardWrites
Shadowed(c) == c.op = "getAction" /\ c.key = "page"

(* A library operator is another one in each instance.                     *)
LEMMA RouterMin ==
  ASSUME NEW T \in SUBSET Nat, T # {}
  PROVE  Router!Min(T) \in T /\ \A x \in T : Router!Min(T) <= x
BY Least DEF Router!Min

(* What Wild stands for in a route.                                        *)
WildsOf(route) == {l \in DOMAIN route.path : route.path[l] = Wild}
KeyIn(route, p) == IF WildsOf(route) = {} THEN Wild ELSE p[CHOOSE l \in WildsOf(route) : TRUE]

LEMMA DispatchFirst ==
  ASSUME NEW n \in Nat, NEW routes, Len(routes) = n, NEW m, NEW p,
         NEW i \in 1 .. n, Router!Matches(routes[i], m, p)
  PROVE  \E j \in 1 .. i :
           /\ Router!Matches(routes[j], m, p)
           /\ Router!Dispatch(routes, m, p) =
                {[op |-> routes[j].op, key |-> KeyIn(routes[j], p)]}
<1> DEFINE T == {l \in 1 .. n : Router!Matches(routes[l], m, p)}
           j == Router!Min(T)
<1>1. T \in SUBSET Nat /\ T # {} /\ i \in T  OBVIOUS
<1>2. j \in T /\ j <= i  BY <1>1, RouterMin
<1>3. Router!SelectInSeq(routes, LAMBDA route : Router!Matches(route, m, p)) = j
  BY <1>1 DEF Router!SelectInSeq
<1>4. j # 0 /\ j \in 1 .. i  BY <1>2
<1> HIDE DEF j
<1>5. QED  BY <1>2, <1>3, <1>4 DEF Router!Dispatch, KeyIn, WildsOf

LEMMA DispatchNone ==
  ASSUME NEW n \in Nat, NEW routes, Len(routes) = n, NEW m, NEW p,
         \A i \in 1 .. n : ~Router!Matches(routes[i], m, p)
  PROVE  Router!Dispatch(routes, m, p) = {}
<1>1. {l \in 1 .. n : Router!Matches(routes[l], m, p)} = {}  OBVIOUS
<1>2. Router!SelectInSeq(routes, LAMBDA route : Router!Matches(route, m, p)) = 0
  BY <1>1 DEF Router!SelectInSeq
<1>3. QED  BY <1>2 DEF Router!Dispatch

(* The routes behind authentication, by the table they are in.             *)
R(methods, path, op) == [methods |-> methods, path |-> path, op |-> op]
AccountSet ==
  { R({"POST"}, <<"v1", "billing", "checkout">>, "createCheckout"), R({"GET"}, <<"v1", "usage">>, "usage"),
    R({"GET"}, <<"v1", "me">>, "me"), R({"GET"}, <<"v1", "account", "keys">>, "listApiKeys"),
    R({"POST"}, <<"v1", "account", "keys">>, "createApiKey"),
    R({"POST"}, <<"v1", "account", "keys", Wild, "rotate">>, "rotateApiKey"),
    R({"DELETE", "POST"}, <<"v1", "account", "keys", Wild>>, "revokeApiKey"),
    R({"GET"}, <<"v1", "audit">>, "listAuditLog") }
OperatorSet ==
  { R({"GET"}, <<"v1", "dlq">>, "listDeadLetters"), R({"POST"}, <<"v1", "dlq", Wild, "replay">>, "replayDeadLetter"),
    R({"GET"}, <<"v1", "dlq", Wild>>, "getDeadLetter"), R({"DELETE"}, <<"v1", "dlq", Wild>>, "discardDeadLetter"),
    R({"GET"}, <<"v1", "alert-rules">>, "listAlertRules"), R({"POST"}, <<"v1", "alert-rules">>, "createAlertRule"),
    R({"POST"}, <<"v1", "alert-rules", Wild>>, "updateAlertRule"),
    R({"DELETE"}, <<"v1", "alert-rules", Wild>>, "deleteAlertRule"),
    R({"POST"}, <<"v1", "billing", "portal">>, "createBillingPortal"),
    R({"POST"}, <<"v1", "onboarding", "sample">>, "seedSampleData") }
PageSet ==
  { R({"POST"}, <<"v1", "actions">>, "insertPending"), R({"GET"}, <<"v1", "actions">>, "list"),
    R({"GET"}, <<"v1", "actions", "page">>, "pageActions"), R({"GET"}, <<"v1", "events">>, "listEvents"),
    R({"GET"}, <<"v1", "metrics">>, "metrics"), R({"POST"}, <<"v1", "stats">>, "stats"),
    R({"GET"}, <<"v1", "actions", Wild, "events">>, "runTimeline") }
ActionRoute == R({"GET"}, <<"v1", "actions", Wild>>, "getAction")
MarkNames == {"running", "succeeded", "failed", "awaiting-approval", "approved", "rejected", "denied"}
MarkSet == {R({"POST"}, <<"v1", "actions", Wild, mark>>, mark) : mark \in MarkNames}
RouteSet == AccountSet \cup OperatorSet \cup PageSet \cup {ActionRoute} \cup MarkSet

LEMMA SameSeq ==
  ASSUME NEW S, NEW s \in Seq(S), NEW t \in Seq(S), Len(s) = Len(t), \A i \in 1 .. Len(s) : s[i] = t[i]
  PROVE  s = t
OBVIOUS

LEMMA Joined ==
  ASSUME NEW S, NEW s \in Seq(S), NEW t \in Seq(S), NEW u \in Seq(S), Len(u) = Len(s) + Len(t),
         \A i \in 1 .. Len(u) : u[i] = IF i <= Len(s) THEN s[i] ELSE t[i - Len(s)]
  PROVE  s \o t = u
<1>1. s \o t \in Seq(S) /\ Len(s \o t) = Len(u)  OBVIOUS
<1>2. \A i \in 1 .. Len(u) : (s \o t)[i] = u[i]  OBVIOUS
<1>3. QED  BY <1>1, <1>2, SameSeq

LEMMA PathNone ==
  ASSUME NEW a, NEW b
  PROVE  <<a, b>> \o <<>> = <<a, b>>
<1>1. <<a, b>> \in Seq({a, b})  OBVIOUS
<1>2. QED  BY <1>1

LEMMA PathOne ==
  ASSUME NEW a, NEW b, NEW x
  PROVE  <<a, b>> \o <<x>> = <<a, b, x>>
<1>1. PICK s, t, u : s = <<a, b>> /\ t = <<x>> /\ u = <<a, b, x>>  OBVIOUS
<1>2. PICK S : a \in S /\ b \in S /\ x \in S
  <2>1. \E S : S = {a, b, x}  OBVIOUS
  <2>2. QED  BY <2>1
<1>3. s \in Seq(S) /\ t \in Seq(S) /\ u \in Seq(S)  BY <1>1, <1>2
<1>4. Len(s) = 2 /\ Len(t) = 1 /\ Len(u) = 3  BY <1>1
<1>5. \A i \in 1 .. 3 : u[i] = IF i <= 2 THEN s[i] ELSE t[i - 2]  BY <1>1
<1>6. Len(u) = Len(s) + Len(t) /\ \A i \in 1 .. Len(u) : u[i] = IF i <= Len(s) THEN s[i] ELSE t[i - Len(s)]
  BY <1>4, <1>5
<1>7. s \o t = u  BY <1>3, <1>6, Joined
<1>8. QED  BY <1>1, <1>7

LEMMA PathTwo ==
  ASSUME NEW a, NEW b, NEW x, NEW y
  PROVE  <<a, b>> \o <<x, y>> = <<a, b, x, y>>
<1>1. PICK s, t, u : s = <<a, b>> /\ t = <<x, y>> /\ u = <<a, b, x, y>>  OBVIOUS
<1>2. PICK S : a \in S /\ b \in S /\ x \in S /\ y \in S
  <2>1. \E S : S = {a, b, x, y}  OBVIOUS
  <2>2. QED  BY <2>1
<1>3. s \in Seq(S) /\ t \in Seq(S) /\ u \in Seq(S)  BY <1>1, <1>2
<1>4. Len(s) = 2 /\ Len(t) = 2 /\ Len(u) = 4  BY <1>1
<1>5. \A i \in 1 .. 4 : u[i] = IF i <= 2 THEN s[i] ELSE t[i - 2]  BY <1>1
<1>6. Len(u) = Len(s) + Len(t) /\ \A i \in 1 .. Len(u) : u[i] = IF i <= Len(s) THEN s[i] ELSE t[i - Len(s)]
  BY <1>4, <1>5
<1>7. s \o t = u  BY <1>3, <1>6, Joined
<1>8. QED  BY <1>1, <1>7

LEMMA PathThree ==
  ASSUME NEW a, NEW b, NEW x, NEW y, NEW z
  PROVE  <<a, b>> \o <<x, y, z>> = <<a, b, x, y, z>>
<1>1. PICK s, t, u : s = <<a, b>> /\ t = <<x, y, z>> /\ u = <<a, b, x, y, z>>  OBVIOUS
<1>2. PICK S : a \in S /\ b \in S /\ x \in S /\ y \in S /\ z \in S
  <2>1. \E S : S = {a, b, x, y, z}  OBVIOUS
  <2>2. QED  BY <2>1
<1>3. s \in Seq(S) /\ t \in Seq(S) /\ u \in Seq(S)  BY <1>1, <1>2
<1>4. Len(s) = 2 /\ Len(t) = 3 /\ Len(u) = 5  BY <1>1
<1>5. \A i \in 1 .. 5 : u[i] = IF i <= 2 THEN s[i] ELSE t[i - 2]  BY <1>1
<1>6. Len(u) = Len(s) + Len(t) /\ \A i \in 1 .. Len(u) : u[i] = IF i <= Len(s) THEN s[i] ELSE t[i - Len(s)]
  BY <1>4, <1>5
<1>7. s \o t = u  BY <1>3, <1>6, Joined
<1>8. QED  BY <1>1, <1>7

LEMMA Routes ==
  ASSUME NEW ms, NEW p, NEW op
  PROVE  Router!Route(ms, p, op) = R(ms, p, op)
BY DEF Router!Route, R

LEMMA Ins ==
  ASSUME NEW root, NEW m, NEW op
  PROVE  /\ Router!In(root, <<>>, m, op) = R({m}, <<"v1", root>>, op)
         /\ \A x : Router!In(root, <<x>>, m, op) = R({m}, <<"v1", root, x>>, op)
<1>1. Router!In(root, <<>>, m, op) = R({m}, <<"v1", root>>, op)  BY PathNone DEF Router!In, Router!Route, R
<1>2. ASSUME NEW x PROVE Router!In(root, <<x>>, m, op) = R({m}, <<"v1", root, x>>, op)
  BY PathOne DEF Router!In, Router!Route, R
<1>3. QED  BY <1>1, <1>2

LEMMA AccountTable ==
  Router!AccountRoutes =
        << R({"POST"}, <<"v1", "billing", "checkout">>, "createCheckout"),
           R({"GET"}, <<"v1", "usage">>, "usage"),
           R({"GET"}, <<"v1", "me">>, "me"),
           R({"GET"}, <<"v1", "account", "keys">>, "listApiKeys"),
           R({"POST"}, <<"v1", "account", "keys">>, "createApiKey"),
           R({"POST"}, <<"v1", "account", "keys", Wild, "rotate">>, "rotateApiKey"),
           R({"DELETE", "POST"}, <<"v1", "account", "keys", Wild>>, "revokeApiKey"),
           R({"GET"}, <<"v1", "audit">>, "listAuditLog") >>
<1>1. /\ Router!In("billing", <<"checkout">>, "POST", "createCheckout") =
           R({"POST"}, <<"v1", "billing", "checkout">>, "createCheckout")
      /\ Router!In("usage", <<>>, "GET", "usage") =
           R({"GET"}, <<"v1", "usage">>, "usage")
  BY Ins, Routes
<1>2. /\ Router!In("me", <<>>, "GET", "me") =
           R({"GET"}, <<"v1", "me">>, "me")
      /\ Router!In("account", <<"keys">>, "GET", "listApiKeys") =
           R({"GET"}, <<"v1", "account", "keys">>, "listApiKeys")
  BY Ins, Routes
<1>3. /\ Router!In("account", <<"keys">>, "POST", "createApiKey") =
           R({"POST"}, <<"v1", "account", "keys">>, "createApiKey")
      /\ Router!Route({"DELETE", "POST"}, <<"v1", "account", "keys", Wild>>, "revokeApiKey") =
           R({"DELETE", "POST"}, <<"v1", "account", "keys", Wild>>, "revokeApiKey")
  BY Ins, Routes
<1>4. Router!In("audit", <<>>, "GET", "listAuditLog") =
           R({"GET"}, <<"v1", "audit">>, "listAuditLog")
  BY Ins, Routes
<1>5. Router!In("account", <<"keys", Wild, "rotate">>, "POST", "rotateApiKey") =
           R({"POST"}, <<"v1", "account", "keys", Wild, "rotate">>, "rotateApiKey")
  BY PathThree DEF Router!In, Router!Route, R
<1>6. QED  BY <1>1, <1>2, <1>3, <1>4, <1>5 DEF Router!AccountRoutes

LEMMA AccountHas ==
  /\ Len(Router!AccountRoutes) = 8 /\ Router!AccountRoutes \in Seq(AccountSet)
  /\ \A i \in 1 .. 8 : Router!AccountRoutes[i] \in AccountSet
  /\ \A r \in AccountSet : \E i \in 1 .. 8 : Router!AccountRoutes[i] = r
BY AccountTable DEF AccountSet

LEMMA OperatorTable ==
  Router!OperatorRoutes =
        << R({"GET"}, <<"v1", "dlq">>, "listDeadLetters"),
           R({"POST"}, <<"v1", "dlq", Wild, "replay">>, "replayDeadLetter"),
           R({"GET"}, <<"v1", "dlq", Wild>>, "getDeadLetter"),
           R({"DELETE"}, <<"v1", "dlq", Wild>>, "discardDeadLetter"),
           R({"GET"}, <<"v1", "alert-rules">>, "listAlertRules"),
           R({"POST"}, <<"v1", "alert-rules">>, "createAlertRule"),
           R({"POST"}, <<"v1", "alert-rules", Wild>>, "updateAlertRule"),
           R({"DELETE"}, <<"v1", "alert-rules", Wild>>, "deleteAlertRule"),
           R({"POST"}, <<"v1", "billing", "portal">>, "createBillingPortal"),
           R({"POST"}, <<"v1", "onboarding", "sample">>, "seedSampleData") >>
<1>1. /\ Router!In("dlq", <<>>, "GET", "listDeadLetters") =
           R({"GET"}, <<"v1", "dlq">>, "listDeadLetters")
      /\ Router!In("dlq", <<Wild>>, "GET", "getDeadLetter") =
           R({"GET"}, <<"v1", "dlq", Wild>>, "getDeadLetter")
  BY Ins, Routes
<1>2. /\ Router!In("dlq", <<Wild>>, "DELETE", "discardDeadLetter") =
           R({"DELETE"}, <<"v1", "dlq", Wild>>, "discardDeadLetter")
      /\ Router!In("alert-rules", <<>>, "GET", "listAlertRules") =
           R({"GET"}, <<"v1", "alert-rules">>, "listAlertRules")
  BY Ins, Routes
<1>3. /\ Router!In("alert-rules", <<>>, "POST", "createAlertRule") =
           R({"POST"}, <<"v1", "alert-rules">>, "createAlertRule")
      /\ Router!In("alert-rules", <<Wild>>, "POST", "updateAlertRule") =
           R({"POST"}, <<"v1", "alert-rules", Wild>>, "updateAlertRule")
  BY Ins, Routes
<1>4. /\ Router!In("alert-rules", <<Wild>>, "DELETE", "deleteAlertRule") =
           R({"DELETE"}, <<"v1", "alert-rules", Wild>>, "deleteAlertRule")
      /\ Router!In("billing", <<"portal">>, "POST", "createBillingPortal") =
           R({"POST"}, <<"v1", "billing", "portal">>, "createBillingPortal")
  BY Ins, Routes
<1>5. Router!In("onboarding", <<"sample">>, "POST", "seedSampleData") =
           R({"POST"}, <<"v1", "onboarding", "sample">>, "seedSampleData")
  BY Ins, Routes
<1>6. Router!In("dlq", <<Wild, "replay">>, "POST", "replayDeadLetter") =
           R({"POST"}, <<"v1", "dlq", Wild, "replay">>, "replayDeadLetter")
  BY PathTwo DEF Router!In, Router!Route, R
<1>7. QED  BY <1>1, <1>2, <1>3, <1>4, <1>5, <1>6 DEF Router!OperatorRoutes

LEMMA OperatorHas ==
  /\ Len(Router!OperatorRoutes) = 10 /\ Router!OperatorRoutes \in Seq(OperatorSet)
  /\ \A i \in 1 .. 10 : Router!OperatorRoutes[i] \in OperatorSet
  /\ \A r \in OperatorSet : \E i \in 1 .. 10 : Router!OperatorRoutes[i] = r
BY OperatorTable DEF OperatorSet

(* The routes of actions: eight, and one for each mark.                    *)
PageRoutes ==
    << R({"POST"}, <<"v1", "actions">>, "insertPending"),
       R({"GET"}, <<"v1", "actions">>, "list"),
       R({"GET"}, <<"v1", "actions", "page">>, "pageActions"),
       R({"GET"}, <<"v1", "events">>, "listEvents"),
       R({"GET"}, <<"v1", "metrics">>, "metrics"),
       R({"POST"}, <<"v1", "stats">>, "stats"),
       R({"GET"}, <<"v1", "actions", Wild, "events">>, "runTimeline"),
       R({"GET"}, <<"v1", "actions", Wild>>, "getAction") >>

LEMMA MarkList ==
  /\ Len(Router!Marks) = 7 /\ DOMAIN Router!Marks = 1 .. 7
  /\ \A i \in 1 .. 7 : Router!Marks[i] \in MarkNames
  /\ \A mark \in MarkNames : \E i \in 1 .. 7 : Router!Marks[i] = mark
BY DEF Router!Marks, MarkNames

LEMMA IsSequence ==
  ASSUME NEW S, NEW n \in Nat, NEW f \in [1 .. n -> S]
  PROVE  f \in Seq(S)
OBVIOUS

LEMMA MarksHave ==
  /\ Len(Router!MarkRoutes) = 7 /\ Router!MarkRoutes \in Seq(MarkSet)
  /\ \A i \in 1 .. 7 : Router!MarkRoutes[i] \in MarkSet
  /\ \A r \in MarkSet : \E i \in 1 .. 7 : Router!MarkRoutes[i] = r
<1>1. ASSUME NEW mark
      PROVE  Router!In("actions", <<Wild, mark>>, "POST", mark) = R({"POST"}, <<"v1", "actions", Wild, mark>>, mark)
  BY PathTwo DEF Router!In, Router!Route, R
<1>2. Router!MarkRoutes = [i \in 1 .. 7 |-> R({"POST"}, <<"v1", "actions", Wild, Router!Marks[i]>>, Router!Marks[i])]
  BY <1>1, MarkList DEF Router!MarkRoutes
<1>3. \A i \in 1 .. 7 : Router!MarkRoutes[i] \in MarkSet
  BY <1>2, MarkList DEF MarkSet
<1>4. ASSUME NEW r \in MarkSet PROVE \E i \in 1 .. 7 : Router!MarkRoutes[i] = r
  <2>1. PICK mark \in MarkNames : r = R({"POST"}, <<"v1", "actions", Wild, mark>>, mark)  BY DEF MarkSet
  <2>2. PICK i \in 1 .. 7 : Router!Marks[i] = mark  BY <2>1, MarkList
  <2>3. QED  BY <1>2, <2>1, <2>2
<1>5. Len(Router!MarkRoutes) = 7  BY <1>2
<1>6. Router!MarkRoutes \in [1 .. 7 -> MarkSet]  BY <1>2, <1>3
<1>7. Router!MarkRoutes \in Seq(MarkSet)  BY <1>6, IsSequence
<1>8. QED  BY <1>3, <1>4, <1>5, <1>7

LEMMA PagesHave ==
  /\ Router!ActionRoutes = PageRoutes \o Router!MarkRoutes
  /\ Len(PageRoutes) = 8 /\ PageRoutes \in Seq(PageSet \cup {ActionRoute})
  /\ \A i \in 1 .. 7 : PageRoutes[i] \in PageSet
  /\ PageRoutes[3] = R({"GET"}, <<"v1", "actions", "page">>, "pageActions") /\ PageRoutes[8] = ActionRoute
  /\ \A r \in PageSet : \E i \in 1 .. 7 : PageRoutes[i] = r
<1>1. /\ Router!In("actions", <<>>, "POST", "insertPending") =
           R({"POST"}, <<"v1", "actions">>, "insertPending")
      /\ Router!In("actions", <<>>, "GET", "list") =
           R({"GET"}, <<"v1", "actions">>, "list")
  BY Ins
<1>2. /\ Router!In("actions", <<"page">>, "GET", "pageActions") =
           R({"GET"}, <<"v1", "actions", "page">>, "pageActions")
      /\ Router!In("events", <<>>, "GET", "listEvents") =
           R({"GET"}, <<"v1", "events">>, "listEvents")
  BY Ins
<1>3. /\ Router!In("metrics", <<>>, "GET", "metrics") =
           R({"GET"}, <<"v1", "metrics">>, "metrics")
      /\ Router!In("stats", <<>>, "POST", "stats") =
           R({"POST"}, <<"v1", "stats">>, "stats")
  BY Ins
<1>4. Router!In("actions", <<Wild>>, "GET", "getAction") =
           R({"GET"}, <<"v1", "actions", Wild>>, "getAction")
  BY Ins
<1>5. Router!In("actions", <<Wild, "events">>, "GET", "runTimeline") =
           R({"GET"}, <<"v1", "actions", Wild, "events">>, "runTimeline")
  BY PathTwo DEF Router!In, Router!Route, R
<1>6. PageRoutes =
    << Router!In("actions", <<>>, "POST", "insertPending"),
       Router!In("actions", <<>>, "GET", "list"),
       Router!In("actions", <<"page">>, "GET", "pageActions"),
       Router!In("events", <<>>, "GET", "listEvents"),
       Router!In("metrics", <<>>, "GET", "metrics"),
       Router!In("stats", <<>>, "POST", "stats"),
       Router!In("actions", <<Wild, "events">>, "GET", "runTimeline"),
       Router!In("actions", <<Wild>>, "GET", "getAction") >>
  BY <1>1, <1>2, <1>3, <1>4, <1>5 DEF PageRoutes
<1>7. Router!ActionRoutes = PageRoutes \o Router!MarkRoutes  BY <1>6 DEF Router!ActionRoutes
<1>8. QED  BY <1>7 DEF PageRoutes, PageSet, ActionRoute

(* What a concatenation has, as predicates: the provers cite these by name. *)
SeqOf(S, s, n) == s \in Seq(S) /\ Len(s) = n
IsJoin(u, s, n, t, k) ==
  (\A i \in 1 .. n : u[i] = s[i]) /\ \A i \in 1 .. k : u[n + i] = t[i]

LEMMA Concat ==
  ASSUME NEW S, NEW s, NEW t, NEW n, NEW k, SeqOf(S, s, n), SeqOf(S, t, k)
  PROVE  SeqOf(S, s \o t, n + k) /\ IsJoin(s \o t, s, n, t, k)
<1>1. s \in Seq(S) /\ t \in Seq(S) /\ Len(s) = n /\ Len(t) = k  BY DEF SeqOf
<1>2. s \o t \in Seq(S) /\ Len(s \o t) = Len(s) + Len(t)  BY <1>1
<1>3. ASSUME NEW i \in 1 .. Len(s) PROVE (s \o t)[i] = s[i]  BY <1>1
<1>4. ASSUME NEW i \in 1 .. Len(t) PROVE (s \o t)[Len(s) + i] = t[i]
  <2>1. PICK j \in Nat : j = Len(s) + i  BY <1>1
  <2>2. j \in 1 .. Len(s) + Len(t) /\ ~(j <= Len(s)) /\ j - Len(s) = i  BY <1>1, <2>1
  <2>3. (s \o t)[j] = t[j - Len(s)]  BY <1>1, <2>2
  <2>4. QED  BY <2>1, <2>2, <2>3
<1>5. PICK v : v = s \o t  OBVIOUS
<1>6. /\ v \in Seq(S) /\ Len(v) = Len(s) + Len(t)
      /\ \A i \in 1 .. Len(s) : v[i] = s[i]
      /\ \A i \in 1 .. Len(t) : v[Len(s) + i] = t[i]
  BY <1>2, <1>3, <1>4, <1>5, Zenon
<1>7. /\ v \in Seq(S) /\ Len(v) = n + k
      /\ \A i \in 1 .. n : v[i] = s[i]
      /\ \A i \in 1 .. k : v[n + i] = t[i]
  BY <1>1, <1>6, Zenon
<1>8. SeqOf(S, v, n + k) /\ IsJoin(v, s, n, t, k)  BY <1>7, Zenon DEF SeqOf, IsJoin
<1>9. QED  BY <1>5, <1>8, Zenon

LEMMA Member ==
  ASSUME NEW S, NEW s, NEW n, SeqOf(S, s, n), NEW i \in 1 .. n
  PROVE  s[i] \in S
BY DEF SeqOf

(* All the routes of an organisation: the pages are before the action.     *)
LEMMA OrgHas ==
  /\ Len(Router!OrgRoutes) = 33
  /\ \A i \in 1 .. 33 : Router!OrgRoutes[i] \in RouteSet
  /\ Router!OrgRoutes[21] = R({"GET"}, <<"v1", "actions", "page">>, "pageActions")
  /\ \A i \in 1 .. 21 : Router!OrgRoutes[i] \in AccountSet \cup OperatorSet \cup PageSet
  /\ \A r \in RouteSet : \E i \in 1 .. 33 : Router!OrgRoutes[i] = r
<1>1. PICK a, o, p, m, q, b, all :
        /\ a = Router!AccountRoutes /\ o = Router!OperatorRoutes /\ p = PageRoutes /\ m = Router!MarkRoutes
        /\ q = p \o m /\ b = a \o o /\ all = b \o q
  OBVIOUS
<1>2. all = Router!OrgRoutes  BY <1>1, PagesHave DEF Router!OrgRoutes
<1>3. /\ a \in Seq(RouteSet) /\ o \in Seq(RouteSet) /\ p \in Seq(RouteSet) /\ m \in Seq(RouteSet)
      /\ Len(a) = 8 /\ Len(o) = 10 /\ Len(p) = 8 /\ Len(m) = 7
  BY <1>1, AccountHas, OperatorHas, PagesHave, MarksHave DEF RouteSet
<1>4. q \in Seq(RouteSet) /\ Len(q) = 15 /\ (\A i \in 1 .. 8 : q[i] = p[i]) /\ \A i \in 1 .. 7 : q[8 + i] = m[i]
  <2>1. SeqOf(RouteSet, p, 8) /\ SeqOf(RouteSet, m, 7)  BY <1>3 DEF SeqOf
  <2>2. q = p \o m  BY <1>1
  <2>3. SeqOf(RouteSet, q, 8 + 7) /\ IsJoin(q, p, 8, m, 7)  BY <2>1, <2>2, Concat, Zenon
  <2>4. QED  BY <2>3 DEF SeqOf, IsJoin
<1>5. b \in Seq(RouteSet) /\ Len(b) = 18 /\ (\A i \in 1 .. 8 : b[i] = a[i]) /\ \A i \in 1 .. 10 : b[8 + i] = o[i]
  <2>1. SeqOf(RouteSet, a, 8) /\ SeqOf(RouteSet, o, 10)  BY <1>3 DEF SeqOf
  <2>2. b = a \o o  BY <1>1
  <2>3. SeqOf(RouteSet, b, 8 + 10) /\ IsJoin(b, a, 8, o, 10)  BY <2>1, <2>2, Concat, Zenon
  <2>4. QED  BY <2>3 DEF SeqOf, IsJoin
<1>6. /\ all \in Seq(RouteSet) /\ Len(all) = 33
      /\ (\A i \in 1 .. 18 : all[i] = b[i]) /\ \A i \in 1 .. 15 : all[18 + i] = q[i]
  <2>1. SeqOf(RouteSet, b, 18) /\ SeqOf(RouteSet, q, 15)  BY <1>4, <1>5 DEF SeqOf
  <2>2. all = b \o q  BY <1>1
  <2>3. SeqOf(RouteSet, all, 18 + 15) /\ IsJoin(all, b, 18, q, 15)  BY <2>1, <2>2, Concat, Zenon
  <2>4. QED  BY <2>3 DEF SeqOf, IsJoin
<1>7. ASSUME NEW i \in 1 .. 8 PROVE all[i] = a[i]
  <2>1. i \in 1 .. 18  OBVIOUS
  <2>2. all[i] = b[i]  BY <1>6, <2>1, Zenon
  <2>3. b[i] = a[i]  BY <1>5, Zenon
  <2>4. QED  BY <2>2, <2>3
<1>8. ASSUME NEW i \in 1 .. 10 PROVE all[8 + i] = o[i]
  <2>1. 8 + i \in 1 .. 18  OBVIOUS
  <2>2. QED  BY <1>5, <1>6, <2>1
<1>9. ASSUME NEW i \in 1 .. 8 PROVE all[18 + i] = p[i]
  <2>1. i \in 1 .. 15  OBVIOUS
  <2>2. QED  BY <1>4, <1>6, <2>1
<1>10. ASSUME NEW i \in 1 .. 7 PROVE all[26 + i] = m[i]
  <2>1. 8 + i \in 1 .. 15 /\ 18 + (8 + i) = 26 + i  OBVIOUS
  <2>2. all[18 + (8 + i)] = q[8 + i]  BY <1>6, <2>1
  <2>3. q[8 + i] = m[i]
    <3>1. \A l \in 1 .. 7 : q[8 + l] = m[l]  BY <1>4
    <3>2. QED  BY <3>1, Zenon
  <2>4. QED  BY <2>1, <2>2, <2>3
<1>11. ASSUME NEW i \in 1 .. 33 PROVE all[i] \in RouteSet
  <2>1. SeqOf(RouteSet, all, 33)  BY <1>6, Zenon DEF SeqOf
  <2>2. QED  BY <2>1, Member, Zenon
<1>12. all[21] = R({"GET"}, <<"v1", "actions", "page">>, "pageActions")
  <2>1. all[18 + 3] = p[3]  BY <1>9
  <2>2. 18 + 3 = 21  OBVIOUS
  <2>3. QED  BY <1>1, <2>1, <2>2, PagesHave
<1>13. ASSUME NEW i \in 1 .. 21 PROVE all[i] \in AccountSet \cup OperatorSet \cup PageSet
  <2>1. CASE i \in 1 .. 8
    <3>1. all[i] = a[i]  BY <1>7, <2>1
    <3>2. QED  BY <1>1, <2>1, <3>1, AccountHas
  <2>2. CASE i \in 9 .. 18
    <3>1. i - 8 \in 1 .. 10 /\ i = 8 + (i - 8)  BY <2>2
    <3>2. all[i] = o[i - 8]  BY <1>8, <3>1
    <3>3. QED  BY <1>1, <3>1, <3>2, OperatorHas
  <2>3. CASE i \in 19 .. 21
    <3>1. i - 18 \in 1 .. 7 /\ i - 18 \in 1 .. 8 /\ i = 18 + (i - 18)  BY <2>3
    <3>2. all[i] = p[i - 18]  BY <1>9, <3>1
    <3>3. QED  BY <1>1, <3>1, <3>2, PagesHave
  <2>4. QED  BY <2>1, <2>2, <2>3
<1>14. ASSUME NEW r \in RouteSet PROVE \E i \in 1 .. 33 : all[i] = r
  <2>1. CASE r \in AccountSet
    <3>1. PICK i \in 1 .. 8 : a[i] = r  BY <1>1, <2>1, AccountHas
    <3>2. i \in 1 .. 33 /\ all[i] = r  BY <1>7, <3>1
    <3>3. QED  BY <3>2
  <2>2. CASE r \in OperatorSet
    <3>1. PICK i \in 1 .. 10 : o[i] = r  BY <1>1, <2>2, OperatorHas
    <3>2. 8 + i \in 1 .. 33 /\ all[8 + i] = r  BY <1>8, <3>1
    <3>3. QED  BY <3>2
  <2>3. CASE r \in PageSet \cup {ActionRoute}
    <3>1. PICK i \in 1 .. 8 : p[i] = r  BY <1>1, <2>3, PagesHave
    <3>2. 18 + i \in 1 .. 33 /\ all[18 + i] = r  BY <1>9, <3>1
    <3>3. QED  BY <3>2
  <2>4. CASE r \in MarkSet
    <3>1. PICK i \in 1 .. 7 : m[i] = r  BY <1>1, <2>4, MarksHave
    <3>2. 26 + i \in 1 .. 33 /\ all[26 + i] = r  BY <1>10, <3>1
    <3>3. QED  BY <3>2
  <2>5. QED  BY <2>1, <2>2, <2>3, <2>4 DEF RouteSet
<1>15. QED  BY <1>2, <1>6, <1>11, <1>12, <1>13, <1>14

(* The routes by the length of their paths.                                *)
TwoSet ==
  { R({"GET"}, <<"v1", "usage">>, "usage"), R({"GET"}, <<"v1", "me">>, "me"),
    R({"GET"}, <<"v1", "audit">>, "listAuditLog"), R({"GET"}, <<"v1", "dlq">>, "listDeadLetters"),
    R({"GET"}, <<"v1", "alert-rules">>, "listAlertRules"), R({"POST"}, <<"v1", "alert-rules">>, "createAlertRule"),
    R({"POST"}, <<"v1", "actions">>, "insertPending"), R({"GET"}, <<"v1", "actions">>, "list"),
    R({"GET"}, <<"v1", "events">>, "listEvents"), R({"GET"}, <<"v1", "metrics">>, "metrics"),
    R({"POST"}, <<"v1", "stats">>, "stats") }
ThreeSet ==
  { R({"POST"}, <<"v1", "billing", "checkout">>, "createCheckout"),
    R({"POST"}, <<"v1", "billing", "portal">>, "createBillingPortal"),
    R({"POST"}, <<"v1", "onboarding", "sample">>, "seedSampleData"),
    R({"GET"}, <<"v1", "account", "keys">>, "listApiKeys"), R({"POST"}, <<"v1", "account", "keys">>, "createApiKey"),
    R({"GET"}, <<"v1", "actions", "page">>, "pageActions"),
    R({"GET"}, <<"v1", "dlq", Wild>>, "getDeadLetter"), R({"DELETE"}, <<"v1", "dlq", Wild>>, "discardDeadLetter"),
    R({"POST"}, <<"v1", "alert-rules", Wild>>, "updateAlertRule"),
    R({"DELETE"}, <<"v1", "alert-rules", Wild>>, "deleteAlertRule"), ActionRoute }
FourSet ==
  { R({"DELETE", "POST"}, <<"v1", "account", "keys", Wild>>, "revokeApiKey"),
    R({"POST"}, <<"v1", "dlq", Wild, "replay">>, "replayDeadLetter"),
    R({"GET"}, <<"v1", "actions", Wild, "events">>, "runTimeline") } \cup MarkSet
RotateRoute == R({"POST"}, <<"v1", "account", "keys", Wild, "rotate">>, "rotateApiKey")

Long(r, n) == Len(r.path) = n

LEMMA Lengths ==
  /\ \A ms, op, a, b : Long(R(ms, <<a, b>>, op), 2)
  /\ \A ms, op, a, b, c : Long(R(ms, <<a, b, c>>, op), 3)
  /\ \A ms, op, a, b, c, d : Long(R(ms, <<a, b, c, d>>, op), 4)
  /\ \A ms, op, a, b, c, d, e : Long(R(ms, <<a, b, c, d, e>>, op), 5)
BY DEF Long, R

LEMMA OneLength ==
  ASSUME NEW r, NEW n, NEW k, Long(r, n), Long(r, k)
  PROVE  n = k
BY DEF Long

LEMMA ByLength ==
  ASSUME NEW r \in RouteSet
  PROVE  \/ r \in TwoSet /\ Long(r, 2)
         \/ r \in ThreeSet /\ Long(r, 3)
         \/ r \in FourSet /\ Long(r, 4)
         \/ r = RotateRoute /\ Long(r, 5)
<1>1. CASE r \in AccountSet  BY <1>1, Lengths DEF AccountSet, TwoSet, ThreeSet, FourSet, RotateRoute
<1>2. CASE r \in OperatorSet  BY <1>2, Lengths DEF OperatorSet, TwoSet, ThreeSet, FourSet
<1>3. CASE r \in PageSet  BY <1>3, Lengths DEF PageSet, TwoSet, ThreeSet, FourSet
<1>4. CASE r = ActionRoute  BY <1>4, Lengths DEF ActionRoute, ThreeSet
<1>5. CASE r \in MarkSet  BY <1>5, Lengths DEF MarkSet, FourSet
<1>6. QED  BY <1>1, <1>2, <1>3, <1>4, <1>5 DEF RouteSet

(* A route that matches has the path's length.                             *)
LEMMA ByMatch ==
  ASSUME NEW r \in RouteSet, NEW m, NEW p, Router!Matches(r, m, p)
  PROVE  /\ Len(p) = 2 => r \in TwoSet
         /\ Len(p) = 3 => r \in ThreeSet
         /\ Len(p) = 4 => r \in FourSet
         /\ Len(p) = 5 => r = RotateRoute
         /\ m \in r.methods
         /\ \A i \in DOMAIN p : r.path[i] \in {p[i], Wild}
<1>1. Len(r.path) = Len(p) /\ m \in r.methods /\ \A i \in DOMAIN p : r.path[i] \in {p[i], Wild}
  BY DEF Router!Matches
<1>2. Long(r, Len(p))  BY <1>1 DEF Long
<1>3. ASSUME NEW n, n = Len(p)
      PROVE  (n = 2 => r \in TwoSet) /\ (n = 3 => r \in ThreeSet) /\ (n = 4 => r \in FourSet) /\ (n = 5 => r = RotateRoute)
  <2>1. Long(r, n)  BY <1>2, <1>3
  <2>2. PICK k \in 2 .. 5 : /\ Long(r, k)
                            /\ (k = 2 => r \in TwoSet) /\ (k = 3 => r \in ThreeSet)
                            /\ (k = 4 => r \in FourSet) /\ (k = 5 => r = RotateRoute)
    BY ByLength
  <2>3. n = k  BY <2>1, <2>2, OneLength
  <2>4. QED  BY <2>2, <2>3
<1>4. PICK n : n = Len(p)  OBVIOUS
<1>5. QED  BY <1>1, <1>3, <1>4, Zenon

(* Which route a path takes, from its method and its segments.             *)
TwoTable ==
  { <<"GET", "usage", "usage">>, <<"GET", "me", "me">>, <<"GET", "audit", "listAuditLog">>,
    <<"GET", "dlq", "listDeadLetters">>, <<"GET", "alert-rules", "listAlertRules">>,
    <<"POST", "alert-rules", "createAlertRule">>, <<"POST", "actions", "insertPending">>,
    <<"GET", "actions", "list">>, <<"GET", "events", "listEvents">>, <<"GET", "metrics", "metrics">>,
    <<"POST", "stats", "stats">> }
ThreeTable ==
  { <<"POST", "billing", "checkout", "createCheckout">>, <<"POST", "billing", "portal", "createBillingPortal">>,
    <<"POST", "onboarding", "sample", "seedSampleData">>, <<"GET", "account", "keys", "listApiKeys">>,
    <<"POST", "account", "keys", "createApiKey">>, <<"GET", "actions", "page", "pageActions">> }
WildTable ==
  { <<"GET", "dlq", "getDeadLetter">>, <<"DELETE", "dlq", "discardDeadLetter">>,
    <<"POST", "alert-rules", "updateAlertRule">>, <<"DELETE", "alert-rules", "deleteAlertRule">>,
    <<"GET", "actions", "getAction">> }
FourTable ==
  { <<"POST", "dlq", "replay", "replayDeadLetter">>, <<"GET", "actions", "events", "runTimeline">> }
  \cup {<<"POST", "actions", mark, mark>> : mark \in MarkNames}

TwoRoute(m, x, op) == R({m}, <<"v1", x>>, op)
ThreeRoute(m, x, y, op) == R({m}, <<"v1", x, y>>, op)
FourRoute(m, x, z, op) == R({m}, <<"v1", x, Wild, z>>, op)
RevokeRoute == R({"DELETE", "POST"}, <<"v1", "account", "keys", Wild>>, "revokeApiKey")

LEMMA TwoIn ==
  ASSUME NEW r \in TwoSet
  PROVE  \E m, x, op : <<m, x, op>> \in TwoTable /\ r = TwoRoute(m, x, op)
<1>1. \/ r = TwoRoute("GET", "usage", "usage")
      \/ r = TwoRoute("GET", "me", "me")
      \/ r = TwoRoute("GET", "audit", "listAuditLog")
      \/ r = TwoRoute("GET", "dlq", "listDeadLetters")
      \/ r = TwoRoute("GET", "alert-rules", "listAlertRules")
      \/ r = TwoRoute("POST", "alert-rules", "createAlertRule")
      \/ r = TwoRoute("POST", "actions", "insertPending")
      \/ r = TwoRoute("GET", "actions", "list")
      \/ r = TwoRoute("GET", "events", "listEvents")
      \/ r = TwoRoute("GET", "metrics", "metrics")
      \/ r = TwoRoute("POST", "stats", "stats")
  BY DEF TwoSet, TwoRoute
<1>2. /\ <<"GET", "usage", "usage">> \in TwoTable
      /\ <<"GET", "me", "me">> \in TwoTable
      /\ <<"GET", "audit", "listAuditLog">> \in TwoTable
      /\ <<"GET", "dlq", "listDeadLetters">> \in TwoTable
      /\ <<"GET", "alert-rules", "listAlertRules">> \in TwoTable
      /\ <<"POST", "alert-rules", "createAlertRule">> \in TwoTable
      /\ <<"POST", "actions", "insertPending">> \in TwoTable
      /\ <<"GET", "actions", "list">> \in TwoTable
      /\ <<"GET", "events", "listEvents">> \in TwoTable
      /\ <<"GET", "metrics", "metrics">> \in TwoTable
      /\ <<"POST", "stats", "stats">> \in TwoTable
  BY DEF TwoTable
<1>3. QED  BY <1>1, <1>2, Zenon

LEMMA TwoOf ==
  ASSUME NEW m, NEW x, NEW op, <<m, x, op>> \in TwoTable
  PROVE  TwoRoute(m, x, op) \in RouteSet /\ x \in Router!Named
BY DEF TwoTable, TwoRoute, RouteSet, AccountSet, OperatorSet, PageSet, Router!Named

LEMMA ThreeIn ==
  ASSUME NEW r \in ThreeSet
  PROVE  \/ \E m, x, y, op : <<m, x, y, op>> \in ThreeTable /\ r = ThreeRoute(m, x, y, op)
         \/ \E m, x, op : <<m, x, op>> \in WildTable /\ r = ThreeRoute(m, x, Wild, op)
<1>1. \/ r = ThreeRoute("POST", "billing", "checkout", "createCheckout")
      \/ r = ThreeRoute("POST", "billing", "portal", "createBillingPortal")
      \/ r = ThreeRoute("POST", "onboarding", "sample", "seedSampleData")
      \/ r = ThreeRoute("GET", "account", "keys", "listApiKeys")
      \/ r = ThreeRoute("POST", "account", "keys", "createApiKey")
      \/ r = ThreeRoute("GET", "actions", "page", "pageActions")
      \/ r = ThreeRoute("GET", "dlq", Wild, "getDeadLetter")
      \/ r = ThreeRoute("DELETE", "dlq", Wild, "discardDeadLetter")
      \/ r = ThreeRoute("POST", "alert-rules", Wild, "updateAlertRule")
      \/ r = ThreeRoute("DELETE", "alert-rules", Wild, "deleteAlertRule")
      \/ r = ThreeRoute("GET", "actions", Wild, "getAction")
  BY DEF ThreeSet, ThreeRoute, ActionRoute
<1>2. /\ <<"POST", "billing", "checkout", "createCheckout">> \in ThreeTable
      /\ <<"POST", "billing", "portal", "createBillingPortal">> \in ThreeTable
      /\ <<"POST", "onboarding", "sample", "seedSampleData">> \in ThreeTable
      /\ <<"GET", "account", "keys", "listApiKeys">> \in ThreeTable
      /\ <<"POST", "account", "keys", "createApiKey">> \in ThreeTable
      /\ <<"GET", "actions", "page", "pageActions">> \in ThreeTable
      /\ <<"GET", "dlq", "getDeadLetter">> \in WildTable
      /\ <<"DELETE", "dlq", "discardDeadLetter">> \in WildTable
      /\ <<"POST", "alert-rules", "updateAlertRule">> \in WildTable
      /\ <<"DELETE", "alert-rules", "deleteAlertRule">> \in WildTable
      /\ <<"GET", "actions", "getAction">> \in WildTable
  BY DEF ThreeTable, WildTable
<1>3. QED  BY <1>1, <1>2, Zenon

LEMMA ThreeOf ==
  ASSUME NEW m, NEW x, NEW y, NEW op, <<m, x, y, op>> \in ThreeTable
  PROVE  ThreeRoute(m, x, y, op) \in RouteSet /\ x \in Router!Named /\ y \in Router!Named
BY DEF ThreeTable, ThreeRoute, RouteSet, AccountSet, OperatorSet, PageSet, Router!Named

LEMMA WildOf ==
  ASSUME NEW m, NEW x, NEW op, <<m, x, op>> \in WildTable
  PROVE  ThreeRoute(m, x, Wild, op) \in RouteSet /\ x \in Router!Named
BY DEF WildTable, ThreeRoute, RouteSet, ActionRoute, OperatorSet, Router!Named

LEMMA FourIn ==
  ASSUME NEW r \in FourSet
  PROVE  r = RevokeRoute \/ \E m, x, z, op : <<m, x, z, op>> \in FourTable /\ r = FourRoute(m, x, z, op)
BY DEF FourSet, MarkSet, FourTable, FourRoute, RevokeRoute

LEMMA FourOf ==
  ASSUME NEW m, NEW x, NEW z, NEW op, <<m, x, z, op>> \in FourTable
  PROVE  FourRoute(m, x, z, op) \in RouteSet /\ x \in Router!Named /\ z \in Router!Named
BY DEF FourTable, FourRoute, RouteSet, OperatorSet, PageSet, MarkSet, MarkNames, Router!Named

LEMMA Alone ==
  /\ \A m, x, op, other : <<m, x, op>> \in TwoTable /\ <<m, x, other>> \in TwoTable => other = op
  /\ \A m, x, y, op, other : <<m, x, y, op>> \in ThreeTable /\ <<m, x, y, other>> \in ThreeTable => other = op
  /\ \A m, x, op, other : <<m, x, op>> \in WildTable /\ <<m, x, other>> \in WildTable => other = op
  /\ \A m, x, z, op, other : <<m, x, z, op>> \in FourTable /\ <<m, x, z, other>> \in FourTable => other = op
  /\ \A m, x, y, op, other : <<m, x, y, op>> \in ThreeTable /\ <<m, x, other>> \in WildTable =>
       op = "pageActions" /\ other = "getAction" /\ m = "GET" /\ x = "actions" /\ y = "page"
<1>1. ASSUME NEW m, NEW x, NEW op, NEW other, <<m, x, op>> \in TwoTable, <<m, x, other>> \in TwoTable PROVE other = op
  BY <1>1 DEF TwoTable
<1>2. ASSUME NEW m, NEW x, NEW y, NEW op, NEW other, <<m, x, y, op>> \in ThreeTable, <<m, x, y, other>> \in ThreeTable
      PROVE other = op
  BY <1>2 DEF ThreeTable
<1>3. ASSUME NEW m, NEW x, NEW op, NEW other, <<m, x, op>> \in WildTable, <<m, x, other>> \in WildTable PROVE other = op
  BY <1>3 DEF WildTable
<1>4. ASSUME NEW m, NEW x, NEW z, NEW op, NEW other, <<m, x, z, op>> \in FourTable, <<m, x, z, other>> \in FourTable
      PROVE other = op
  BY <1>4 DEF FourTable, MarkNames
<1>5. ASSUME NEW m, NEW x, NEW y, NEW op, NEW other, <<m, x, y, op>> \in ThreeTable, <<m, x, other>> \in WildTable
      PROVE op = "pageActions" /\ other = "getAction" /\ m = "GET" /\ x = "actions" /\ y = "page"
  BY <1>5 DEF ThreeTable, WildTable
<1>6. QED  BY <1>1, <1>2, <1>3, <1>4, <1>5

(* The operation and the key that a request leads to.                      *)
Takes(m, p, op, key) == Router!Dispatch(Router!OrgRoutes, m, p) = {[op |-> op, key |-> key]}

LEMMA Reaches ==
  ASSUME NEW m, NEW p, NEW op, NEW key, NEW r \in RouteSet, Router!Matches(r, m, p),
         \A o \in RouteSet : Router!Matches(o, m, p) => o.op = op /\ KeyIn(o, p) = key
  PROVE  Takes(m, p, op, key)
<1>1. PICK n \in Nat : n = 33  OBVIOUS
<1>2. PICK all : all = Router!OrgRoutes  OBVIOUS
<1>3. Len(all) = n /\ (\A i \in 1 .. n : all[i] \in RouteSet) /\ \E i \in 1 .. n : all[i] = r
  BY <1>1, <1>2, OrgHas
<1>4. PICK i \in 1 .. n : Router!Matches(all[i], m, p)  BY <1>3
<1>5. PICK j \in 1 .. i : /\ Router!Matches(all[j], m, p)
                          /\ Router!Dispatch(all, m, p) = {[op |-> all[j].op, key |-> KeyIn(all[j], p)]}
  <2>1. Len(all) = n  BY <1>3
  <2>2. QED  BY <1>4, <2>1, DispatchFirst
<1>6. j \in 1 .. n  BY <1>4, <1>5
<1>7. all[j].op = op /\ KeyIn(all[j], p) = key  BY <1>3, <1>5, <1>6
<1>8. QED  BY <1>2, <1>5, <1>7 DEF Takes

(* A path's segments: named ones, and what is in the place of Wild.        *)
LEMMA HeldIn ==
  ASSUME Router!RoutingAssumption, NEW ms, NEW op, NEW x \in Router!Named, NEW z \in Router!Named
  PROVE  /\ WildsOf(R(ms, <<"v1", x>>, op)) = {} /\ WildsOf(R(ms, <<"v1", x, z>>, op)) = {}
         /\ WildsOf(R(ms, <<"v1", x, Wild>>, op)) = {3}
         /\ WildsOf(RevokeRoute) = {4} /\ WildsOf(RotateRoute) = {4}
<1>1. Wild \notin Router!Named  BY DEF Router!RoutingAssumption
<1>2. "v1" # Wild /\ "rotate" # Wild /\ "account" # Wild /\ "keys" # Wild /\ x # Wild /\ z # Wild
  <2>1. "v1" \in Router!Named /\ "rotate" \in Router!Named /\ "account" \in Router!Named /\ "keys" \in Router!Named
    BY DEF Router!Named
  <2>2. QED  BY <1>1, <2>1
<1>3. WildsOf(R(ms, <<"v1", x>>, op)) = {}  BY <1>2 DEF WildsOf, R
<1>4. WildsOf(R(ms, <<"v1", x, z>>, op)) = {}  BY <1>2 DEF WildsOf, R
<1>5. WildsOf(R(ms, <<"v1", x, Wild>>, op)) = {3}  BY <1>2 DEF WildsOf, R
<1>6. WildsOf(RevokeRoute) = {4}  BY <1>2 DEF WildsOf, R, RevokeRoute
<1>7. WildsOf(RotateRoute) = {4}  BY <1>2 DEF WildsOf, R, RotateRoute
<1>8. QED  BY <1>3, <1>4, <1>5, <1>6, <1>7

LEMMA HeldFour ==
  ASSUME Router!RoutingAssumption, NEW m, NEW op, NEW x \in Router!Named, NEW z \in Router!Named
  PROVE  WildsOf(FourRoute(m, x, z, op)) = {3}
<1>1. Wild \notin Router!Named /\ "v1" \in Router!Named  BY DEF Router!RoutingAssumption, Router!Named
<1>2. "v1" # Wild /\ x # Wild /\ z # Wild  BY <1>1
<1>3. QED  BY <1>2 DEF WildsOf, R, FourRoute

LEMMA KeyOfOne ==
  ASSUME NEW route, NEW p, NEW n, WildsOf(route) = {n}
  PROVE  KeyIn(route, p) = p[n]
<1>1. (CHOOSE l \in {n} : TRUE) = n  OBVIOUS
<1>2. QED  BY <1>1 DEF KeyIn

LEMMA KeyOfNone ==
  ASSUME NEW route, NEW p, WildsOf(route) = {}
  PROVE  KeyIn(route, p) = Wild
BY DEF KeyIn

(* A call with two segments.                                               *)
LEMMA TakesTwo ==
  ASSUME Router!RoutingAssumption, NEW m, NEW x, NEW op, <<m, x, op>> \in TwoTable
  PROVE  Takes(m, <<"v1", x>>, op, Wild)
<1>1. TwoRoute(m, x, op) \in RouteSet /\ x \in Router!Named /\ Wild \notin Router!Named
  BY TwoOf DEF Router!RoutingAssumption
<1>2. Router!Matches(TwoRoute(m, x, op), m, <<"v1", x>>)  BY DEF TwoRoute, R, Router!Matches
<1>3. ASSUME NEW o \in RouteSet, Router!Matches(o, m, <<"v1", x>>) PROVE o.op = op /\ KeyIn(o, <<"v1", x>>) = Wild
  <2>1. PICK p : p = <<"v1", x>>  OBVIOUS
  <2>2. Len(p) = 2 /\ p[2] = x /\ 2 \in DOMAIN p  BY <2>1
  <2>3. o \in TwoSet /\ m \in o.methods /\ o.path[2] \in {x, Wild}  BY <1>3, <2>1, <2>2, ByMatch
  <2>4. PICK mm, xx, oo : <<mm, xx, oo>> \in TwoTable /\ o = TwoRoute(mm, xx, oo)  BY <2>3, TwoIn
  <2>5. o.methods = {mm} /\ o.path[2] = xx /\ o.op = oo  BY <2>4 DEF TwoRoute, R
  <2>6. xx \in Router!Named  BY <2>4, TwoOf
  <2>7. mm = m /\ xx = x  BY <1>1, <2>3, <2>5, <2>6
  <2>8. oo = op  BY <2>4, <2>7, Alone
  <2>9. WildsOf(o) = {}  BY <1>1, <2>4, <2>7, HeldIn DEF TwoRoute
  <2>10. QED  BY <2>5, <2>8, <2>9, KeyOfNone
<1>4. QED  BY <1>1, <1>2, <1>3, Reaches

(* Three segments: all named, or the last one in the place of Wild.        *)
LEMMA MatchThree ==
  ASSUME Router!RoutingAssumption, NEW m, NEW x \in Router!Named, NEW y, y # Wild,
         NEW o \in RouteSet, Router!Matches(o, m, <<"v1", x, y>>)
  PROVE  \/ <<m, x, y, o.op>> \in ThreeTable /\ o = ThreeRoute(m, x, y, o.op)
         \/ <<m, x, o.op>> \in WildTable /\ o = ThreeRoute(m, x, Wild, o.op)
<1>1. PICK p : p = <<"v1", x, y>>  OBVIOUS
<1>2. Len(p) = 3 /\ p[2] = x /\ p[3] = y /\ 2 \in DOMAIN p /\ 3 \in DOMAIN p  BY <1>1
<1>3. o \in ThreeSet /\ m \in o.methods /\ o.path[2] \in {x, Wild} /\ o.path[3] \in {y, Wild}
  BY <1>1, <1>2, ByMatch
<1>4. Wild \notin Router!Named  BY DEF Router!RoutingAssumption
<1>5. CASE \E mm, xx, yy, op : <<mm, xx, yy, op>> \in ThreeTable /\ o = ThreeRoute(mm, xx, yy, op)
  <2>1. PICK mm, xx, yy, op : <<mm, xx, yy, op>> \in ThreeTable /\ o = ThreeRoute(mm, xx, yy, op)  BY <1>5
  <2>2. o.methods = {mm} /\ o.path[2] = xx /\ o.path[3] = yy /\ o.op = op  BY <2>1 DEF ThreeRoute, R
  <2>3. xx \in Router!Named /\ yy \in Router!Named  BY <2>1, ThreeOf
  <2>4. mm = m /\ xx = x /\ yy = y  BY <1>3, <1>4, <2>2, <2>3
  <2>5. QED  BY <2>1, <2>2, <2>4
<1>6. CASE \E mm, xx, op : <<mm, xx, op>> \in WildTable /\ o = ThreeRoute(mm, xx, Wild, op)
  <2>1. PICK mm, xx, op : <<mm, xx, op>> \in WildTable /\ o = ThreeRoute(mm, xx, Wild, op)  BY <1>6
  <2>2. o.methods = {mm} /\ o.path[2] = xx /\ o.op = op  BY <2>1 DEF ThreeRoute, R
  <2>3. xx \in Router!Named  BY <2>1, WildOf
  <2>4. mm = m /\ xx = x  BY <1>3, <1>4, <2>2, <2>3
  <2>5. QED  BY <2>1, <2>2, <2>4
<1>7. QED  BY <1>3, <1>5, <1>6, ThreeIn

LEMMA TakesThree ==
  ASSUME Router!RoutingAssumption, NEW m, NEW x, NEW y, NEW op, <<m, x, y, op>> \in ThreeTable, op # "pageActions"
  PROVE  Takes(m, <<"v1", x, y>>, op, Wild)
<1>1. ThreeRoute(m, x, y, op) \in RouteSet /\ x \in Router!Named /\ y \in Router!Named /\ y # Wild
  BY ThreeOf DEF Router!RoutingAssumption
<1>2. Router!Matches(ThreeRoute(m, x, y, op), m, <<"v1", x, y>>)  BY DEF ThreeRoute, R, Router!Matches
<1>3. ASSUME NEW o \in RouteSet, Router!Matches(o, m, <<"v1", x, y>>)
      PROVE  o.op = op /\ KeyIn(o, <<"v1", x, y>>) = Wild
  <2>1. \/ <<m, x, y, o.op>> \in ThreeTable /\ o = ThreeRoute(m, x, y, o.op)
        \/ <<m, x, o.op>> \in WildTable
    BY <1>1, <1>3, MatchThree
  <2>2. <<m, x, o.op>> \notin WildTable  BY Alone
  <2>3. o = ThreeRoute(m, x, y, op) /\ o.op = op  BY <2>1, <2>2, Alone
  <2>4. WildsOf(o) = {}  BY <1>1, <2>3, HeldIn DEF ThreeRoute
  <2>5. QED  BY <2>3, <2>4, KeyOfNone
<1>4. QED  BY <1>1, <1>2, <1>3, Reaches

LEMMA TakesWild ==
  ASSUME Router!RoutingAssumption, NEW m, NEW x, NEW key, key # Wild, NEW op, <<m, x, op>> \in WildTable,
         ~(op = "getAction" /\ key = "page")
  PROVE  Takes(m, <<"v1", x, key>>, op, key)
<1>1. ThreeRoute(m, x, Wild, op) \in RouteSet /\ x \in Router!Named  BY WildOf
<1>2. Router!Matches(ThreeRoute(m, x, Wild, op), m, <<"v1", x, key>>)  BY DEF ThreeRoute, R, Router!Matches
<1>3. ASSUME NEW o \in RouteSet, Router!Matches(o, m, <<"v1", x, key>>)
      PROVE  o.op = op /\ KeyIn(o, <<"v1", x, key>>) = key
  <2>1. \/ <<m, x, key, o.op>> \in ThreeTable
        \/ <<m, x, o.op>> \in WildTable /\ o = ThreeRoute(m, x, Wild, o.op)
    BY <1>1, <1>3, MatchThree
  <2>2. <<m, x, key, o.op>> \notin ThreeTable  BY Alone
  <2>3. o = ThreeRoute(m, x, Wild, op) /\ o.op = op  BY <2>1, <2>2, Alone
  <2>4. WildsOf(o) = {3}  BY <1>1, <2>3, HeldIn DEF ThreeRoute
  <2>5. KeyIn(o, <<"v1", x, key>>) = <<"v1", x, key>>[3]  BY <2>4, KeyOfOne
  <2>6. QED  BY <2>3, <2>5
<1>4. QED  BY <1>1, <1>2, <1>3, Reaches

LEMMA Early ==
  ASSUME NEW r \in AccountSet \cup OperatorSet \cup PageSet
  PROVE  r.op # "getAction" /\ r \in RouteSet
<1>1. \A ms, p, op : R(ms, p, op).op = op  BY DEF R
<1>2. r \in AccountSet => r.op # "getAction"  BY <1>1 DEF AccountSet
<1>3. r \in OperatorSet => r.op # "getAction"  BY <1>1 DEF OperatorSet
<1>4. r \in PageSet => r.op # "getAction"  BY <1>1 DEF PageSet
<1>5. QED  BY <1>2, <1>3, <1>4 DEF RouteSet

(* The pages are asked for before an action is.                            *)
LEMMA TakesPage ==
  ASSUME Router!RoutingAssumption
  PROVE  Takes("GET", <<"v1", "actions", "page">>, "pageActions", Wild)
<1>1. PICK m, x, y : m = "GET" /\ x = "actions" /\ y = "page"  OBVIOUS
<1>2. PICK p : p = <<"v1", x, y>>  OBVIOUS
<1>3. <<m, x, y, "pageActions">> \in ThreeTable  BY <1>1 DEF ThreeTable
<1>4. ThreeRoute(m, x, y, "pageActions") \in RouteSet /\ x \in Router!Named /\ y \in Router!Named /\ y # Wild
  BY <1>3, ThreeOf DEF Router!RoutingAssumption
<1>5. Router!Matches(ThreeRoute(m, x, y, "pageActions"), m, p)  BY <1>2 DEF ThreeRoute, R, Router!Matches
<1>6. PICK all : all = Router!OrgRoutes  OBVIOUS
<1>7. PICK n \in Nat : n = 33  OBVIOUS
<1>8. PICK i \in 1 .. n : i = 21  BY <1>7
<1>9. /\ Len(all) = n /\ all[i] = ThreeRoute(m, x, y, "pageActions")
      /\ \A l \in 1 .. i : all[l] \in AccountSet \cup OperatorSet \cup PageSet
  BY <1>1, <1>6, <1>7, <1>8, OrgHas DEF ThreeRoute
<1>10. PICK j \in 1 .. i : /\ Router!Matches(all[j], m, p)
                           /\ Router!Dispatch(all, m, p) = {[op |-> all[j].op, key |-> KeyIn(all[j], p)]}
  <2>1. Len(all) = n /\ Router!Matches(all[i], m, p)  BY <1>5, <1>9
  <2>2. QED  BY <2>1, DispatchFirst
<1>11. PICK o : o = all[j]  OBVIOUS
<1>12. o \in RouteSet /\ o.op # "getAction" /\ Router!Matches(o, m, <<"v1", x, y>>)
  BY <1>2, <1>9, <1>10, <1>11, Early
<1>13. \/ <<m, x, y, o.op>> \in ThreeTable /\ o = ThreeRoute(m, x, y, o.op)
       \/ <<m, x, o.op>> \in WildTable
  BY <1>4, <1>12, MatchThree
<1>14. <<m, x, o.op>> \in WildTable => o.op = "getAction"  BY <1>3, Alone
<1>15. o.op = "pageActions" /\ o = ThreeRoute(m, x, y, "pageActions")  BY <1>3, <1>12, <1>13, <1>14, Alone
<1>16. WildsOf(o) = {}  BY <1>4, <1>15, HeldIn DEF ThreeRoute
<1>17. KeyIn(o, p) = Wild  BY <1>16, KeyOfNone
<1>18. Router!Dispatch(all, m, p) = {[op |-> "pageActions", key |-> Wild]}  BY <1>10, <1>11, <1>15, <1>17
<1>19. QED  BY <1>1, <1>2, <1>6, <1>18 DEF Takes

(* Four segments and five.                                                 *)
LEMMA MatchFour ==
  ASSUME Router!RoutingAssumption, NEW m, NEW x \in Router!Named, NEW y, y # Wild, NEW z, z # Wild,
         NEW o \in RouteSet, Router!Matches(o, m, <<"v1", x, y, z>>)
  PROVE  \/ o = RevokeRoute /\ m \in {"DELETE", "POST"} /\ x = "account" /\ y = "keys"
         \/ <<m, x, z, o.op>> \in FourTable /\ o = FourRoute(m, x, z, o.op)
<1>1. PICK p : p = <<"v1", x, y, z>>  OBVIOUS
<1>2. Len(p) = 4 /\ p[2] = x /\ p[3] = y /\ p[4] = z /\ 2 \in DOMAIN p /\ 3 \in DOMAIN p /\ 4 \in DOMAIN p  BY <1>1
<1>3. o \in FourSet /\ m \in o.methods /\ o.path[2] \in {x, Wild} /\ o.path[3] \in {y, Wild} /\ o.path[4] \in {z, Wild}
  BY <1>1, <1>2, ByMatch
<1>4. Wild \notin Router!Named  BY DEF Router!RoutingAssumption
<1>5. CASE o = RevokeRoute
  <2>1. o.methods = {"DELETE", "POST"} /\ o.path[2] = "account" /\ o.path[3] = "keys"  BY <1>5 DEF RevokeRoute, R
  <2>2. "account" \in Router!Named /\ "keys" \in Router!Named  BY DEF Router!Named
  <2>3. x = "account" /\ y = "keys"  BY <1>3, <1>4, <2>1, <2>2
  <2>4. QED  BY <1>3, <1>5, <2>1, <2>3
<1>6. CASE \E mm, xx, zz, op : <<mm, xx, zz, op>> \in FourTable /\ o = FourRoute(mm, xx, zz, op)
  <2>1. PICK mm, xx, zz, op : <<mm, xx, zz, op>> \in FourTable /\ o = FourRoute(mm, xx, zz, op)  BY <1>6
  <2>2. o.methods = {mm} /\ o.path[2] = xx /\ o.path[4] = zz /\ o.op = op  BY <2>1 DEF FourRoute, R
  <2>3. xx \in Router!Named /\ zz \in Router!Named  BY <2>1, FourOf
  <2>4. mm = m /\ xx = x /\ zz = z  BY <1>3, <1>4, <2>2, <2>3
  <2>5. QED  BY <2>1, <2>2, <2>4
<1>7. QED  BY <1>3, <1>5, <1>6, FourIn

LEMMA TakesFour ==
  ASSUME Router!RoutingAssumption, NEW m, NEW x, x # "account", NEW key, key # Wild, NEW z, NEW op,
         <<m, x, z, op>> \in FourTable
  PROVE  Takes(m, <<"v1", x, key, z>>, op, key)
<1>1. FourRoute(m, x, z, op) \in RouteSet /\ x \in Router!Named /\ z \in Router!Named /\ z # Wild
  BY FourOf DEF Router!RoutingAssumption
<1>2. Router!Matches(FourRoute(m, x, z, op), m, <<"v1", x, key, z>>)  BY DEF FourRoute, R, Router!Matches
<1>3. ASSUME NEW o \in RouteSet, Router!Matches(o, m, <<"v1", x, key, z>>)
      PROVE  o.op = op /\ KeyIn(o, <<"v1", x, key, z>>) = key
  <2>1. <<m, x, z, o.op>> \in FourTable /\ o = FourRoute(m, x, z, o.op)
    BY <1>1, <1>3, MatchFour
  <2>2. o = FourRoute(m, x, z, op) /\ o.op = op  BY <2>1, Alone
  <2>3. WildsOf(o) = {3}
    <3>1. WildsOf(FourRoute(m, x, z, op)) = {3}  BY <1>1, HeldFour
    <3>2. QED  BY <2>2, <3>1
  <2>4. KeyIn(o, <<"v1", x, key, z>>) = <<"v1", x, key, z>>[3]  BY <2>3, KeyOfOne
  <2>5. QED  BY <2>2, <2>4
<1>4. QED  BY <1>1, <1>2, <1>3, Reaches

LEMMA TakesRevoke ==
  ASSUME Router!RoutingAssumption, NEW key, key # Wild
  PROVE  Takes("DELETE", <<"v1", "account", "keys", key>>, "revokeApiKey", key)
<1>1. RevokeRoute \in RouteSet /\ "account" \in Router!Named /\ "keys" \in Router!Named /\ "keys" # Wild
  BY DEF RevokeRoute, RouteSet, AccountSet, Router!Named, Router!RoutingAssumption
<1>2. Router!Matches(RevokeRoute, "DELETE", <<"v1", "account", "keys", key>>)  BY DEF RevokeRoute, R, Router!Matches
<1>3. ASSUME NEW o \in RouteSet, Router!Matches(o, "DELETE", <<"v1", "account", "keys", key>>)
      PROVE  o.op = "revokeApiKey" /\ KeyIn(o, <<"v1", "account", "keys", key>>) = key
  <2>1. <<"DELETE", "account", key, o.op>> \notin FourTable  BY DEF FourTable
  <2>2. o = RevokeRoute  BY <1>1, <1>3, <2>1, MatchFour
  <2>3. o.op = "revokeApiKey"  BY <2>2 DEF RevokeRoute, R
  <2>4. WildsOf(o) = {4}  BY <1>1, <2>2, HeldIn
  <2>5. KeyIn(o, <<"v1", "account", "keys", key>>) = <<"v1", "account", "keys", key>>[4]  BY <2>4, KeyOfOne
  <2>6. QED  BY <2>3, <2>5
<1>4. QED  BY <1>1, <1>2, <1>3, Reaches

LEMMA TakesRotate ==
  ASSUME Router!RoutingAssumption, NEW key
  PROVE  Takes("POST", <<"v1", "account", "keys", key, "rotate">>, "rotateApiKey", key)
<1>1. RotateRoute \in RouteSet /\ "account" \in Router!Named /\ "keys" \in Router!Named
  BY DEF RotateRoute, RouteSet, AccountSet, Router!Named
<1>2. PICK p : p = <<"v1", "account", "keys", key, "rotate">>  OBVIOUS
<1>3. Len(p) = 5 /\ p[4] = key  BY <1>2
<1>4. Router!Matches(RotateRoute, "POST", p)  BY <1>2 DEF RotateRoute, R, Router!Matches
<1>5. ASSUME NEW o \in RouteSet, Router!Matches(o, "POST", p) PROVE o.op = "rotateApiKey" /\ KeyIn(o, p) = key
  <2>1. o = RotateRoute  BY <1>3, <1>5, ByMatch
  <2>2. o.op = "rotateApiKey"  BY <2>1 DEF RotateRoute, R
  <2>3. WildsOf(o) = {4}  BY <1>1, <2>1, HeldIn
  <2>4. QED  BY <1>3, <2>2, <2>3, KeyOfOne
<1>6. Takes("POST", p, "rotateApiKey", key)  BY <1>1, <1>4, <1>5, Reaches
<1>7. QED  BY <1>2, <1>6

(* The calls of the clients, by their shapes.                              *)
Call(m, p, op, key) == [method |-> m, path |-> p, op |-> op, key |-> key]
IsTwo(c) == \E m, x, op : <<m, x, op>> \in TwoTable /\ c = Call(m, <<"v1", x>>, op, Wild)
IsThree(c) == \E m, x, y, op : <<m, x, y, op>> \in ThreeTable /\ c = Call(m, <<"v1", x, y>>, op, Wild)
IsWild(c) == \E m, x, op : <<m, x, op>> \in WildTable /\ \E k \in PathKeys : c = Call(m, <<"v1", x, k>>, op, k)
IsFour(c) ==
  \E m, z, op : <<m, "actions", z, op>> \in FourTable /\ \E k \in PathKeys : c = Call(m, <<"v1", "actions", k, z>>, op, k)
IsRevoke(c) == \E k \in PathKeys : c = Call("DELETE", <<"v1", "account", "keys", k>>, "revokeApiKey", k)
IsRotate(c) == \E k \in PathKeys : c = Call("POST", <<"v1", "account", "keys", k, "rotate">>, "rotateApiKey", k)
IsProvision(c) == c = Call("POST", <<"v1", "orgs", "provision">>, "provisionOrg", Wild)
HasShape(c) == IsTwo(c) \/ IsThree(c) \/ IsWild(c) \/ IsFour(c) \/ IsRevoke(c) \/ IsRotate(c) \/ IsProvision(c)

LEMMA SendsNone ==
  ASSUME NEW m, NEW x, NEW op
  PROVE  Router!Plain(m, x, <<>>, op) = Call(m, <<"v1", x>>, op, Wild)
BY PathNone DEF Router!Plain, Router!Sends, Call

LEMMA SendsOne ==
  ASSUME NEW m, NEW x, NEW y, NEW op, NEW key
  PROVE  Router!Sends(m, x, <<y>>, op, key) = Call(m, <<"v1", x, y>>, op, key)
BY PathOne DEF Router!Sends, Call

LEMMA SendsTwo ==
  ASSUME NEW m, NEW x, NEW y, NEW z, NEW op, NEW key
  PROVE  Router!Sends(m, x, <<y, z>>, op, key) = Call(m, <<"v1", x, y, z>>, op, key)
BY PathTwo DEF Router!Sends, Call

LEMMA SendsThree ==
  ASSUME NEW m, NEW x, NEW y, NEW z, NEW w, NEW op, NEW key
  PROVE  Router!Sends(m, x, <<y, z, w>>, op, key) = Call(m, <<"v1", x, y, z, w>>, op, key)
BY PathThree DEF Router!Sends, Call

LEMMA MarkValues ==
  Router!ToSet(Router!Marks) = MarkNames
BY MarkList DEF Router!ToSet

LEMMA TwoShape ==
  ASSUME NEW m, NEW x, NEW op, <<m, x, op>> \in TwoTable
  PROVE  HasShape(Router!Plain(m, x, <<>>, op))
BY SendsNone DEF HasShape, IsTwo

LEMMA ThreeShape ==
  ASSUME NEW m, NEW x, NEW y, NEW op, <<m, x, y, op>> \in ThreeTable
  PROVE  HasShape(Router!Plain(m, x, <<y>>, op))
<1>1. Router!Plain(m, x, <<y>>, op) = Call(m, <<"v1", x, y>>, op, Wild)  BY SendsOne DEF Router!Plain
<1>2. QED  BY <1>1, Zenon DEF HasShape, IsThree

LEMMA WildShape ==
  ASSUME NEW m, NEW x, NEW op, <<m, x, op>> \in WildTable, NEW k \in PathKeys
  PROVE  HasShape(Router!Sends(m, x, <<k>>, op, k))
<1>1. Router!Sends(m, x, <<k>>, op, k) = Call(m, <<"v1", x, k>>, op, k)  BY SendsOne
<1>2. QED  BY <1>1, Zenon DEF HasShape, IsWild

LEMMA FourShape ==
  ASSUME NEW m, NEW z, NEW op, <<m, "actions", z, op>> \in FourTable, NEW k \in PathKeys
  PROVE  HasShape(Router!Sends(m, "actions", <<k, z>>, op, k))
<1>1. Router!Sends(m, "actions", <<k, z>>, op, k) = Call(m, <<"v1", "actions", k, z>>, op, k)  BY SendsTwo
<1>2. QED  BY <1>1, Zenon DEF HasShape, IsFour

LEMMA KeyShape ==
  ASSUME NEW k \in PathKeys
  PROVE  /\ HasShape(Router!Sends("POST", "account", <<"keys", k, "rotate">>, "rotateApiKey", k))
         /\ HasShape(Router!Sends("DELETE", "account", <<"keys", k>>, "revokeApiKey", k))
BY SendsTwo, SendsThree DEF HasShape, IsRevoke, IsRotate

LEMMA ProvisionShape ==
  HasShape(Router!Plain("POST", "orgs", <<"provision">>, "provisionOrg"))
BY SendsOne DEF HasShape, IsProvision, Router!Plain

LEMMA LedgerShapes ==
  ASSUME NEW c \in Router!LedgerCalls
  PROVE  HasShape(c)
<1>1. \/ \E k \in PathKeys : c = Router!Sends("GET", "actions", <<k>>, "getAction", k)
      \/ \E k \in PathKeys, mark \in MarkNames : c = Router!Sends("POST", "actions", <<k, mark>>, mark, k)
      \/ c = Router!Plain("POST", "actions", <<>>, "insertPending")
      \/ c = Router!Plain("GET", "actions", <<>>, "list")
      \/ c = Router!Plain("GET", "actions", <<"page">>, "pageActions")
      \/ c = Router!Plain("POST", "stats", <<>>, "stats")
  <2> DEFINE
       keyed ==
         {Router!Sends("GET", "actions", <<k>>, "getAction", k) : k \in PathKeys}
       marked ==
         {Router!Sends("POST", "actions", <<k, mark>>, mark, k) : k \in PathKeys, mark \in Router!ToSet(Router!Marks)}
       plain ==
         {Router!Plain("POST", "actions", <<>>, "insertPending"), Router!Plain("GET", "actions", <<>>, "list"),
          Router!Plain("GET", "actions", <<"page">>, "pageActions"), Router!Plain("POST", "stats", <<>>, "stats")}
  <2>1. c \in keyed \cup marked \cup plain  BY DEF Router!LedgerCalls
  <2>2. CASE c \in keyed  BY <2>2
  <2>3. CASE c \in marked  BY <2>3, MarkValues
  <2>4. CASE c \in plain  BY <2>4
  <2> HIDE DEF keyed, marked, plain
  <2>5. QED  BY <2>1, <2>2, <2>3, <2>4
<1>2. ASSUME NEW k \in PathKeys PROVE HasShape(Router!Sends("GET", "actions", <<k>>, "getAction", k))
  <2>1. <<"GET", "actions", "getAction">> \in WildTable  BY DEF WildTable
  <2>2. QED  BY <2>1, WildShape
<1>3. ASSUME NEW k \in PathKeys, NEW mark \in MarkNames
      PROVE  HasShape(Router!Sends("POST", "actions", <<k, mark>>, mark, k))
  <2>1. <<"POST", "actions", mark, mark>> \in FourTable  BY DEF FourTable
  <2>2. QED  BY <2>1, FourShape
<1>4. HasShape(Router!Plain("POST", "actions", <<>>, "insertPending"))
  <2>1. <<"POST", "actions", "insertPending">> \in TwoTable  BY DEF TwoTable
  <2>2. QED  BY <2>1, TwoShape
<1>5. HasShape(Router!Plain("GET", "actions", <<>>, "list"))
  <2>1. <<"GET", "actions", "list">> \in TwoTable  BY DEF TwoTable
  <2>2. QED  BY <2>1, TwoShape
<1>6. HasShape(Router!Plain("GET", "actions", <<"page">>, "pageActions"))
  <2>1. <<"GET", "actions", "page", "pageActions">> \in ThreeTable  BY DEF ThreeTable
  <2>2. QED  BY <2>1, ThreeShape
<1>7. HasShape(Router!Plain("POST", "stats", <<>>, "stats"))
  <2>1. <<"POST", "stats", "stats">> \in TwoTable  BY DEF TwoTable
  <2>2. QED  BY <2>1, TwoShape
<1>8. QED  BY <1>1, <1>2, <1>3, <1>4, <1>5, <1>6, <1>7

LEMMA ReadShapes ==
  ASSUME NEW c \in Router!DashboardReads
  PROVE  HasShape(c)
<1>1. \/ \E k \in PathKeys : c = Router!Sends("GET", "actions", <<k>>, "getAction", k)
      \/ \E k \in PathKeys : c = Router!Sends("GET", "actions", <<k, "events">>, "runTimeline", k)
      \/ c = Router!Plain("GET", "actions", <<>>, "list")
      \/ c = Router!Plain("GET", "actions", <<"page">>, "pageActions")
      \/ c = Router!Plain("GET", "usage", <<>>, "usage")
      \/ c = Router!Plain("GET", "events", <<>>, "listEvents")
      \/ c = Router!Plain("GET", "metrics", <<>>, "metrics")
      \/ c = Router!Plain("GET", "me", <<>>, "me")
      \/ c = Router!Plain("GET", "alert-rules", <<>>, "listAlertRules")
      \/ c = Router!Plain("GET", "account", <<"keys">>, "listApiKeys")
      \/ c = Router!Plain("GET", "audit", <<>>, "listAuditLog")
  <2> DEFINE
       keyed ==
         UNION {{Router!Sends("GET", "actions", <<k>>, "getAction", k),
          Router!Sends("GET", "actions", <<k, "events">>, "runTimeline", k)} : k \in PathKeys}
       plain ==
         {Router!Plain("GET", "actions", <<>>, "list"), Router!Plain("GET", "actions", <<"page">>, "pageActions"),
          Router!Plain("GET", "usage", <<>>, "usage"), Router!Plain("GET", "events", <<>>, "listEvents"),
          Router!Plain("GET", "metrics", <<>>, "metrics"), Router!Plain("GET", "me", <<>>, "me"),
          Router!Plain("GET", "alert-rules", <<>>, "listAlertRules"),
          Router!Plain("GET", "account", <<"keys">>, "listApiKeys"), Router!Plain("GET", "audit", <<>>, "listAuditLog")}
  <2>1. c \in keyed \cup plain  BY DEF Router!DashboardReads
  <2>2. CASE c \in keyed
    <3>1. PICK k \in PathKeys : c \in {Router!Sends("GET", "actions", <<k>>, "getAction", k),
          Router!Sends("GET", "actions", <<k, "events">>, "runTimeline", k)}
      BY <2>2
    <3>2. QED  BY <3>1
  <2>3. CASE c \in plain  BY <2>3
  <2> HIDE DEF keyed, plain
  <2>4. QED  BY <2>1, <2>2, <2>3
<1>2. ASSUME NEW k \in PathKeys PROVE HasShape(Router!Sends("GET", "actions", <<k>>, "getAction", k))
  <2>1. <<"GET", "actions", "getAction">> \in WildTable  BY DEF WildTable
  <2>2. QED  BY <2>1, WildShape
<1>3. ASSUME NEW k \in PathKeys PROVE HasShape(Router!Sends("GET", "actions", <<k, "events">>, "runTimeline", k))
  <2>1. <<"GET", "actions", "events", "runTimeline">> \in FourTable  BY DEF FourTable, MarkNames
  <2>2. QED  BY <2>1, FourShape
<1>4. HasShape(Router!Plain("GET", "actions", <<>>, "list"))
  <2>1. <<"GET", "actions", "list">> \in TwoTable  BY DEF TwoTable
  <2>2. QED  BY <2>1, TwoShape
<1>5. HasShape(Router!Plain("GET", "actions", <<"page">>, "pageActions"))
  <2>1. <<"GET", "actions", "page", "pageActions">> \in ThreeTable  BY DEF ThreeTable
  <2>2. QED  BY <2>1, ThreeShape
<1>6. HasShape(Router!Plain("GET", "usage", <<>>, "usage"))
  <2>1. <<"GET", "usage", "usage">> \in TwoTable  BY DEF TwoTable
  <2>2. QED  BY <2>1, TwoShape
<1>7. HasShape(Router!Plain("GET", "events", <<>>, "listEvents"))
  <2>1. <<"GET", "events", "listEvents">> \in TwoTable  BY DEF TwoTable
  <2>2. QED  BY <2>1, TwoShape
<1>8. HasShape(Router!Plain("GET", "metrics", <<>>, "metrics"))
  <2>1. <<"GET", "metrics", "metrics">> \in TwoTable  BY DEF TwoTable
  <2>2. QED  BY <2>1, TwoShape
<1>9. HasShape(Router!Plain("GET", "me", <<>>, "me"))
  <2>1. <<"GET", "me", "me">> \in TwoTable  BY DEF TwoTable
  <2>2. QED  BY <2>1, TwoShape
<1>10. HasShape(Router!Plain("GET", "alert-rules", <<>>, "listAlertRules"))
  <2>1. <<"GET", "alert-rules", "listAlertRules">> \in TwoTable  BY DEF TwoTable
  <2>2. QED  BY <2>1, TwoShape
<1>11. HasShape(Router!Plain("GET", "account", <<"keys">>, "listApiKeys"))
  <2>1. <<"GET", "account", "keys", "listApiKeys">> \in ThreeTable  BY DEF ThreeTable
  <2>2. QED  BY <2>1, ThreeShape
<1>12. HasShape(Router!Plain("GET", "audit", <<>>, "listAuditLog"))
  <2>1. <<"GET", "audit", "listAuditLog">> \in TwoTable  BY DEF TwoTable
  <2>2. QED  BY <2>1, TwoShape
<1>13. QED  BY <1>1, <1>2, <1>3, <1>4, <1>5, <1>6, <1>7, <1>8, <1>9, <1>10, <1>11, <1>12

LEMMA WriteShapes ==
  ASSUME NEW c \in Router!DashboardWrites
  PROVE  HasShape(c)
<1>1. \/ \E k \in PathKeys : c = Router!Sends("POST", "actions", <<k, "approved">>, "approved", k)
      \/ \E k \in PathKeys : c = Router!Sends("POST", "actions", <<k, "rejected">>, "rejected", k)
      \/ \E k \in PathKeys : c = Router!Sends("POST", "alert-rules", <<k>>, "updateAlertRule", k)
      \/ \E k \in PathKeys : c = Router!Sends("DELETE", "alert-rules", <<k>>, "deleteAlertRule", k)
      \/ \E k \in PathKeys : c = Router!Sends("POST", "account", <<"keys", k, "rotate">>, "rotateApiKey", k)
      \/ \E k \in PathKeys : c = Router!Sends("DELETE", "account", <<"keys", k>>, "revokeApiKey", k)
      \/ c = Router!Plain("POST", "billing", <<"checkout">>, "createCheckout")
      \/ c = Router!Plain("POST", "orgs", <<"provision">>, "provisionOrg")
      \/ c = Router!Plain("POST", "alert-rules", <<>>, "createAlertRule")
      \/ c = Router!Plain("POST", "account", <<"keys">>, "createApiKey")
      \/ c = Router!Plain("POST", "billing", <<"portal">>, "createBillingPortal")
      \/ c = Router!Plain("POST", "onboarding", <<"sample">>, "seedSampleData")
  <2> DEFINE
       keyed ==
         UNION {{Router!Sends("POST", "actions", <<k, "approved">>, "approved", k),
          Router!Sends("POST", "actions", <<k, "rejected">>, "rejected", k),
          Router!Sends("POST", "alert-rules", <<k>>, "updateAlertRule", k),
          Router!Sends("DELETE", "alert-rules", <<k>>, "deleteAlertRule", k),
          Router!Sends("POST", "account", <<"keys", k, "rotate">>, "rotateApiKey", k),
          Router!Sends("DELETE", "account", <<"keys", k>>, "revokeApiKey", k)} : k \in PathKeys}
       plain ==
         {Router!Plain("POST", "billing", <<"checkout">>, "createCheckout"),
          Router!Plain("POST", "orgs", <<"provision">>, "provisionOrg"),
          Router!Plain("POST", "alert-rules", <<>>, "createAlertRule"),
          Router!Plain("POST", "account", <<"keys">>, "createApiKey"),
          Router!Plain("POST", "billing", <<"portal">>, "createBillingPortal"),
          Router!Plain("POST", "onboarding", <<"sample">>, "seedSampleData")}
  <2>1. c \in keyed \cup plain  BY DEF Router!DashboardWrites
  <2>2. CASE c \in keyed
    <3>1. PICK k \in PathKeys : c \in {Router!Sends("POST", "actions", <<k, "approved">>, "approved", k),
          Router!Sends("POST", "actions", <<k, "rejected">>, "rejected", k),
          Router!Sends("POST", "alert-rules", <<k>>, "updateAlertRule", k),
          Router!Sends("DELETE", "alert-rules", <<k>>, "deleteAlertRule", k),
          Router!Sends("POST", "account", <<"keys", k, "rotate">>, "rotateApiKey", k),
          Router!Sends("DELETE", "account", <<"keys", k>>, "revokeApiKey", k)}
      BY <2>2
    <3>2. QED  BY <3>1
  <2>3. CASE c \in plain  BY <2>3
  <2> HIDE DEF keyed, plain
  <2>4. QED  BY <2>1, <2>2, <2>3
<1>2. ASSUME NEW k \in PathKeys PROVE HasShape(Router!Sends("POST", "actions", <<k, "approved">>, "approved", k))
  <2>1. <<"POST", "actions", "approved", "approved">> \in FourTable  BY DEF FourTable, MarkNames
  <2>2. QED  BY <2>1, FourShape
<1>3. ASSUME NEW k \in PathKeys PROVE HasShape(Router!Sends("POST", "actions", <<k, "rejected">>, "rejected", k))
  <2>1. <<"POST", "actions", "rejected", "rejected">> \in FourTable  BY DEF FourTable, MarkNames
  <2>2. QED  BY <2>1, FourShape
<1>4. ASSUME NEW k \in PathKeys PROVE HasShape(Router!Sends("POST", "alert-rules", <<k>>, "updateAlertRule", k))
  <2>1. <<"POST", "alert-rules", "updateAlertRule">> \in WildTable  BY DEF WildTable
  <2>2. QED  BY <2>1, WildShape
<1>5. ASSUME NEW k \in PathKeys PROVE HasShape(Router!Sends("DELETE", "alert-rules", <<k>>, "deleteAlertRule", k))
  <2>1. <<"DELETE", "alert-rules", "deleteAlertRule">> \in WildTable  BY DEF WildTable
  <2>2. QED  BY <2>1, WildShape
<1>6. ASSUME NEW k \in PathKeys
      PROVE  HasShape(Router!Sends("POST", "account", <<"keys", k, "rotate">>, "rotateApiKey", k))
  BY KeyShape
<1>7. ASSUME NEW k \in PathKeys
      PROVE  HasShape(Router!Sends("DELETE", "account", <<"keys", k>>, "revokeApiKey", k))
  BY KeyShape
<1>8. HasShape(Router!Plain("POST", "billing", <<"checkout">>, "createCheckout"))
  <2>1. <<"POST", "billing", "checkout", "createCheckout">> \in ThreeTable  BY DEF ThreeTable
  <2>2. QED  BY <2>1, ThreeShape
<1>9. HasShape(Router!Plain("POST", "orgs", <<"provision">>, "provisionOrg"))  BY ProvisionShape
<1>10. HasShape(Router!Plain("POST", "alert-rules", <<>>, "createAlertRule"))
  <2>1. <<"POST", "alert-rules", "createAlertRule">> \in TwoTable  BY DEF TwoTable
  <2>2. QED  BY <2>1, TwoShape
<1>11. HasShape(Router!Plain("POST", "account", <<"keys">>, "createApiKey"))
  <2>1. <<"POST", "account", "keys", "createApiKey">> \in ThreeTable  BY DEF ThreeTable
  <2>2. QED  BY <2>1, ThreeShape
<1>12. HasShape(Router!Plain("POST", "billing", <<"portal">>, "createBillingPortal"))
  <2>1. <<"POST", "billing", "portal", "createBillingPortal">> \in ThreeTable  BY DEF ThreeTable
  <2>2. QED  BY <2>1, ThreeShape
<1>13. HasShape(Router!Plain("POST", "onboarding", <<"sample">>, "seedSampleData"))
  <2>1. <<"POST", "onboarding", "sample", "seedSampleData">> \in ThreeTable  BY DEF ThreeTable
  <2>2. QED  BY <2>1, ThreeShape
<1>14. QED  BY <1>1, <1>2, <1>3, <1>4, <1>5, <1>6, <1>7, <1>8, <1>9, <1>10, <1>11, <1>12, <1>13

(* What is served without authentication.                                  *)
LEMMA PublicTable ==
  Router!PublicRoutes =
    << R({"GET"}, <<>>, "index"), R({"GET"}, <<"health">>, "health"),
       R({"POST"}, <<"v1", "webhooks", "paddle">>, "handlePaddleWebhook"),
       R({"POST"}, <<"v1", "orgs", "provision">>, "provisionOrg") >>
<1>1. /\ Router!Route({"GET"}, <<>>, "index") = R({"GET"}, <<>>, "index")
      /\ Router!Route({"GET"}, <<"health">>, "health") = R({"GET"}, <<"health">>, "health")
  BY Routes
<1>2. /\ Router!In("webhooks", <<"paddle">>, "POST", "handlePaddleWebhook") =
           R({"POST"}, <<"v1", "webhooks", "paddle">>, "handlePaddleWebhook")
      /\ Router!In("orgs", <<"provision">>, "POST", "provisionOrg") =
           R({"POST"}, <<"v1", "orgs", "provision">>, "provisionOrg")
  BY Ins
<1>3. QED  BY <1>1, <1>2 DEF Router!PublicRoutes

LEMMA PublicPath ==
  ASSUME Router!RoutingAssumption, NEW i \in 1 .. 4, NEW m, NEW p, Len(p) >= 2, 2 \in DOMAIN p,
         Router!Matches(Router!PublicRoutes[i], m, p)
  PROVE  p[2] \in {"webhooks", "orgs"} /\ i >= 3
<1>1. "webhooks" # Wild /\ "orgs" # Wild  BY DEF Router!RoutingAssumption, Router!Named
<1>2. PICK all : all = Router!PublicRoutes  OBVIOUS
<1>3. /\ all[1] = R({"GET"}, <<>>, "index") /\ all[2] = R({"GET"}, <<"health">>, "health")
      /\ all[3] = R({"POST"}, <<"v1", "webhooks", "paddle">>, "handlePaddleWebhook")
      /\ all[4] = R({"POST"}, <<"v1", "orgs", "provision">>, "provisionOrg")
  BY <1>2, PublicTable
<1>4. Len(all[i].path) = Len(p) /\ all[i].path[2] \in {p[2], Wild}  BY <1>2 DEF Router!Matches
<1>5. /\ Len(all[1].path) = 0 /\ Len(all[2].path) = 1
      /\ all[3].path[2] = "webhooks" /\ all[4].path[2] = "orgs"
  BY <1>3 DEF R
<1>6. i # 1 /\ i # 2  BY <1>4, <1>5
<1>7. CASE i = 3  BY <1>1, <1>4, <1>5, <1>7
<1>8. CASE i = 4  BY <1>1, <1>4, <1>5, <1>8
<1>9. QED  BY <1>6, <1>7, <1>8

LEMMA PublicNone ==
  ASSUME Router!RoutingAssumption, NEW m, NEW p, Len(p) >= 2, 2 \in DOMAIN p, p[2] \notin {"webhooks", "orgs"}
  PROVE  Router!Dispatch(Router!PublicRoutes, m, p) = {}
<1>1. PICK n \in Nat : n = 4  OBVIOUS
<1>2. PICK all : all = Router!PublicRoutes  OBVIOUS
<1>3. Len(all) = n  BY <1>1, <1>2, PublicTable
<1>4. \A i \in 1 .. n : ~Router!Matches(all[i], m, p)  BY <1>1, <1>2, PublicPath
<1>5. QED  BY <1>2, <1>3, <1>4, DispatchNone

LEMMA PublicProvision ==
  ASSUME Router!RoutingAssumption
  PROVE  Router!Dispatch(Router!PublicRoutes, "POST", <<"v1", "orgs", "provision">>)
           = {[op |-> "provisionOrg", key |-> Wild]}
<1>1. PICK m, x, y : m = "POST" /\ x = "orgs" /\ y = "provision"  OBVIOUS
<1>2. PICK p : p = <<"v1", x, y>>  OBVIOUS
<1>3. PICK n \in Nat : n = 4  OBVIOUS
<1>4. PICK i \in 1 .. n : i = 4  BY <1>3
<1>5. PICK all : all = Router!PublicRoutes  OBVIOUS
<1>6. /\ Len(all) = n /\ all[i] = ThreeRoute(m, x, y, "provisionOrg")
      /\ all[3] = R({"POST"}, <<"v1", "webhooks", "paddle">>, "handlePaddleWebhook")
  BY <1>1, <1>3, <1>4, <1>5, PublicTable DEF ThreeRoute
<1>7. Len(p) = 3 /\ 2 \in DOMAIN p /\ p[2] = "orgs"  BY <1>1, <1>2
<1>8. Router!Matches(all[i], m, p)  BY <1>2, <1>6 DEF ThreeRoute, R, Router!Matches
<1>9. PICK j \in 1 .. i : /\ Router!Matches(all[j], m, p)
                          /\ Router!Dispatch(all, m, p) = {[op |-> all[j].op, key |-> KeyIn(all[j], p)]}
  BY <1>6, <1>8, DispatchFirst
<1>10. j >= 3  BY <1>4, <1>5, <1>7, <1>9, PublicPath
<1>11. j # 3
  <2>1. SUFFICES ASSUME j = 3 PROVE FALSE  OBVIOUS
  <2>2. all[3].path[2] \in {p[2], Wild}  BY <1>7, <1>9, <2>1 DEF Router!Matches
  <2>3. all[3].path[2] = "webhooks"  BY <1>6 DEF R
  <2>4. "webhooks" # Wild  BY DEF Router!RoutingAssumption, Router!Named
  <2>5. QED  BY <1>7, <2>2, <2>3, <2>4
<1>12. j = i  BY <1>4, <1>10, <1>11
<1>13. all[i].op = "provisionOrg"  BY <1>6 DEF ThreeRoute, R
<1>14. WildsOf(all[i]) = {}
  <2>1. x \in Router!Named /\ y \in Router!Named  BY <1>1 DEF Router!Named
  <2>2. WildsOf(R({m}, <<"v1", x, y>>, "provisionOrg")) = {}  BY <2>1, HeldIn
  <2>3. QED  BY <1>6, <2>2 DEF ThreeRoute
<1>15. KeyIn(all[i], p) = Wild  BY <1>14, KeyOfNone
<1>16. QED  BY <1>1, <1>2, <1>5, <1>9, <1>12, <1>13, <1>15

(* What a call leads to.                                                   *)
PublicOf(c) == Router!Dispatch(Router!PublicRoutes, c.method, c.path)
FoundOf(c) == Router!Dispatch(Router!OrgRoutes, c.method, c.path)
Led(c) ==
  /\ c.key \in PathKeys \cup {Wild} /\ c.op # "none"
  /\ \/ /\ PublicOf(c) = {}
        /\ \/ FoundOf(c) = {[op |-> c.op, key |-> c.key]}
           \/ Shadowed(c) /\ FoundOf(c) = {[op |-> "pageActions", key |-> Wild]}
     \/ PublicOf(c) = {[op |-> c.op, key |-> c.key]}

LEMMA TwoSegments ==
  ASSUME Router!RoutingAssumption, NEW m, NEW x, x \notin {"webhooks", "orgs"}
  PROVE  Router!Dispatch(Router!PublicRoutes, m, <<"v1", x>>) = {}
<1>1. PICK p : p = <<"v1", x>>  OBVIOUS
<1>2. Len(p) >= 2 /\ 2 \in DOMAIN p /\ p[2] \notin {"webhooks", "orgs"}  BY <1>1
<1>3. QED  BY <1>1, <1>2, PublicNone

LEMMA ThreeSegments ==
  ASSUME Router!RoutingAssumption, NEW m, NEW x, x \notin {"webhooks", "orgs"}, NEW y
  PROVE  Router!Dispatch(Router!PublicRoutes, m, <<"v1", x, y>>) = {}
<1>1. PICK p : p = <<"v1", x, y>>  OBVIOUS
<1>2. Len(p) >= 2 /\ 2 \in DOMAIN p /\ p[2] \notin {"webhooks", "orgs"}  BY <1>1
<1>3. QED  BY <1>1, <1>2, PublicNone

LEMMA FourSegments ==
  ASSUME Router!RoutingAssumption, NEW m, NEW x, x \notin {"webhooks", "orgs"}, NEW y, NEW z
  PROVE  Router!Dispatch(Router!PublicRoutes, m, <<"v1", x, y, z>>) = {}
<1>1. PICK p : p = <<"v1", x, y, z>>  OBVIOUS
<1>2. Len(p) >= 2 /\ 2 \in DOMAIN p /\ p[2] \notin {"webhooks", "orgs"}  BY <1>1
<1>3. QED  BY <1>1, <1>2, PublicNone

LEMMA FiveSegments ==
  ASSUME Router!RoutingAssumption, NEW m, NEW x, x \notin {"webhooks", "orgs"}, NEW y, NEW z, NEW w
  PROVE  Router!Dispatch(Router!PublicRoutes, m, <<"v1", x, y, z, w>>) = {}
<1>1. PICK p : p = <<"v1", x, y, z, w>>  OBVIOUS
<1>2. Len(p) >= 2 /\ 2 \in DOMAIN p /\ p[2] \notin {"webhooks", "orgs"}  BY <1>1
<1>3. QED  BY <1>1, <1>2, PublicNone

LEMMA OfCall ==
  ASSUME NEW m, NEW p, NEW op, NEW key, NEW c, c = Call(m, p, op, key)
  PROVE  /\ c.method = m /\ c.path = p /\ c.op = op /\ c.key = key
         /\ PublicOf(c) = Router!Dispatch(Router!PublicRoutes, m, p)
         /\ Takes(m, p, op, key) => FoundOf(c) = {[op |-> op, key |-> key]}
<1>1. c.method = m /\ c.path = p /\ c.op = op /\ c.key = key  BY DEF Call
<1>2. QED  BY <1>1 DEF PublicOf, FoundOf, Takes

LEMMA TablesAre ==
  /\ \A m, x, op : <<m, x, op>> \in TwoTable => x \notin {"webhooks", "orgs"} /\ op # "none"
  /\ \A m, x, y, op : <<m, x, y, op>> \in ThreeTable => x \notin {"webhooks", "orgs"} /\ op # "none"
  /\ \A m, x, op : <<m, x, op>> \in WildTable => x \notin {"webhooks", "orgs"} /\ op # "none"
  /\ \A m, x, z, op : <<m, x, z, op>> \in FourTable => op # "none"
  /\ \A m, x, y : <<m, x, y, "pageActions">> \in ThreeTable => m = "GET" /\ x = "actions" /\ y = "page"
  /\ \A m, x : <<m, x, "getAction">> \in WildTable => m = "GET" /\ x = "actions"
BY DEF TwoTable, ThreeTable, WildTable, FourTable, MarkNames

LEMMA CallLed ==
  ASSUME Router!RoutingAssumption, NEW c \in AllCalls
  PROVE  Led(c)
<1>1. HasShape(c)  BY LedgerShapes, ReadShapes, WriteShapes DEF AllCalls
<1>2. Wild \notin PathKeys  BY DEF Router!RoutingAssumption
<1>3. CASE IsTwo(c)
  <2>1. PICK m, x, op : <<m, x, op>> \in TwoTable /\ c = Call(m, <<"v1", x>>, op, Wild)  BY <1>3 DEF IsTwo
  <2>2. x \notin {"webhooks", "orgs"} /\ op # "none"  BY <2>1, TablesAre
  <2>3. Takes(m, <<"v1", x>>, op, Wild)  BY <2>1, TakesTwo
  <2>4. Router!Dispatch(Router!PublicRoutes, m, <<"v1", x>>) = {}  BY <2>2, TwoSegments
  <2>5. /\ c.op = op /\ c.key = Wild /\ PublicOf(c) = {} /\ FoundOf(c) = {[op |-> op, key |-> Wild]}
    BY <2>1, <2>3, <2>4, OfCall
  <2>6. QED  BY <2>2, <2>5 DEF Led
<1>4. CASE IsThree(c)
  <2>1. PICK m, x, y, op : <<m, x, y, op>> \in ThreeTable /\ c = Call(m, <<"v1", x, y>>, op, Wild)  BY <1>4 DEF IsThree
  <2>2. x \notin {"webhooks", "orgs"} /\ op # "none"  BY <2>1, TablesAre
  <2>3. Takes(m, <<"v1", x, y>>, op, Wild)
    <3>1. CASE op # "pageActions"  BY <2>1, <3>1, TakesThree
    <3>2. CASE op = "pageActions"
      <4>1. m = "GET" /\ x = "actions" /\ y = "page"  BY <2>1, <3>2, TablesAre
      <4>2. QED  BY <3>2, <4>1, TakesPage
    <3>3. QED  BY <3>1, <3>2
  <2>4. Router!Dispatch(Router!PublicRoutes, m, <<"v1", x, y>>) = {}  BY <2>2, ThreeSegments
  <2>5. /\ c.op = op /\ c.key = Wild /\ PublicOf(c) = {} /\ FoundOf(c) = {[op |-> op, key |-> Wild]}
    BY <2>1, <2>3, <2>4, OfCall
  <2>6. QED  BY <2>2, <2>5 DEF Led
<1>5. CASE IsWild(c)
  <2>1. PICK m, x, op : <<m, x, op>> \in WildTable /\ \E k \in PathKeys : c = Call(m, <<"v1", x, k>>, op, k)
    BY <1>5 DEF IsWild
  <2>2. PICK k \in PathKeys : c = Call(m, <<"v1", x, k>>, op, k)  BY <2>1
  <2>3. x \notin {"webhooks", "orgs"} /\ op # "none" /\ k # Wild  BY <1>2, <2>1, TablesAre
  <2>4. Router!Dispatch(Router!PublicRoutes, m, <<"v1", x, k>>) = {}  BY <2>3, ThreeSegments
  <2>5. c.op = op /\ c.key = k /\ c.method = m /\ c.path = <<"v1", x, k>> /\ PublicOf(c) = {}  BY <2>2, <2>4, OfCall
  <2>6. CASE ~(op = "getAction" /\ k = "page")
    <3>1. Takes(m, <<"v1", x, k>>, op, k)  BY <2>1, <2>3, <2>6, TakesWild
    <3>2. FoundOf(c) = {[op |-> op, key |-> k]}  BY <2>2, <3>1, OfCall
    <3>3. QED  BY <2>3, <2>5, <3>2 DEF Led
  <2>7. CASE op = "getAction" /\ k = "page"
    <3>1. m = "GET" /\ x = "actions"  BY <2>1, <2>7, TablesAre
    <3>2. Takes(m, <<"v1", x, k>>, "pageActions", Wild)  BY <2>7, <3>1, TakesPage
    <3>3. FoundOf(c) = {[op |-> "pageActions", key |-> Wild]}  BY <2>5, <3>2 DEF FoundOf, Takes
    <3>4. QED  BY <2>3, <2>5, <2>7, <3>3 DEF Led, Shadowed
  <2>8. QED  BY <2>6, <2>7
<1>6. CASE IsFour(c)
  <2>1. PICK m, z, op : /\ <<m, "actions", z, op>> \in FourTable
                        /\ \E k \in PathKeys : c = Call(m, <<"v1", "actions", k, z>>, op, k)
    BY <1>6 DEF IsFour
  <2>2. PICK k \in PathKeys : c = Call(m, <<"v1", "actions", k, z>>, op, k)  BY <2>1
  <2>3. op # "none" /\ k # Wild /\ "actions" # "account" /\ "actions" \notin {"webhooks", "orgs"}
    BY <1>2, <2>1, TablesAre
  <2>4. Takes(m, <<"v1", "actions", k, z>>, op, k)  BY <2>1, <2>3, TakesFour
  <2>5. Router!Dispatch(Router!PublicRoutes, m, <<"v1", "actions", k, z>>) = {}  BY <2>3, FourSegments
  <2>6. c.op = op /\ c.key = k /\ PublicOf(c) = {} /\ FoundOf(c) = {[op |-> op, key |-> k]}
    BY <2>2, <2>4, <2>5, OfCall
  <2>7. QED  BY <2>3, <2>6 DEF Led
<1>7. CASE IsRevoke(c)
  <2>1. PICK k \in PathKeys : c = Call("DELETE", <<"v1", "account", "keys", k>>, "revokeApiKey", k)  BY <1>7 DEF IsRevoke
  <2>2. k # Wild /\ "account" \notin {"webhooks", "orgs"}  BY <1>2
  <2>3. Takes("DELETE", <<"v1", "account", "keys", k>>, "revokeApiKey", k)  BY <2>2, TakesRevoke
  <2>4. Router!Dispatch(Router!PublicRoutes, "DELETE", <<"v1", "account", "keys", k>>) = {}  BY <2>2, FourSegments
  <2>5. c.op = "revokeApiKey" /\ c.key = k /\ PublicOf(c) = {} /\ FoundOf(c) = {[op |-> "revokeApiKey", key |-> k]}
    BY <2>1, <2>3, <2>4, OfCall
  <2>6. QED  BY <2>5 DEF Led
<1>8. CASE IsRotate(c)
  <2>1. PICK k \in PathKeys : c = Call("POST", <<"v1", "account", "keys", k, "rotate">>, "rotateApiKey", k)
    BY <1>8 DEF IsRotate
  <2>2. "account" \notin {"webhooks", "orgs"}  OBVIOUS
  <2>3. Takes("POST", <<"v1", "account", "keys", k, "rotate">>, "rotateApiKey", k)  BY TakesRotate
  <2>4. Router!Dispatch(Router!PublicRoutes, "POST", <<"v1", "account", "keys", k, "rotate">>) = {}
    BY <2>2, FiveSegments
  <2>5. c.op = "rotateApiKey" /\ c.key = k /\ PublicOf(c) = {} /\ FoundOf(c) = {[op |-> "rotateApiKey", key |-> k]}
    BY <2>1, <2>3, <2>4, OfCall
  <2>6. QED  BY <2>5 DEF Led
<1>9. CASE IsProvision(c)
  <2>1. c = Call("POST", <<"v1", "orgs", "provision">>, "provisionOrg", Wild)  BY <1>9 DEF IsProvision
  <2>2. c.op = "provisionOrg" /\ c.key = Wild /\ PublicOf(c) = {[op |-> "provisionOrg", key |-> Wild]}
    BY <2>1, PublicProvision, OfCall
  <2>3. QED  BY <2>2 DEF Led
<1>10. QED  BY <1>1, <1>3, <1>4, <1>5, <1>6, <1>7, <1>8, <1>9 DEF HasShape

(* The invariant of routing: what was executed is what the request under   *)
(* way was made for, and an answer that a client takes for a mark made is  *)
(* not the router's.                                                       *)
Request == sent # Router!NoRequest => sent.call \in AllCalls
Replied == reply \in [status : Nat, outcome : {"none", "returned", "threw"}]
NotYet == sent = Router!NoRequest \/ reply = Router!NoReply => executed = Router!Nothing
Unasked == sent = Router!NoRequest => reply = Router!NoReply
Arrived ==
  /\ executed.key \in PathKeys \cup {Wild}
  /\ executed # Router!Nothing =>
       /\ executed.org = sent.org
       /\ executed = [op |-> sent.call.op, key |-> sent.call.key, org |-> sent.org] \/ Shadowed(sent.call)
Accepted ==
  /\ reply.status \in 200 .. 299 \cup {404} /\ sent.call.op \in MarkNames => executed.op = sent.call.op \/ Router!Wrapped
  /\ reply.outcome = "returned" => reply.status \in 200 .. 299 \cup {404}
RouteInv == Request /\ Replied /\ NotYet /\ Unasked /\ Arrived /\ Accepted

LEMMA RouteInit ==
  Router!Init => RouteInv
BY DEF Router!Init, RouteInv, Request, Replied, NotYet, Unasked, Arrived, Accepted, Router!NoReply, Router!Nothing

LEMMA AskStep ==
  ASSUME RouteInv, NEW c \in AllCalls, NEW who, NEW org, NEW secret, NEW bearer, NEW idempotent,
         sent = Router!NoRequest,
         sent' = [client |-> who, call |-> c, secret |-> secret, bearer |-> bearer, org |-> org,
                  idempotent |-> idempotent],
         UNCHANGED <<executed, reply>>
  PROVE  RouteInv'
<1>1. executed' = Router!Nothing /\ reply' = Router!NoReply /\ Replied
  BY DEF RouteInv, NotYet, Unasked
<1>2. sent'.call = c  OBVIOUS
<1>3. Request'  BY <1>2 DEF Request
<1>4. Replied'  BY <1>1 DEF Replied, Router!NoReply
<1>5. NotYet' /\ Unasked'  BY <1>1 DEF NotYet, Unasked, Router!Nothing, Router!NoReply
<1>6. Arrived'  BY <1>1 DEF Arrived, Router!Nothing
<1>7. Accepted'  BY <1>1 DEF Accepted, Router!NoReply
<1>8. QED  BY <1>3, <1>4, <1>5, <1>6, <1>7 DEF RouteInv

LEMMA ReceiveStep ==
  ASSUME RouteInv, Router!Receive
  PROVE  RouteInv'
<1>1. /\ reply.status # 0 /\ sent' = sent /\ executed' = executed
      /\ reply' = [reply EXCEPT !.outcome =
           IF reply.status \in 200 .. 299 \/ (sent.client = "ledger" /\ reply.status = 404) THEN "returned" ELSE "threw"]
  BY DEF Router!Receive
<1>2. /\ reply' \in [status : Nat, outcome : {"none", "returned", "threw"}] /\ reply'.status = reply.status
      /\ reply'.outcome = "returned" => reply.status \in 200 .. 299 \cup {404}
  BY <1>1 DEF RouteInv, Replied
<1>3. reply # Router!NoReply  BY <1>1 DEF Router!NoReply
<1>4. reply' # Router!NoReply /\ sent # Router!NoRequest  BY <1>1, <1>2, <1>3 DEF Router!NoReply, RouteInv, Unasked
<1>5. Request' /\ Arrived'  BY <1>1 DEF RouteInv, Request, Arrived, Router!NoRequest, Router!Nothing, Shadowed, AllCalls
<1>6. Replied'  BY <1>2 DEF Replied
<1>7. NotYet' /\ Unasked'  BY <1>1, <1>4 DEF NotYet, Unasked, Router!NoRequest, Router!NoReply
<1>8. Accepted'  BY <1>1, <1>2 DEF RouteInv, Accepted, Router!Wrapped
<1>9. QED  BY <1>5, <1>6, <1>7, <1>8 DEF RouteInv

LEMMA DoneStep ==
  ASSUME Router!Done
  PROVE  RouteInv'
<1>1. sent' = Router!NoRequest /\ executed' = Router!Nothing /\ reply' = Router!NoReply  BY DEF Router!Done
<1>2. QED  BY <1>1 DEF RouteInv, Request, Replied, NotYet, Unasked, Arrived, Accepted, Router!NoReply, Router!Nothing

(* A response with nothing executed.                                       *)
LEMMA RefuseStep ==
  ASSUME RouteInv, sent # Router!NoRequest, reply = Router!NoReply, NEW status \in Nat \ {0}, Router!Respond(status),
         UNCHANGED <<sent, executed>>,
         status \notin 200 .. 299 \cup {404} \/ Router!Wrapped
  PROVE  RouteInv'
<1>1. /\ reply' = [status |-> status, outcome |-> "none"] /\ executed' = executed /\ sent' = sent
      /\ executed = Router!Nothing
  BY DEF Router!Respond, Router!NoReply, RouteInv, NotYet
<1>2. reply'.status = status /\ reply'.outcome = "none" /\ reply' # Router!NoReply  BY <1>1 DEF Router!NoReply
<1>3. Request'  BY <1>1 DEF RouteInv, Request
<1>4. Replied'  BY <1>1 DEF Replied
<1>5. NotYet' /\ Unasked'  BY <1>1, <1>2 DEF NotYet, Unasked
<1>6. Arrived'  BY <1>1 DEF RouteInv, Arrived
<1>7. Accepted'  BY <1>1, <1>2 DEF Accepted, Router!Wrapped
<1>8. QED  BY <1>3, <1>4, <1>5, <1>6, <1>7 DEF RouteInv

(* A response of the handler that a route names.                           *)
LEMMA ExecuteStep ==
  ASSUME RouteInv, sent # Router!NoRequest, reply = Router!NoReply, NEW status \in Nat \ {0}, Router!Respond(status),
         sent' = sent, NEW route, Router!Execute(route, sent.org), Led(sent.call),
         route \in PublicOf(sent.call) \/ (PublicOf(sent.call) = {} /\ route \in FoundOf(sent.call))
  PROVE  RouteInv'
<1>1. /\ reply' = [status |-> status, outcome |-> "none"]
      /\ executed' = [op |-> route.op, key |-> route.key, org |-> sent.org]
  BY DEF Router!Respond, Router!NoReply, Router!Execute
<1>2. reply'.status = status /\ reply'.outcome = "none" /\ reply' # Router!NoReply  BY <1>1 DEF Router!NoReply
<1>3. /\ sent.call.key \in PathKeys \cup {Wild}
      /\ \/ route = [op |-> sent.call.op, key |-> sent.call.key]
         \/ Shadowed(sent.call) /\ route = [op |-> "pageActions", key |-> Wild]
  BY DEF Led
<1>4. route.key \in PathKeys \cup {Wild}  BY <1>3
<1>5. /\ executed'.key = route.key /\ executed'.org = sent.org /\ executed'.op = route.op  BY <1>1
<1>6. executed' = [op |-> sent.call.op, key |-> sent.call.key, org |-> sent.org] \/ Shadowed(sent.call)
  BY <1>1, <1>3
<1>7. Request'  BY DEF RouteInv, Request
<1>8. Replied'  BY <1>1 DEF Replied
<1>9. NotYet' /\ Unasked'  BY <1>2 DEF NotYet, Unasked
<1>10. Arrived'
  <2>1. Shadowed(sent.call) => Shadowed(sent'.call)  BY DEF Shadowed
  <2>2. QED  BY <1>4, <1>5, <1>6, <2>1 DEF Arrived
<1>11. Accepted'
  <2>1. sent.call.op \in MarkNames => ~Shadowed(sent.call)  BY DEF MarkNames, Shadowed
  <2>2. sent.call.op \in MarkNames => executed'.op = sent.call.op  BY <1>3, <1>5, <2>1
  <2>3. QED  BY <1>2, <2>2 DEF Accepted
<1>12. QED  BY <1>7, <1>8, <1>9, <1>10, <1>11 DEF RouteInv

LEMMA HandleStep ==
  ASSUME Router!RoutingAssumption, RouteInv, Router!HandleRequest
  PROVE  RouteInv'
<1>1. /\ sent # Router!NoRequest /\ reply = Router!NoReply /\ sent' = sent
  BY DEF Router!HandleRequest
<1>2. Led(sent.call)  BY <1>1, CallLed DEF RouteInv, Request
<1>3. \A op : Router!Statuses(op) \subseteq Nat \ {0}  BY DEF Router!Statuses
<1>4. ASSUME NEW route, NEW status, status \in Router!Statuses(route.op), Router!Respond(status),
             Router!Execute(route, sent.org),
             route \in PublicOf(sent.call) \/ (PublicOf(sent.call) = {} /\ route \in FoundOf(sent.call))
      PROVE  RouteInv'
  <2>1. status \in Nat \ {0}  BY <1>3, <1>4
  <2>2. QED  BY <1>1, <1>2, <1>4, <2>1, ExecuteStep
<1>5. ASSUME NEW status \in {401, 409, 422}, Router!Respond(status), UNCHANGED executed PROVE RouteInv'
  <2>1. status \in Nat \ {0} /\ status \notin 200 .. 299 \cup {404}  OBVIOUS
  <2>2. QED  BY <1>1, <1>5, <2>1, RefuseStep
<1>6. ASSUME Router!Wrapped, Router!Respond(200), UNCHANGED executed PROVE RouteInv'
  <2>1. 200 \in Nat \ {0}  OBVIOUS
  <2>2. QED  BY <1>1, <1>6, <2>1, RefuseStep
<1>7. \/ \E route \in PublicOf(sent.call) :
           \/ Router!Respond(401) /\ UNCHANGED executed
           \/ Router!Execute(route, sent.org) /\ \E status \in Router!Statuses(route.op) : Router!Respond(status)
      \/ Router!Respond(401) /\ UNCHANGED executed
      \/ PublicOf(sent.call) = {} /\ FoundOf(sent.call) = {}
      \/ /\ PublicOf(sent.call) = {}
         /\ \E route \in FoundOf(sent.call) :
              Router!Execute(route, sent.org) /\ \E status \in Router!Statuses(route.op) : Router!Respond(status)
      \/ Router!Wrapped /\ \E status \in {200, 409, 422} : Router!Respond(status) /\ UNCHANGED executed
  BY DEF Router!HandleRequest, PublicOf, FoundOf
<1>8. ~(PublicOf(sent.call) = {} /\ FoundOf(sent.call) = {})  BY <1>2 DEF Led
<1>9. QED  BY <1>4, <1>5, <1>6, <1>7, <1>8

LEMMA RouteNext ==
  ASSUME Router!RoutingAssumption, RouteInv, [Router!Next]_Router!routingVars
  PROVE  RouteInv'
<1>1. CASE \E org \in Orgs, c \in Router!LedgerCalls, bearer \in {"live", "revoked"}, idempotent \in BOOLEAN :
             Router!LedgerAsks(c, org, bearer, idempotent)
  <2>1. PICK org \in Orgs, c \in Router!LedgerCalls, bearer \in {"live", "revoked"}, idempotent \in BOOLEAN :
             Router!LedgerAsks(c, org, bearer, idempotent)
    BY <1>1
  <2>2. c \in AllCalls  BY DEF AllCalls
  <2>3. /\ sent = Router!NoRequest /\ UNCHANGED <<executed, reply>>
        /\ sent' = [client |-> "ledger", call |-> c, secret |-> "none", bearer |-> bearer, org |-> org,
                    idempotent |-> idempotent]
    BY <2>1 DEF Router!LedgerAsks
  <2>4. QED  BY <2>2, <2>3, AskStep
<1>2. CASE \E org \in Orgs, c \in Router!DashboardReads \cup Router!DashboardWrites, secret \in {"right", "wrong"} :
             Router!DashboardAsks(c, org, secret)
  <2>1. PICK org \in Orgs, c \in Router!DashboardReads \cup Router!DashboardWrites, secret \in {"right", "wrong"} :
             Router!DashboardAsks(c, org, secret)
    BY <1>2
  <2>2. c \in AllCalls  BY DEF AllCalls
  <2>3. /\ sent = Router!NoRequest /\ UNCHANGED <<executed, reply>>
        /\ sent' = [client |-> "dashboard", call |-> c, secret |-> secret, bearer |-> "none", org |-> org,
                    idempotent |-> FALSE]
    BY <2>1 DEF Router!DashboardAsks
  <2>4. QED  BY <2>2, <2>3, AskStep
<1>3. CASE Router!HandleRequest  BY <1>3, HandleStep
<1>4. CASE Router!Receive  BY <1>4, ReceiveStep
<1>5. CASE Router!Done  BY <1>5, DoneStep
<1>6. CASE UNCHANGED Router!routingVars
  <2>1. sent' = sent /\ executed' = executed /\ reply' = reply  BY <1>6 DEF Router!routingVars
  <2>2. QED
    BY <2>1 DEF RouteInv, Request, Replied, NotYet, Unasked, Arrived, Accepted, Shadowed, AllCalls,
       Router!Wrapped, Router!NoRequest, Router!NoReply, Router!Nothing
<1>7. QED  BY <1>1, <1>2, <1>3, <1>4, <1>5, <1>6 DEF Router!Next

LEMMA RouteSafe ==
  ASSUME RouteInv
  PROVE  RequestsArrive
<1>1. Router!TypeOK  BY DEF RouteInv, Request, Arrived, Replied, AllCalls, Router!TypeOK
<1>2. Router!ReachesItsOperation  BY DEF RouteInv, Arrived, Shadowed, Router!ReachesItsOperation
<1>3. Router!MarksArrive  BY MarkValues DEF RouteInv, Accepted, Router!MarksArrive
<1>4. QED  BY <1>1, <1>2, <1>3 DEF RequestsArrive, Router!RequestsArrive

(* A request of either client leads to the operation it was made for, with *)
(* its key and for its organisation, for every set of keys, those that     *)
(* look like a route's own segments among them, and a mark that is taken   *)
(* for made was not refused by the router.                                 *)
THEOREM RequestsArriveHolds ==
  ASSUME Router!RoutingAssumption
  PROVE  Router!Spec => []RequestsArrive
<1>1. RouteInv /\ [Router!Next]_Router!routingVars => RouteInv'  BY RouteNext
<1>2. QED  BY <1>1, RouteInit, RouteSafe, PTL DEF Router!Spec
=============================================================================
