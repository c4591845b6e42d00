--------------------------- MODULE ClientsProofs ---------------------------
(* Proofs about the components of Clients, for every number of callers,    *)
(* requests, agents and tool calls.  They share no state, so each has an   *)
(* inductive invariant of its own.                                         *)
EXTENDS Clients, NumberLemmas

(* Where a caller is says what it has asked for.                           *)
Asking(r) ==
  /\ r.op \in {"get", "insert"} => r.at # "checked" /\ r.answer # "done"
  /\ r.op \in Marks => r.answer \in {"none", "done", "error"}
  /\ (r.at = "answered") <=> (r.answer # "none")
Pending(r) == r \in Fetches /\ r.at \in {"sent", "checked"} /\ Asking(r)

CallerAsks(c) ==
  IF caller[c].pc \in {"idle", "work"} THEN request[c] = NoRequest
  ELSE /\ request[c] \in Fetches /\ Asking(request[c])
       /\ request[c].op = caller[c].pc /\ request[c].key = caller[c].key
Asked ==
  /\ \A c \in Callers : CallerAsks(c) /\ (caller[c].pc # "idle" => caller[c].key \in Keys)
                        /\ (caller[c].pc = "idle" => caller[c] = Idle)
                        /\ (caller[c].pc = "get" => caller[c].attempt = 0)
                        /\ (request[c].at = "checked" => row[request[c].key] # "missing")
  /\ \A r \in late : Pending(r) /\ (r.at = "checked" => row[r.key] # "missing")

(* Whoever knows of a success knows of work that was done.                 *)
Successful(r) == r.op = "succeed" \/ r.answer = "succeeded"
Produced ==
  /\ \A c \in Callers : Successful(request[c]) => effects[request[c].key] >= 1
  /\ \A r \in late : Successful(r) => effects[r.key] >= 1
  /\ \A k \in Keys : k \in told \/ row[k] = "succeeded" => effects[k] >= 1

(* What is denied is not let past the policies.                            *)
Refused(r) == r.op = "deny" \/ (r.op \in {"get", "insert"} /\ r.answer \in {"none", "missing", "pending", "denied", "error"})
Untouched(k) ==
  /\ effects[k] = 0 /\ row[k] \in {"missing", "pending", "denied"}
  /\ \A c \in Callers : caller[c].key = k => request[c] # NoRequest /\ Refused(request[c])
  /\ \A r \in late : r.key = k => Refused(r)

(* Attempts that an approval that was found, or may be, is still good for. *)
Slots == Callers \X (0 .. Retries)
Holds(c, k) ==
  /\ caller[c].key = k /\ caller[c].attempt = 0
  /\ \/ caller[c].pc = "get" /\ request[c].answer = "approved"
     \/ caller[c].pc = "running" /\ request[c].answer = "none"
Spent(c, k) ==
  /\ caller[c].key = k
  /\ \/ caller[c].pc = "running" /\ (caller[c].attempt > 0 \/ request[c].answer = "done")
     \/ caller[c].pc \in {"work", "succeed"}
Open(k) == {s \in Slots : row[k] = "approved" \/ Holds(s[1], k)}
Unused(c, k, i) ==
  Spent(c, k) /\ i >= caller[c].attempt /\ (caller[c].pc = "succeed" => i > caller[c].attempt)
Left(k) == {s \in Slots : Unused(s[1], k, s[2])}
Approving(r, k) == r.op = "approve" /\ r.key = k /\ r.at \in {"sent", "checked"}
OwnApprovals(k) == {c \in Callers : Approving(request[c], k)}
LateApprovals(k) == {r \in late : Approving(r, k)}
Balanced(e, o, l, u, v, n, a) == e + o + l + n * (u + v) <= a * n
Paid(k) ==
  Balanced(effects[k], Cardinality(Open(k)), Cardinality(Left(k)), Cardinality(OwnApprovals(k)),
           Cardinality(LateApprovals(k)), Cardinality(Slots), approvals[k])

(* Work that needs no approval and does not throw has one owner.           *)
Owns(c, k) ==
  /\ caller[c].key = k
  /\ \/ caller[c].pc \in {"running", "work", "succeed", "fail"}
     \/ caller[c].pc = "insert" /\ request[c].answer = "missing"
Plain(r) == \/ r.op \in {"running", "succeed", "fail"}
            \/ r.op \in {"get", "insert"} /\ r.answer \in {"none", "error", "missing", "pending", "running", "succeeded"}
Reads(r) == r.op \in {"get", "insert"}
Before(c, k) ==
  /\ caller[c].pc # "succeed" /\ caller[c].pc # "fail"
  /\ caller[c].pc = "work" => row[k] = "running"
  /\ request[c].answer = "done" => row[k] = "running"
  /\ request[c].answer # "error" => \A r \in late : r.key = k => Reads(r)
After(c, k) ==
  /\ caller[c].pc \in {"running", "succeed", "fail"}
  /\ caller[c].pc = "succeed" /\ request[c].at = "answered" => row[k] = "succeeded"
  /\ caller[c].pc # "succeed" => row[k] = "succeeded" /\ request[c].at # "checked" /\ request[c].answer # "done"
Ruled(c, k) ==
  /\ caller[c].key = k /\ request[c] # NoRequest => Plain(request[c])
  /\ Owns(c, k) => row[k] # "missing" /\ IF effects[k] = 0 THEN Before(c, k) ELSE After(c, k)
Harmless(r, k) ==
  /\ Plain(r)
  /\ \/ Reads(r)
     \/ effects[k] = 0 /\ row[k] # "missing" /\ r.op = "running"
     \/ effects[k] = 1 /\ (r.op = "succeed" \/ (r.at = "sent" /\ row[k] = "succeeded"))
Single(k) ==
  /\ \/ effects[k] = 0 /\ row[k] \in {"missing", "pending", "running"}
     \/ effects[k] = 1 /\ row[k] \in {"running", "succeeded"}
  /\ \A c \in Callers : Ruled(c, k)
  /\ \A r \in late : r.key = k => Harmless(r, k)
  /\ \A c, d \in Callers : Owns(c, k) /\ Owns(d, k) => c = d

PlainKeys == Keys \ (Gated \cup Denied \cup Flaky \cup unheard)
HostedInv ==
  /\ TypeOK /\ Asked /\ Produced
  /\ \A k \in Denied : Untouched(k)
  /\ \A k \in Gated \ Denied : Paid(k)
  /\ \A k \in PlainKeys : Single(k)
-----------------------------------------------------------------------------
(* HostedRun.  Where callers can be, what a step of one of them does to its*)
(* own place and request, and that the other callers keep theirs.          *)
States ==
  [pc : Marks \cup {"idle", "get", "insert", "work"}, key : Keys \cup {None},
   does : {"run", "approve", "reject"}, attempt : 0 .. Retries]
Operations == Marks \cup {"get", "insert"}

Rest(c) == \A d \in Callers \ {c} : caller'[d] = caller[d] /\ request'[d] = request[d]
Typed ==
  /\ deployed \in Deployments /\ row \in [Keys -> Status \cup {"missing"}]
  /\ caller \in [Callers -> States] /\ request \in [Callers -> Fetches \cup {NoRequest}]
Moved(c) ==
  /\ caller' \in [Callers -> States] /\ request' \in [Callers -> Fetches \cup {NoRequest}] /\ Rest(c)
Sends(c, op, k, n) ==
  /\ Moved(c) /\ request'[c] \in Fetches
  /\ caller'[c].pc = op /\ caller'[c].key = k /\ caller'[c].attempt = n
  /\ request'[c].op = op /\ request'[c].key = k /\ request'[c].at = "sent" /\ request'[c].answer = "none"
Quits(c) == Moved(c) /\ caller'[c] = Idle /\ request'[c] = NoRequest

LEMMA Deployed ==
  ASSUME HostedAssumption, Typed
  PROVE  /\ Gated \subseteq Keys /\ Denied \subseteq Keys /\ Flaky \subseteq Keys
         /\ Retries \in Nat /\ MaxCalls \in Nat /\ 0 \in 0 .. Retries
         /\ None \notin Keys /\ IsFiniteSet(Callers)
<1>1. deployed \in [gated : SUBSET Keys, denied : SUBSET Keys, flaky : SUBSET Keys, retries : Nat, calls : Nat]
  BY DEF HostedAssumption, Typed
<1>2. QED  BY <1>1 DEF HostedAssumption, Gated, Denied, Flaky, Retries, MaxCalls

(* What the operations are.                                                *)
LEMMA MarksAre == Marks = {"running", "succeed", "fail", "park", "deny", "approve", "reject"}
BY DEF Marks, Target

(* A caller that is somewhere is in one of the places.                     *)
LEMMA Places ==
  ASSUME Typed, NEW c \in Callers
  PROVE  /\ caller[c] \in States /\ caller[c].attempt \in 0 .. Retries /\ caller[c].key \in Keys \cup {None}
         /\ caller[c].pc \in {"idle", "get", "insert", "work", "running", "succeed", "fail", "park",
                              "deny", "approve", "reject"}
         /\ caller[c].does \in {"run", "approve", "reject"}
BY MarksAre DEF Typed, States

(* Ask() sends a request for the key and the attempt of the new state.     *)
LEMMA AskEffect ==
  ASSUME Typed, NEW c \in Callers, NEW op \in Operations, NEW state \in States, state.key \in Keys,
         Ask(c, state, op)
  PROVE  Sends(c, op, state.key, state.attempt)
<1>1. /\ caller' = [caller EXCEPT ![c] = [state EXCEPT !.pc = op]]
      /\ request' = [request EXCEPT ![c] = [op |-> op, key |-> state.key, at |-> "sent", answer |-> "none"]]
  BY DEF Ask, Become
<1> DEFINE s == [state EXCEPT !.pc = op]
           r == [op |-> op, key |-> state.key, at |-> "sent", answer |-> "none"]
<1>2. s \in States /\ s.pc = op /\ s.key = state.key /\ s.attempt = state.attempt
  BY MarksAre DEF States, Operations
<1>3. r \in Fetches /\ r.op = op /\ r.key = state.key /\ r.at = "sent" /\ r.answer = "none"
  BY DEF Fetches, Operations
<1> HIDE DEF s, r
<1>4. caller' = [caller EXCEPT ![c] = s] /\ request' = [request EXCEPT ![c] = r]
  BY <1>1 DEF s, r
<1>5. caller'[c] = s /\ request'[c] = r /\ Rest(c)
  BY <1>4 DEF Typed, Rest
<1>6. caller' \in [Callers -> States] /\ request' \in [Callers -> Fetches \cup {NoRequest}]
  BY <1>2, <1>3, <1>4 DEF Typed
<1>7. QED  BY <1>2, <1>3, <1>5, <1>6 DEF Sends, Moved

LEMMA ReturnEffect ==
  ASSUME HostedAssumption, Typed, NEW c \in Callers, Return(c)
  PROVE  Quits(c)
<1>1. caller' = [caller EXCEPT ![c] = Idle] /\ request' = [request EXCEPT ![c] = NoRequest]
  BY DEF Return, Become
<1>2. Idle \in States
  <2>1. 0 \in 0 .. Retries  BY Deployed
  <2>2. QED  BY <2>1 DEF Idle, States
<1>3. QED  BY <1>1, <1>2 DEF Typed, Quits, Moved, Rest

LEMMA VerdictIs ==
  ASSUME NEW k
  PROVE  /\ Verdict(k) \in {"deny", "park", "running"} /\ Verdict(k) \in Operations
         /\ k \in Denied => Verdict(k) = "deny"
         /\ k \in Gated \ Denied => Verdict(k) = "park"
         /\ k \notin Gated /\ k \notin Denied => Verdict(k) = "running"
<1>1. \/ k \in Denied /\ Verdict(k) = "deny"
      \/ k \notin Denied /\ k \in Gated /\ Verdict(k) = "park"
      \/ k \notin Denied /\ k \notin Gated /\ Verdict(k) = "running"
  <2>1. CASE k \in Denied
    BY <2>1 DEF Verdict
  <2>2. CASE k \notin Denied /\ k \in Gated
    BY <2>2 DEF Verdict
  <2>3. CASE k \notin Denied /\ k \notin Gated
    BY <2>3 DEF Verdict
  <2>4. QED  BY <2>1, <2>2, <2>3
<1>2. QED  BY <1>1, MarksAre DEF Operations

-----------------------------------------------------------------------------
(* What each step of a caller does.                                        *)
Still == UNCHANGED <<deployed, row, late, calls, faults>>
Same == UNCHANGED <<effects, told, approvals, unheard>>

LEMMA CallDoes ==
  ASSUME HostedAssumption, Typed, NEW c \in Callers, NEW k \in Keys, NEW does \in {"run", "approve", "reject"},
         Call(c, k, does)
  PROVE  caller[c] = Idle /\ Sends(c, "get", k, 0) /\ UNCHANGED <<row, late, faults>> /\ Same
<1> DEFINE s == [Idle EXCEPT !.key = k, !.does = does]
<1>1. Ask(c, s, "get") /\ caller[c] = Idle /\ UNCHANGED <<row, late, faults>> /\ Same
  BY DEF Call, Same
<1>2. s \in States /\ s.key = k /\ s.attempt = 0
  <2>1. 0 \in 0 .. Retries  BY Deployed
  <2>2. QED  BY <2>1 DEF Idle, States
<1> HIDE DEF s
<1>3. Sends(c, "get", s.key, s.attempt)
  BY <1>1, <1>2, AskEffect DEF Operations
<1>4. QED  BY <1>1, <1>2, <1>3

(* A caller that asks for something else, of the same key.                 *)
LEMMA AsksNext ==
  ASSUME Typed, NEW c \in Callers, NEW op \in Operations, caller[c].key \in Keys, Ask(c, caller[c], op)
  PROVE  Sends(c, op, caller[c].key, caller[c].attempt)
BY AskEffect, Places

Found(c, v) == request[c].answer = v
LEMMA OnGetDoes ==
  ASSUME HostedAssumption, Typed, NEW c \in Callers, caller[c].key \in Keys, OnGet(c)
  PROVE  /\ caller[c].pc = "get" /\ request[c].at = "answered"
         /\ \/ Found(c, "missing") /\ Sends(c, "insert", caller[c].key, caller[c].attempt)
            \/ Found(c, "failed") /\ Sends(c, Verdict(caller[c].key), caller[c].key, caller[c].attempt)
            \/ Found(c, "approved") /\ Sends(c, "running", caller[c].key, caller[c].attempt)
            \/ Quits(c)
         /\ told' = told \/ (Found(c, "succeeded") /\ told' = told \cup {caller[c].key})
         /\ UNCHANGED <<row, late, calls, faults, effects, approvals, unheard>>
<1>1. /\ caller[c].pc = "get" /\ request[c].at = "answered"
      /\ UNCHANGED <<row, late, calls, faults, effects, approvals, unheard>>
  BY DEF OnGet, Answered
<1>2. told' = told \/ (Found(c, "succeeded") /\ told' = told \cup {caller[c].key})
  BY DEF OnGet, Found, Tell
<1>3. \/ Found(c, "missing") /\ Ask(c, caller[c], "insert")
      \/ Found(c, "failed") /\ Ask(c, caller[c], Verdict(caller[c].key))
      \/ Found(c, "approved") /\ Ask(c, caller[c], "running")
      \/ Return(c)
  BY DEF OnGet, Found
<1>4. {"insert", "running", Verdict(caller[c].key)} \subseteq Operations
  BY VerdictIs, MarksAre DEF Operations
<1>5. QED  BY <1>1, <1>2, <1>3, <1>4, AsksNext, ReturnEffect

LEMMA DecideDoes ==
  ASSUME HostedAssumption, Typed, NEW c \in Callers, caller[c].key \in Keys, Decide(c)
  PROVE  /\ caller[c].pc = "get" /\ request[c].at = "answered"
         /\ \/ Quits(c) /\ approvals' = approvals
            \/ /\ Found(c, "awaiting_approval") /\ Sends(c, "approve", caller[c].key, caller[c].attempt)
               /\ approvals' = [approvals EXCEPT ![caller[c].key] = @ + 1]
            \/ /\ Found(c, "awaiting_approval") /\ Sends(c, "reject", caller[c].key, caller[c].attempt)
               /\ approvals' = approvals
         /\ UNCHANGED <<row, late, calls, faults, effects, told, unheard>>
<1>1. /\ caller[c].pc = "get" /\ request[c].at = "answered"
      /\ UNCHANGED <<row, late, calls, faults, effects, told, unheard>>
  BY DEF Decide, Answered
<1>2. caller[c].does \in {"approve", "reject"}
  BY Places DEF Decide
<1>3. \/ Return(c) /\ approvals' = approvals
      \/ /\ Found(c, "awaiting_approval") /\ Ask(c, caller[c], "approve")
         /\ approvals' = [approvals EXCEPT ![caller[c].key] = @ + 1]
      \/ Found(c, "awaiting_approval") /\ Ask(c, caller[c], "reject") /\ approvals' = approvals
  BY <1>2 DEF Decide, Found
<1>4. {"approve", "reject"} \subseteq Operations
  BY MarksAre DEF Operations
<1>5. QED  BY <1>1, <1>3, <1>4, AsksNext, ReturnEffect

LEMMA OnInsertDoes ==
  ASSUME HostedAssumption, Typed, NEW c \in Callers, caller[c].key \in Keys, OnInsert(c)
  PROVE  /\ caller[c].pc = "insert" /\ request[c].at = "answered"
         /\ \/ Found(c, "missing") /\ Sends(c, Verdict(caller[c].key), caller[c].key, caller[c].attempt)
            \/ Quits(c)
         /\ told' = told \/ (Found(c, "succeeded") /\ told' = told \cup {caller[c].key})
         /\ UNCHANGED <<row, late, calls, faults, effects, approvals, unheard>>
<1>1. /\ caller[c].pc = "insert" /\ request[c].at = "answered"
      /\ UNCHANGED <<row, late, calls, faults, effects, approvals, unheard>>
  BY DEF OnInsert, Answered
<1>2. told' = told \/ (Found(c, "succeeded") /\ told' = told \cup {caller[c].key})
  BY DEF OnInsert, Found, Tell
<1>3. (Found(c, "missing") /\ Ask(c, caller[c], Verdict(caller[c].key))) \/ Return(c)
  BY DEF OnInsert, Found
<1>5. QED  BY <1>1, <1>2, <1>3, VerdictIs, AsksNext, ReturnEffect

LEMMA OnMarkDoes ==
  ASSUME HostedAssumption, Typed, NEW c \in Callers, OnMark(c)
  PROVE  /\ caller[c].pc \in {"fail", "park", "deny", "approve", "reject"}
         /\ Quits(c) /\ UNCHANGED <<row, late, calls, faults>> /\ Same
BY ReturnEffect DEF OnMark, Answered, Same

LEMMA OnRunningDoes ==
  ASSUME HostedAssumption, Typed, NEW c \in Callers, OnRunning(c)
  PROVE  /\ caller[c].pc = "running" /\ request[c].at = "answered"
         /\ \/ Quits(c)
            \/ /\ request[c].answer # "error" /\ Moved(c) /\ request'[c] = NoRequest
               /\ caller'[c].pc = "work" /\ caller'[c].key = caller[c].key
               /\ caller'[c].attempt = caller[c].attempt
         /\ UNCHANGED <<row, late, calls, faults>> /\ Same
<1>1. /\ caller[c].pc = "running" /\ request[c].at = "answered"
      /\ UNCHANGED <<row, late, calls, faults>> /\ Same
  BY DEF OnRunning, Answered, Same
<1>2. CASE request[c].answer = "error"
  BY <1>1, <1>2, ReturnEffect DEF OnRunning
<1>3. CASE request[c].answer # "error"
  <2> DEFINE s == [caller[c] EXCEPT !.pc = "work"]
  <2>1. caller' = [caller EXCEPT ![c] = s] /\ request' = [request EXCEPT ![c] = NoRequest]
    BY <1>3 DEF OnRunning, Become
  <2>2. s \in States /\ s.pc = "work" /\ s.key = caller[c].key /\ s.attempt = caller[c].attempt
    BY Places DEF States
  <2> HIDE DEF s
  <2>3. QED  BY <1>1, <1>3, <2>1, <2>2 DEF Typed, Moved, Rest
<1>4. QED  BY <1>2, <1>3

(* The next attempt, or the record of the failure.                         *)
Retried(c) ==
  \/ /\ caller[c].attempt < Retries /\ Sends(c, "running", caller[c].key, caller[c].attempt + 1)
  \/ Sends(c, "fail", caller[c].key, caller[c].attempt)
LEMMA CaughtDoes ==
  ASSUME HostedAssumption, Typed, NEW c \in Callers, caller[c].key \in Keys, Caught(c)
  PROVE  Retried(c)
<1>1. CASE caller[c].attempt < Retries
  <2> DEFINE s == [caller[c] EXCEPT !.attempt = @ + 1]
  <2>1. Ask(c, s, "running")
    BY <1>1 DEF Caught
  <2>a. caller[c].attempt + 1 \in 0 .. Retries
    BY <1>1, Places, Deployed
  <2>2. s \in States /\ s.key = caller[c].key /\ s.attempt = caller[c].attempt + 1
    BY <2>a, Places DEF States
  <2> HIDE DEF s
  <2>3. Sends(c, "running", s.key, s.attempt)
    BY <2>1, <2>2, AskEffect, MarksAre DEF Operations
  <2>4. QED  BY <1>1, <2>2, <2>3 DEF Retried
<1>2. CASE ~(caller[c].attempt < Retries)
  BY <1>2, AsksNext, MarksAre DEF Caught, Operations, Retried
<1>3. QED  BY <1>1, <1>2

LEMMA WorkDoes ==
  ASSUME HostedAssumption, Typed, NEW c \in Callers, caller[c].key \in Keys, Work(c)
  PROVE  /\ caller[c].pc = "work" /\ Sends(c, "succeed", caller[c].key, caller[c].attempt)
         /\ effects' = [effects EXCEPT ![caller[c].key] = @ + 1]
         /\ UNCHANGED <<row, late, calls, faults, told, approvals, unheard>>
BY AsksNext, MarksAre DEF Work, Operations

LEMMA WorkThrowsDoes ==
  ASSUME HostedAssumption, Typed, NEW c \in Callers, caller[c].key \in Keys, WorkThrows(c)
  PROVE  /\ caller[c].pc = "work" /\ caller[c].key \in Flaky /\ Retried(c)
         /\ UNCHANGED <<row, late, calls, faults>> /\ Same
BY CaughtDoes DEF WorkThrows, Same

LEMMA OnSucceedDoes ==
  ASSUME HostedAssumption, Typed, NEW c \in Callers, caller[c].key \in Keys, OnSucceed(c)
  PROVE  /\ caller[c].pc = "succeed" /\ request[c].at = "answered"
         /\ \/ request[c].answer = "error" /\ Retried(c) /\ told' = told
            \/ request[c].answer # "error" /\ Quits(c) /\ told' = told \cup {caller[c].key}
         /\ UNCHANGED <<row, late, calls, faults, effects, approvals, unheard>>
BY CaughtDoes, ReturnEffect DEF OnSucceed, Answered, Tell

(* How the API serves a request: reads and insertions are answered with    *)
(* what was there; a transition is checked and then applied, or refused.   *)
Answers(r, s, v) == s = [r EXCEPT !.at = "answered", !.answer = v]
Serves(r, s) ==
  \/ r.op \in {"get", "insert"} /\ Answers(r, s, row[r.key]) /\ row[r.key] # "missing" /\ row' = row
  \/ r.op = "get" /\ Answers(r, s, "missing") /\ row[r.key] = "missing" /\ row' = row
  \/ /\ r.op = "insert" /\ Answers(r, s, "missing") /\ row[r.key] = "missing"
     /\ row' = [row EXCEPT ![r.key] = "pending"]
  \/ /\ r.op \in Marks /\ r.at = "checked" /\ Answers(r, s, "done")
     /\ row' = [row EXCEPT ![r.key] = Target[r.op]]
  \/ /\ r.op \in Marks /\ r.at = "sent" /\ Answers(r, s, "done") /\ row[r.key] = "missing" /\ row' = row
  \/ /\ r.op \in Marks /\ r.at = "sent" /\ s = [r EXCEPT !.at = "checked"] /\ row' = row
     /\ row[r.key] # "missing" /\ Target[r.op] \in Allowed[row[r.key]]
  \/ /\ r.op \in Marks /\ r.at = "sent" /\ Answers(r, s, "error") /\ row' = row
     /\ row[r.key] # "missing" /\ Target[r.op] \notin Allowed[row[r.key]]

LEMMA Serving ==
  ASSUME Typed, NEW r, Pending(r), Write(r)
  PROVE  Serves(r, Served(r))
<1>1. /\ r.at \in {"sent", "checked"} /\ r.key \in Keys /\ (r.op \in Marks \/ r.op \in {"get", "insert"})
      /\ r.op \in {"get", "insert"} => r.at = "sent"
  BY DEF Pending, Asking, Fetches
<1>2. Marks \cap {"get", "insert"} = {}
  BY MarksAre
<1> DEFINE new == CASE r.op = "insert" /\ row[r.key] = "missing" -> "pending"
                    [] r.at = "checked" -> Target[r.op]
                    [] OTHER -> row[r.key]
<1>3. row' = [row EXCEPT ![r.key] = new]
  BY DEF Write
<1>4. ASSUME new = row[r.key] PROVE row' = row
  <2>1. row \in [Keys -> Status \cup {"missing"}]  BY DEF Typed
  <2>2. QED  BY <1>3, <1>4, <2>1
<1>5. CASE r.op \in {"get", "insert"}
  <2>1. Answers(r, Served(r), row[r.key])
    BY <1>5 DEF Served, Answers
  <2>2. CASE r.op = "insert" /\ row[r.key] = "missing"
    <3>1. new = "pending"  BY <2>2, <1>1
    <3>2. QED  BY <3>1, <2>1, <2>2, <1>3 DEF Serves
  <2>3. CASE ~(r.op = "insert" /\ row[r.key] = "missing")
    <3>1. new = row[r.key]  BY <2>3, <1>1, <1>5
    <3>2. QED  BY <3>1, <2>1, <2>3, <1>4, <1>5 DEF Serves
  <2>4. QED  BY <2>2, <2>3
<1>6. CASE r.op \in Marks /\ r.at = "checked"
  <2>1. new = Target[r.op]  BY <1>6, <1>2
  <2>2. Answers(r, Served(r), "done")
    BY <1>6, <1>2 DEF Served, Answers
  <2>3. QED  BY <2>1, <2>2, <1>3, <1>6 DEF Serves
<1>7. CASE r.op \in Marks /\ r.at = "sent"
  <2>1. new = row[r.key]  BY <1>7, <1>2
  <2>2. row' = row  BY <2>1, <1>4
  <2>3. CASE row[r.key] = "missing"
    <3>1. Answers(r, Served(r), "done")
      BY <1>7, <1>2, <2>3 DEF Served, Answers, Permitted
    <3>2. QED  BY <3>1, <2>2, <2>3, <1>7 DEF Serves
  <2>4. CASE row[r.key] # "missing" /\ Target[r.op] \in Allowed[row[r.key]]
    <3>1. Served(r) = [r EXCEPT !.at = "checked"]
      BY <1>7, <1>2, <2>4 DEF Served, Permitted
    <3>2. QED  BY <3>1, <2>2, <2>4, <1>7 DEF Serves
  <2>5. CASE row[r.key] # "missing" /\ Target[r.op] \notin Allowed[row[r.key]]
    <3>1. Answers(r, Served(r), "error")
      BY <1>7, <1>2, <2>5 DEF Served, Answers, Permitted
    <3>2. QED  BY <3>1, <2>2, <2>5, <1>7 DEF Serves
  <2>6. QED  BY <2>3, <2>4, <2>5
<1>8. QED  BY <1>1, <1>5, <1>6, <1>7

(* What serving leaves of the request, and that rows stay rows.            *)
LEMMA ServesTyped ==
  ASSUME Typed, NEW r, Pending(r), NEW s, Serves(r, s)
  PROVE  /\ s \in Fetches /\ Asking(s) /\ s.op = r.op /\ s.key = r.key /\ r.key \in Keys
         /\ s.at \in {"checked", "answered"}
         /\ s.at = "checked" => row[r.key] # "missing"
         /\ row' \in [Keys -> Status \cup {"missing"}]
         /\ \A k \in Keys : (k # r.key => row'[k] = row[k]) /\ (row'[k] = "missing" => row[k] = "missing")
<1>1. /\ r \in Fetches /\ r.op \in Operations /\ r.key \in Keys /\ r.at \in {"sent", "checked"} /\ r.answer = "none"
      /\ r.op \in {"get", "insert"} => r.at = "sent"
  BY DEF Pending, Fetches, Operations, Asking
<1>2. row \in [Keys -> Status \cup {"missing"}]  BY DEF Typed
<1>3. \A op \in Marks : Target[op] \in Status /\ op \notin {"get", "insert"}
  BY DEF Marks, Target, Status
<1>4. ASSUME NEW v \in Status \cup {"done", "error", "missing"}, Answers(r, s, v),
             r.op \in {"get", "insert"} => v # "done", r.op \in Marks => v \in {"done", "error"}
      PROVE  s \in Fetches /\ Asking(s) /\ s.op = r.op /\ s.key = r.key /\ s.at = "answered"
  <2>1. s \in Fetches /\ s.op = r.op /\ s.key = r.key /\ s.at = "answered" /\ s.answer = v
    BY <1>1, <1>4 DEF Answers, Fetches
  <2>2. v # "none"  BY DEF Status
  <2>3. QED  BY <2>1, <2>2, <1>4 DEF Asking
<1>5. row[r.key] \in Status \cup {"missing"} /\ "done" \notin Status
  BY <1>1, <1>2 DEF Status
<1>6. CASE row' = row /\ r.op \in {"get", "insert"} /\ Answers(r, s, row[r.key])
  BY <1>1, <1>2, <1>3, <1>4, <1>5, <1>6
<1>7. CASE r.op \in Marks /\ row' = row /\ (Answers(r, s, "done") \/ Answers(r, s, "error"))
  BY <1>1, <1>2, <1>3, <1>4, <1>7
<1>8. CASE r.op = "insert" /\ Answers(r, s, "missing") /\ row[r.key] = "missing" /\ row' = [row EXCEPT ![r.key] = "pending"]
  <2>1. "pending" \in Status  BY DEF Status
  <2>2. s \in Fetches /\ Asking(s) /\ s.op = r.op /\ s.key = r.key /\ s.at = "answered"
    BY <1>8, <1>3, <1>4
  <2>3. QED  BY <2>1, <2>2, <1>1, <1>2, <1>8
<1>9. CASE r.op \in Marks /\ Answers(r, s, "done") /\ row' = [row EXCEPT ![r.key] = Target[r.op]]
  <2>2. s \in Fetches /\ Asking(s) /\ s.op = r.op /\ s.key = r.key /\ s.at = "answered"
    BY <1>9, <1>3, <1>4
  <2>4. Target[r.op] # "missing"  BY <1>3, <1>9 DEF Status
  <2>3. QED  BY <2>2, <2>4, <1>1, <1>2, <1>3, <1>9
<1>10. CASE r.op \in Marks /\ s = [r EXCEPT !.at = "checked"] /\ row' = row /\ row[r.key] # "missing"
  <2>1. s \in Fetches /\ s.op = r.op /\ s.key = r.key /\ s.at = "checked" /\ s.answer = "none"
    BY <1>1, <1>10 DEF Fetches
  <2>2. Asking(s)  BY <2>1, <1>3, <1>10 DEF Asking
  <2>3. QED  BY <2>1, <2>2, <1>1, <1>2, <1>10
<1>11. QED
  <2>1. CASE r.op \in {"get", "insert"} /\ Answers(r, s, row[r.key]) /\ row' = row
    BY <2>1, <1>6
  <2>2. QED  BY <2>1, <1>7, <1>8, <1>9, <1>10 DEF Serves

LEMMA ServeDoes ==
  ASSUME Typed, Asked, NEW c \in Callers, Serve(c)
  PROVE  /\ request[c] \in Fetches /\ Pending(request[c]) /\ Serves(request[c], request'[c])
         /\ caller' = caller /\ Moved(c)
         /\ UNCHANGED <<late, calls, faults>> /\ Same
<1>1. request[c] # NoRequest /\ request[c].at \in {"sent", "checked"}
  BY DEF Serve, NoRequest
<1>2. request[c] \in Fetches /\ Pending(request[c])
  BY <1>1 DEF Asked, CallerAsks, Pending
<1>3. request' = [request EXCEPT ![c] = Served(request[c])] /\ Write(request[c])
      /\ UNCHANGED <<caller, late, calls, faults>> /\ Same
  BY DEF Serve, Same
<1>4. request'[c] = Served(request[c])
  BY <1>3 DEF Typed
<1>5. Serves(request[c], request'[c])
  BY <1>2, <1>3, <1>4, Serving
<1>6. request'[c] \in Fetches
  BY <1>2, <1>5, ServesTyped
<1>7. Moved(c)
  BY <1>3, <1>4, <1>6 DEF Typed, Moved, Rest
<1>8. QED  BY <1>2, <1>3, <1>5, <1>7

LEMMA ServeLateDoes ==
  ASSUME Typed, Asked, NEW r \in late, ServeLate(r)
  PROVE  /\ Pending(r)
         /\ \E s : /\ Serves(r, s)
                   /\ \/ s.at = "answered" /\ late' = late \ {r}
                      \/ s.at = "checked" /\ late' = (late \ {r}) \cup {s}
         /\ UNCHANGED <<caller, request, calls, faults>> /\ Same
<1>1. Pending(r)  BY DEF Asked
<1>2. Write(r) /\ late' = (late \ {r}) \cup {s \in {Served(r)} : s.at # "answered"}
      /\ UNCHANGED <<caller, request, calls, faults>> /\ Same
  BY DEF ServeLate, Same
<1>3. Serves(r, Served(r)) /\ Served(r).at \in {"checked", "answered"}
  BY <1>1, <1>2, Serving, ServesTyped
<1>4. \/ Served(r).at = "answered" /\ late' = late \ {r}
      \/ Served(r).at = "checked" /\ late' = (late \ {r}) \cup {Served(r)}
  BY <1>2, <1>3
<1>5. QED  BY <1>1, <1>2, <1>3, <1>4

(* A fetch that fails, and a caller that dies.                             *)
LEMMA FetchFailsDoes ==
  ASSUME Typed, Asked, NEW c \in Callers, FetchFails(c)
  PROVE  /\ request[c] \in Fetches /\ request[c].answer # "error"
         /\ late' = late \/ (Pending(request[c]) /\ late' = late \cup {request[c]})
         /\ request'[c] = [request[c] EXCEPT !.at = "answered", !.answer = "error"]
         /\ caller' = caller /\ Moved(c) /\ request'[c] \in Fetches
         /\ unheard' = unheard \cup {k \in {request[c].key} : request[c].op = "succeed" /\ request[c].at # "answered"}
         /\ UNCHANGED <<row, calls, effects, told, approvals>>
<1>1. request[c].at # "none"  BY DEF FetchFails
<1>2. request[c] \in Fetches
  BY <1>1 DEF Typed, NoRequest
<1>3. request[c].at # "answered" => Pending(request[c])
  BY <1>2 DEF Asked, CallerAsks, Pending, Fetches, NoRequest
<1>4. late' = late \/ (Pending(request[c]) /\ late' = late \cup {request[c]})
  <2>1. late' \in {late, late \cup {r \in {request[c]} : r.at # "answered"}}
    BY DEF FetchFails
  <2>2. QED  BY <1>3, <2>1
<1> DEFINE s == [request[c] EXCEPT !.at = "answered", !.answer = "error"]
<1>5. request' = [request EXCEPT ![c] = s]
  BY DEF FetchFails
<1>6. s \in Fetches  BY <1>2 DEF Fetches
<1>7. caller' = caller /\ UNCHANGED <<row, calls, effects, told, approvals>> /\ request[c].answer # "error"
      /\ unheard' = unheard \cup {k \in {request[c].key} : request[c].op = "succeed" /\ request[c].at # "answered"}
  BY DEF FetchFails
<1> HIDE DEF s
<1>8. request'[c] = s /\ Moved(c)
  BY <1>5, <1>6, <1>7 DEF Typed, Moved, Rest
<1>9. QED  BY <1>2, <1>4, <1>6, <1>7, <1>8 DEF s

LEMMA DiesDoes ==
  ASSUME HostedAssumption, Typed, Asked, NEW c \in Callers, Dies(c)
  PROVE  /\ late' = late \/ (request[c] \in Fetches /\ Pending(request[c]) /\ late' = late \cup {request[c]})
         /\ Quits(c) /\ UNCHANGED <<row, calls>> /\ Same
<1>1. late' = late \cup {r \in {request[c]} : r.at \in {"sent", "checked"}} /\ Return(c) /\ UNCHANGED <<row, calls>> /\ Same
  BY DEF Dies, Same
<1>2. request[c].at \in {"sent", "checked"} => request[c] \in Fetches /\ Pending(request[c])
  BY DEF Typed, Asked, CallerAsks, Pending, NoRequest
<1>3. QED  BY <1>1, <1>2, ReturnEffect

-----------------------------------------------------------------------------
(* Type correctness, and that callers wait for what they have asked for.   *)
LEMMA TypedOK ==
  ASSUME TypeOK
  PROVE  Typed /\ {effects, approvals} \subseteq [Keys -> Nat] /\ late \subseteq Fetches
BY DEF TypeOK, Typed, States

LEMMA Steps ==
  ASSUME HostedAssumption, TypeOK, Asked, [Next]_hostedVars
  PROVE  /\ deployed' = deployed
         /\ \/ UNCHANGED hostedVars
            \/ \E c \in Callers : (\E k \in Keys, does \in {"run", "approve", "reject"} : Call(c, k, does))
            \/ \E c \in Callers : caller[c].key \in Keys /\ (OnGet(c) \/ Decide(c) \/ OnInsert(c))
            \/ \E c \in Callers : caller[c].key \in Keys /\ (OnMark(c) \/ OnRunning(c))
            \/ \E c \in Callers : caller[c].key \in Keys /\ (Work(c) \/ WorkThrows(c) \/ OnSucceed(c))
            \/ \E c \in Callers : Serve(c) \/ FetchFails(c) \/ Dies(c)
            \/ \E r \in late : ServeLate(r)
<1>1. \A c \in Callers : caller[c].pc # "idle" => caller[c].key \in Keys
  BY DEF Asked
<1>2. CASE UNCHANGED hostedVars
  BY <1>2 DEF hostedVars
<1>3. CASE Next
  <2>1. deployed' = deployed  BY <1>3 DEF Next
  <2>2. \A c \in Callers : OnGet(c) \/ Decide(c) \/ OnInsert(c) \/ OnMark(c) \/ OnRunning(c) \/ Work(c)
                           \/ WorkThrows(c) \/ OnSucceed(c) => caller[c].pc # "idle"
    BY DEF OnGet, Decide, OnInsert, OnMark, OnRunning, Work, WorkThrows, OnSucceed, Answered
  <2>3. QED  BY <1>1, <1>3, <2>1, <2>2 DEF Next, Advance
<1>4. QED  BY <1>2, <1>3

(* The invariant of one caller survives what it asks for and its end,      *)
(* where rows stay present.                                                *)
AskedOne(c) ==
  /\ CallerAsks(c) /\ (caller[c].pc # "idle" => caller[c].key \in Keys)
  /\ (caller[c].pc = "idle" => caller[c] = Idle)
  /\ (caller[c].pc = "get" => caller[c].attempt = 0)
  /\ (request[c].at = "checked" => row[request[c].key] # "missing")
RowsStay == \A k \in Keys : row'[k] = "missing" => row[k] = "missing"

LEMMA AskedOthers ==
  ASSUME Typed, Asked, RowsStay, NEW c \in Callers, Rest(c), AskedOne(c)'
  PROVE  \A d \in Callers : AskedOne(d)'
<1>1. SUFFICES ASSUME NEW d \in Callers, d # c PROVE AskedOne(d)'
  OBVIOUS
<1>2. AskedOne(d) /\ caller'[d] = caller[d] /\ request'[d] = request[d]
  BY <1>1 DEF Asked, AskedOne, Rest
<1>3. request[d].at = "checked" => request[d].key \in Keys
  BY DEF Typed, NoRequest, Fetches
<1>4. QED  BY <1>2, <1>3 DEF AskedOne, CallerAsks, RowsStay

LEMMA AskedSends ==
  ASSUME Typed, NEW c \in Callers, NEW op \in Operations, NEW k \in Keys, NEW n, Sends(c, op, k, n),
         op = "get" => n = 0
  PROVE  AskedOne(c)'
<1>1. op \notin {"idle", "work"}  BY MarksAre DEF Operations
<1>2. QED  BY <1>1 DEF Sends, AskedOne, CallerAsks, Asking

LEMMA AskedQuits ==
  ASSUME NEW c \in Callers, Quits(c)
  PROVE  AskedOne(c)'
BY DEF Quits, AskedOne, CallerAsks, Idle, NoRequest

LateAsked == \A r \in late : Pending(r) /\ (r.at = "checked" => row[r.key] # "missing")
LEMMA LateStays ==
  ASSUME Typed, Asked, RowsStay, late' = late
  PROVE  LateAsked'
BY DEF LateAsked, Asked, RowsStay, Pending, Fetches, Asking

(* The places and requests are as the type says.                           *)
Placed ==
  /\ row' \in [Keys -> Status \cup {"missing"}] /\ late' \subseteq Fetches
  /\ caller' \in [Callers -> States] /\ request' \in [Callers -> Fetches \cup {NoRequest}]

(* A caller goes on by itself.                                             *)
LEMMA PlacedLocally ==
  ASSUME HostedAssumption, Typed, Asked, NEW c \in Callers, Moved(c), AskedOne(c)', row' = row, late' = late
  PROVE  Placed /\ Asked'
<1>1. RowsStay  BY DEF RowsStay
<1>2. \A d \in Callers : AskedOne(d)'
  BY <1>1, AskedOthers DEF Moved
<1>3. LateAsked'  BY <1>1, LateStays
<1>4. Asked'  BY <1>2, <1>3 DEF Asked, AskedOne, LateAsked
<1>5. late' \subseteq Fetches  BY <1>3 DEF LateAsked, Pending
<1>6. QED  BY <1>4, <1>5 DEF Moved, Placed, Typed

LEMMA AskedInit ==
  ASSUME HostedAssumption, Init
  PROVE  TypeOK /\ Asked
<1>1. Typed /\ calls \in Nat /\ faults \in Nat /\ told \subseteq Keys /\ unheard \subseteq Keys
      /\ {effects, approvals} \subseteq [Keys -> Nat] /\ late \subseteq Fetches
  <2>1. deployed \in Deployments /\ row \in [Keys -> Status \cup {"missing"}] /\ request \in [Callers -> Fetches \cup {NoRequest}]
    BY DEF Init
  <2>2. Retries \in Nat
    BY <2>1 DEF HostedAssumption, Retries
  <2>3. 0 \in 0 .. Retries  BY <2>2
  <2>4. caller \in [Callers -> States]
    BY <2>3 DEF Init, Idle, States
  <2>5. QED  BY <2>1, <2>4 DEF Init, Typed
<1>2. TypeOK  BY <1>1 DEF TypeOK, Typed, States
<1>3. Asked  BY DEF Init, Asked, CallerAsks, Idle, NoRequest
<1>4. QED  BY <1>2, <1>3

LEMMA AskedStep ==
  ASSUME HostedAssumption, TypeOK, Asked, [Next]_hostedVars
  PROVE  Placed /\ Asked' /\ RowsStay
<1>1. Typed  BY TypedOK
<1>2. deployed' = deployed  BY Steps
<1>3. ASSUME NEW c \in Callers, NEW op \in Operations, NEW k \in Keys, NEW n, Sends(c, op, k, n),
             op = "get" => n = 0, row' = row, late' = late
      PROVE  Placed /\ Asked' /\ RowsStay
  <2>1. AskedOne(c)'  BY <1>1, <1>3, AskedSends
  <2>2. Moved(c)  BY <1>3 DEF Sends
  <2>3. QED  BY <1>1, <1>3, <2>1, <2>2, PlacedLocally DEF RowsStay
<1>4. ASSUME NEW c \in Callers, Quits(c), row' = row, late' = late
      PROVE  Placed /\ Asked' /\ RowsStay
  <2>1. AskedOne(c)'  BY <1>4, AskedQuits
  <2>2. Moved(c)  BY <1>4 DEF Quits
  <2>3. QED  BY <1>1, <1>4, <2>1, <2>2, PlacedLocally DEF RowsStay
<1>5. ASSUME NEW c \in Callers, caller[c].key \in Keys, Retried(c), row' = row, late' = late
      PROVE  Placed /\ Asked' /\ RowsStay
  <2>1. {"running", "fail"} \subseteq Operations  BY MarksAre DEF Operations
  <2>2. QED  BY <1>3, <1>5, <2>1 DEF Retried
<1>6. CASE UNCHANGED hostedVars
  BY <1>1, <1>6 DEF hostedVars, Placed, Asked, CallerAsks, Asking, Pending, RowsStay, TypeOK, Typed
<1>7. ASSUME NEW c \in Callers, NEW k \in Keys, NEW does \in {"run", "approve", "reject"}, Call(c, k, does)
      PROVE  Placed /\ Asked' /\ RowsStay
  <2>1. Sends(c, "get", k, 0) /\ row' = row /\ late' = late  BY <1>1, <1>7, CallDoes
  <2>2. "get" \in Operations  BY DEF Operations
  <2>3. QED  BY <1>3, <2>1, <2>2
<1>8. ASSUME NEW c \in Callers, caller[c].key \in Keys, OnGet(c) \/ Decide(c) \/ OnInsert(c)
      PROVE  Placed /\ Asked' /\ RowsStay
  <2>1. /\ row' = row /\ late' = late
        /\ Quits(c) \/ \E op \in Operations \ {"get"} : Sends(c, op, caller[c].key, caller[c].attempt)
    <3>1. {"insert", "running", "approve", "reject", Verdict(caller[c].key)} \subseteq Operations \ {"get"}
      BY VerdictIs, MarksAre DEF Operations
    <3>2. CASE OnGet(c)  BY <1>1, <1>8, <3>1, <3>2, OnGetDoes
    <3>3. CASE Decide(c)  BY <1>1, <1>8, <3>1, <3>3, DecideDoes
    <3>4. CASE OnInsert(c)  BY <1>1, <1>8, <3>1, <3>4, OnInsertDoes
    <3>5. QED  BY <1>8, <3>2, <3>3, <3>4
  <2>2. QED  BY <1>3, <1>4, <1>8, <2>1
<1>9. ASSUME NEW c \in Callers, caller[c].key \in Keys, OnMark(c) \/ OnRunning(c)
      PROVE  Placed /\ Asked' /\ RowsStay
  <2>1. CASE OnMark(c)  BY <1>1, <1>4, <2>1, OnMarkDoes
  <2>2. CASE OnRunning(c)
    <3>1. row' = row /\ late' = late  BY <1>1, <2>2, OnRunningDoes
    <3>2. CASE Quits(c)  BY <1>4, <3>1, <3>2
    <3>3. CASE /\ Moved(c) /\ request'[c] = NoRequest /\ caller'[c].pc = "work" /\ caller'[c].key = caller[c].key
      <4>1. AskedOne(c)'  BY <1>9, <3>3 DEF AskedOne, CallerAsks, NoRequest
      <4>2. QED  BY <1>1, <3>1, <3>3, <4>1, PlacedLocally DEF RowsStay
    <3>4. QED  BY <1>1, <2>2, <3>2, <3>3, OnRunningDoes
  <2>3. QED  BY <1>9, <2>1, <2>2
<1>10. ASSUME NEW c \in Callers, caller[c].key \in Keys, Work(c) \/ WorkThrows(c) \/ OnSucceed(c)
       PROVE  Placed /\ Asked' /\ RowsStay
  <2>1. CASE Work(c)
    <3>1. "succeed" \in Operations  BY MarksAre DEF Operations
    <3>2. QED  BY <1>1, <1>3, <1>10, <2>1, <3>1, WorkDoes
  <2>2. CASE WorkThrows(c)  BY <1>1, <1>5, <1>10, <2>2, WorkThrowsDoes
  <2>3. CASE OnSucceed(c)  BY <1>1, <1>4, <1>5, <1>10, <2>3, OnSucceedDoes
  <2>4. QED  BY <1>10, <2>1, <2>2, <2>3
<1>11. ASSUME NEW c \in Callers, Serve(c)
       PROVE  Placed /\ Asked' /\ RowsStay
  <2> DEFINE r == request[c]
  <2>1. /\ r \in Fetches /\ Pending(r) /\ Serves(r, request'[c]) /\ caller' = caller /\ Moved(c) /\ late' = late
    BY <1>1, <1>11, ServeDoes
  <2>2. PICK s : s = request'[c]  OBVIOUS
  <2>3. /\ s \in Fetches /\ Asking(s) /\ s.op = r.op /\ s.key = r.key /\ r.key \in Keys
        /\ s.at \in {"checked", "answered"}
        /\ s.at = "checked" => row[r.key] # "missing"
        /\ row' \in [Keys -> Status \cup {"missing"}]
        /\ \A k \in Keys : row'[k] = "missing" => row[k] = "missing"
    BY <1>1, <2>1, <2>2, ServesTyped
  <2>4. RowsStay  BY <2>3 DEF RowsStay
  <2>5. AskedOne(c)'
    <3>1. caller[c].pc \notin {"idle", "work"}
      BY <2>1 DEF Asked, CallerAsks, NoRequest, Fetches
    <3>2. AskedOne(c)  BY DEF Asked, AskedOne
    <3>3. r.op = caller[c].pc /\ r.key = caller[c].key
      BY <3>1 DEF Asked, CallerAsks
    <3>4. CallerAsks(c)'
      BY <2>1, <2>2, <2>3, <3>1, <3>3 DEF CallerAsks, Asking
    <3>5. request'[c].at = "checked" => row'[request'[c].key] # "missing"
      BY <2>2, <2>3
    <3>6. QED  BY <2>1, <3>2, <3>4, <3>5 DEF AskedOne
  <2>6. \A d \in Callers : AskedOne(d)'
    BY <1>1, <2>1, <2>4, <2>5, AskedOthers DEF Moved
  <2>7. LateAsked'  BY <1>1, <2>1, <2>4, LateStays
  <2>8. Asked'  BY <2>6, <2>7 DEF Asked, AskedOne, LateAsked
  <2>9. late' \subseteq Fetches  BY <2>7 DEF LateAsked, Pending
  <2>10. QED  BY <2>1, <2>3, <2>4, <2>8, <2>9 DEF Moved, Placed
<1>12. ASSUME NEW c \in Callers, FetchFails(c) \/ Dies(c)
       PROVE  Placed /\ Asked' /\ RowsStay
  <2>1. /\ row' = row /\ Moved(c)
        /\ late' = late \/ (request[c] \in Fetches /\ Pending(request[c]) /\ late' = late \cup {request[c]})
    BY <1>1, <1>12, FetchFailsDoes, DiesDoes DEF Quits
  <2>2. AskedOne(c)'
    <3>1. CASE Dies(c)  BY <1>1, <3>1, DiesDoes, AskedQuits
    <3>2. CASE FetchFails(c)
      <4>1. /\ request[c] \in Fetches /\ caller' = caller /\ row' = row
            /\ request'[c] = [request[c] EXCEPT !.at = "answered", !.answer = "error"]
        BY <1>1, <3>2, FetchFailsDoes
      <4>2. /\ request'[c] \in Fetches /\ request'[c].op = request[c].op /\ request'[c].key = request[c].key
            /\ request'[c].at = "answered" /\ request'[c].answer = "error"
        BY <4>1 DEF Fetches
      <4>3. caller[c].pc \notin {"idle", "work"} /\ AskedOne(c)
        BY <4>1 DEF Asked, AskedOne, CallerAsks, NoRequest, Fetches
      <4>4. QED  BY <4>1, <4>2, <4>3 DEF AskedOne, CallerAsks, Asking
    <3>3. QED  BY <1>12, <3>1, <3>2
  <2>3. RowsStay  BY <2>1 DEF RowsStay
  <2>4. \A d \in Callers : AskedOne(d)'
    BY <1>1, <2>1, <2>2, <2>3, AskedOthers DEF Moved
  <2>5. LateAsked'
    <3>1. \A r \in late : Pending(r) /\ (r.at = "checked" => row[r.key] # "missing")
      BY DEF Asked
    <3>2. request[c].at = "checked" => row[request[c].key] # "missing"
      BY DEF Asked
    <3>3. QED  BY <2>1, <3>1, <3>2 DEF LateAsked, Pending, Asking, Fetches
  <2>6. Asked'  BY <2>4, <2>5 DEF Asked, AskedOne, LateAsked
  <2>7. late' \subseteq Fetches  BY <2>5 DEF LateAsked, Pending
  <2>8. QED  BY <1>1, <2>1, <2>3, <2>6, <2>7 DEF Moved, Placed, Typed
<1>13. ASSUME NEW r \in late, ServeLate(r)
       PROVE  Placed /\ Asked' /\ RowsStay
  <2>1. Pending(r) /\ UNCHANGED <<caller, request>>
    BY <1>1, <1>13, ServeLateDoes
  <2>2. PICK s : /\ Serves(r, s)
                 /\ \/ s.at = "answered" /\ late' = late \ {r}
                    \/ s.at = "checked" /\ late' = (late \ {r}) \cup {s}
    BY <1>1, <1>13, ServeLateDoes
  <2>3. /\ s \in Fetches /\ Asking(s) /\ s.op = r.op /\ s.key = r.key /\ r.key \in Keys
        /\ s.at = "checked" => row[r.key] # "missing"
        /\ row' \in [Keys -> Status \cup {"missing"}]
        /\ \A k \in Keys : row'[k] = "missing" => row[k] = "missing"
    BY <1>1, <2>1, <2>2, ServesTyped
  <2>4. RowsStay  BY <2>3 DEF RowsStay
  <2>5. \A d \in Callers : AskedOne(d)'
    <3>1. SUFFICES ASSUME NEW d \in Callers PROVE AskedOne(d)'
      OBVIOUS
    <3>2. AskedOne(d)  BY DEF Asked, AskedOne
    <3>3. request[d].at = "checked" => request[d].key \in Keys
      BY <1>1 DEF Typed, NoRequest, Fetches
    <3>4. QED  BY <2>1, <2>4, <3>2, <3>3 DEF AskedOne, CallerAsks, RowsStay
  <2>6. LateAsked'
    <3>1. \A q \in late : Pending(q) /\ (q.at = "checked" => row[q.key] # "missing")
      BY DEF Asked
    <3>2. \A q \in late : q.key \in Keys  BY <3>1 DEF Pending, Fetches
    <3>3. \A q \in late : q.at = "checked" => row'[q.key] # "missing"
      BY <2>4, <3>1, <3>2 DEF RowsStay
    <3>4. s.at = "checked" => Pending(s) /\ row'[s.key] # "missing"
      BY <2>3 DEF Pending
    <3>5. QED  BY <2>2, <3>1, <3>3, <3>4 DEF LateAsked, Pending, Asking, Fetches
  <2>7. Asked'  BY <2>5, <2>6 DEF Asked, AskedOne, LateAsked
  <2>8. late' \subseteq Fetches  BY <2>6 DEF LateAsked, Pending
  <2>9. QED  BY <1>1, <2>1, <2>3, <2>4, <2>7, <2>8 DEF Placed, Typed
<1>14. QED  BY <1>6, <1>7, <1>8, <1>9, <1>10, <1>11, <1>12, <1>13, Steps

LEMMA CountersStep ==
  ASSUME HostedAssumption, TypeOK, Asked, [Next]_hostedVars
  PROVE  /\ calls' \in Nat /\ faults' \in Nat /\ told' \subseteq Keys /\ unheard' \subseteq Keys
         /\ effects' \in [Keys -> Nat] /\ approvals' \in [Keys -> Nat] /\ unheard \subseteq unheard'
<1> DEFINE Kept == UNCHANGED <<calls, faults, effects, told, approvals, unheard>>
<1>1. Typed  BY TypedOK
<1>2. /\ calls \in Nat /\ faults \in Nat /\ told \subseteq Keys /\ unheard \subseteq Keys
      /\ effects \in [Keys -> Nat] /\ approvals \in [Keys -> Nat]
  BY DEF TypeOK
<1>3. CASE UNCHANGED hostedVars  BY <1>2, <1>3 DEF hostedVars
<1>4. ASSUME NEW c \in Callers, \E k \in Keys, does \in {"run", "approve", "reject"} : Call(c, k, does)
      PROVE  calls' = calls + 1 /\ UNCHANGED <<faults, effects, told, approvals, unheard>>
  BY <1>4 DEF Call
<1>5. ASSUME NEW c \in Callers, caller[c].key \in Keys, OnGet(c) \/ Decide(c) \/ OnInsert(c)
      PROVE  /\ UNCHANGED <<calls, faults, effects, unheard>> /\ told' \subseteq told \cup {caller[c].key}
             /\ approvals' = approvals \/ approvals' = [approvals EXCEPT ![caller[c].key] = @ + 1]
  BY <1>1, <1>5, OnGetDoes, DecideDoes, OnInsertDoes
<1>6. ASSUME NEW c \in Callers, OnMark(c) \/ OnRunning(c)
      PROVE  Kept
  BY <1>1, <1>6, OnMarkDoes, OnRunningDoes DEF Same
<1>7. ASSUME NEW c \in Callers, caller[c].key \in Keys, Work(c) \/ WorkThrows(c) \/ OnSucceed(c)
      PROVE  /\ UNCHANGED <<calls, faults, approvals, unheard>> /\ told' \subseteq told \cup {caller[c].key}
             /\ effects' = effects \/ effects' = [effects EXCEPT ![caller[c].key] = @ + 1]
  BY <1>1, <1>7, WorkDoes, WorkThrowsDoes, OnSucceedDoes DEF Same
<1>8. ASSUME NEW c \in Callers, Serve(c)
      PROVE  Kept
  BY <1>1, <1>8, ServeDoes DEF Same
<1>9. ASSUME NEW c \in Callers, FetchFails(c) \/ Dies(c)
      PROVE  /\ UNCHANGED <<calls, effects, told, approvals>> /\ faults' = faults + 1
             /\ unheard \subseteq unheard' /\ unheard' \subseteq unheard \cup ({request[c].key} \cap Keys)
  <2>1. CASE FetchFails(c)
    <3>1. request[c].key \in Keys
      BY <1>1, <2>1, FetchFailsDoes DEF Fetches
    <3>2. faults' = faults + 1  BY <2>1 DEF FetchFails, Fault
    <3>3. QED  BY <1>1, <2>1, <3>1, <3>2, FetchFailsDoes
  <2>2. CASE Dies(c)  BY <2>2 DEF Dies, Fault
  <2>3. QED  BY <1>9, <2>1, <2>2
<1>10. ASSUME NEW r \in late, ServeLate(r)
       PROVE  Kept
  BY <1>1, <1>10, ServeLateDoes DEF Same
<1>11. QED  BY <1>2, <1>3, <1>4, <1>5, <1>6, <1>7, <1>8, <1>9, <1>10, Steps

LEMMA TypeStep ==
  ASSUME HostedAssumption, TypeOK, Asked, [Next]_hostedVars
  PROVE  TypeOK'
<1>1. deployed' = deployed  BY Steps
<1>2. Placed  BY AskedStep
<1>3. Retries' = Retries  BY <1>1 DEF Retries
<1>4. QED  BY <1>1, <1>2, <1>3, CountersStep DEF TypeOK, Placed, States

-----------------------------------------------------------------------------
(* A success that is told of was produced.                                 *)
ProducedBy(c) == Successful(request[c]) => effects[request[c].key] >= 1
Growing == \A k \in Keys : effects[k] \in Nat /\ effects'[k] \in Nat /\ effects'[k] >= effects[k]

LEMMA ProducedLocally ==
  ASSUME Typed, Asked, Produced, Growing, NEW c \in Callers, Rest(c), ~Successful(request'[c]),
         row' = row, late' = late, \A k \in Keys : k \in told' => k \in told \/ effects[k] >= 1
  PROVE  Produced'
<1>1. \A d \in Callers : Successful(request[d]) => request[d].key \in Keys
  BY DEF Typed, Successful, NoRequest, Fetches
<1>2. \A r \in late : r.key \in Keys  BY DEF Asked, Pending, Fetches
<1>3. \A d \in Callers : ProducedBy(d)'
  <2>1. SUFFICES ASSUME NEW d \in Callers, d # c PROVE ProducedBy(d)'
    BY DEF ProducedBy, Successful
  <2>2. request'[d] = request[d]  BY <2>1 DEF Rest
  <2>3. Successful(request[d]) => effects[request[d].key] >= 1 /\ request[d].key \in Keys
    BY <1>1 DEF Produced
  <2>4. QED  BY <2>2, <2>3 DEF ProducedBy, Growing, Successful
<1>4. \A r \in late : Successful(r) => effects'[r.key] >= 1
  BY <1>2 DEF Produced, Growing
<1>5. \A k \in Keys : k \in told' \/ row[k] = "succeeded" => effects'[k] >= 1
  BY DEF Produced, Growing
<1>6. QED  BY <1>3, <1>4, <1>5 DEF Produced, ProducedBy, Successful

LEMMA ProducedStep ==
  ASSUME HostedAssumption, TypeOK, Asked, Produced, [Next]_hostedVars
  PROVE  Produced'
<1>1. Typed /\ effects \in [Keys -> Nat]  BY TypedOK DEF TypeOK
<1>2. ASSUME effects' = effects PROVE Growing
  BY <1>1, <1>2 DEF Growing
<1>3. ASSUME NEW c \in Callers, NEW op \in Operations, NEW k, NEW n, Sends(c, op, k, n) \/ Quits(c), op # "succeed",
             row' = row, late' = late, effects' = effects, \A l \in Keys : l \in told' => l \in told \/ effects[l] >= 1
      PROVE  Produced'
  <2>1. Rest(c) /\ ~Successful(request'[c])
    BY <1>3 DEF Sends, Quits, Moved, Successful, NoRequest
  <2>2. QED  BY <1>1, <1>2, <1>3, <2>1, ProducedLocally
<1>4. CASE UNCHANGED hostedVars
  BY <1>4 DEF hostedVars, Produced, Successful
<1>5. ASSUME NEW c \in Callers, NEW k \in Keys, NEW does \in {"run", "approve", "reject"}, Call(c, k, does)
      PROVE  Produced'
  <2>1. Sends(c, "get", k, 0) /\ row' = row /\ late' = late /\ effects' = effects /\ told' = told
    BY <1>1, <1>5, CallDoes DEF Same
  <2>2. "get" \in Operations  BY DEF Operations
  <2>3. QED  BY <1>3, <2>1, <2>2
<1>6. ASSUME NEW c \in Callers, caller[c].key \in Keys, OnGet(c) \/ Decide(c) \/ OnInsert(c)
      PROVE  Produced'
  <2>1. /\ row' = row /\ late' = late /\ effects' = effects /\ caller[c].pc \notin {"idle", "work"}
        /\ Quits(c) \/ \E op \in Operations \ {"succeed"} : Sends(c, op, caller[c].key, caller[c].attempt)
        /\ told' = told \/ (Found(c, "succeeded") /\ told' = told \cup {caller[c].key})
    <3>1. {"insert", "running", "approve", "reject", Verdict(caller[c].key)} \subseteq Operations \ {"succeed"}
      BY VerdictIs, MarksAre DEF Operations
    <3>2. CASE OnGet(c)  BY <1>1, <1>6, <3>1, <3>2, OnGetDoes
    <3>3. CASE Decide(c)  BY <1>1, <1>6, <3>1, <3>3, DecideDoes
    <3>4. CASE OnInsert(c)  BY <1>1, <1>6, <3>1, <3>4, OnInsertDoes
    <3>5. QED  BY <1>6, <3>2, <3>3, <3>4
  <2>2. request[c].key = caller[c].key
    BY <2>1 DEF Asked, CallerAsks
  <2>3. \A l \in Keys : l \in told' => l \in told \/ effects[l] >= 1
    BY <2>1, <2>2 DEF Produced, Successful, Found
  <2>4. PICK op : op \in Operations \ {"succeed"} /\ (Quits(c) \/ Sends(c, op, caller[c].key, caller[c].attempt))
    BY <2>1, MarksAre DEF Operations
  <2>5. QED  BY <1>3, <2>1, <2>3, <2>4
<1>7. ASSUME NEW c \in Callers, caller[c].key \in Keys, OnMark(c) \/ OnRunning(c)
      PROVE  Produced'
  <2>1. row' = row /\ late' = late /\ effects' = effects /\ told' = told
    BY <1>1, <1>7, OnMarkDoes, OnRunningDoes DEF Same
  <2>2. Rest(c) /\ request'[c] = NoRequest
    BY <1>1, <1>7, OnMarkDoes, OnRunningDoes DEF Quits, Moved
  <2>3. ~Successful(request'[c])  BY <2>2 DEF Successful, NoRequest
  <2>4. QED  BY <1>1, <1>2, <2>1, <2>2, <2>3, ProducedLocally
<1>8. ASSUME NEW c \in Callers, caller[c].key \in Keys, Work(c)
      PROVE  Produced'
  <2> DEFINE k == caller[c].key
  <2>1. /\ Sends(c, "succeed", k, caller[c].attempt) /\ effects' = [effects EXCEPT ![k] = @ + 1]
        /\ row' = row /\ late' = late /\ told' = told
    BY <1>1, <1>8, WorkDoes
  <2>2. Growing /\ effects'[k] >= 1  BY <1>1, <1>8, <2>1 DEF Growing
  <2>3. \A d \in Callers : Successful(request[d]) => request[d].key \in Keys
    BY <1>1 DEF Typed, Successful, NoRequest, Fetches
  <2>4. \A r \in late : r.key \in Keys  BY DEF Asked, Pending, Fetches
  <2>5. \A d \in Callers : Successful(request'[d]) => effects'[request'[d].key] >= 1
    <3>1. SUFFICES ASSUME NEW d \in Callers, Successful(request'[d]), d # c
                   PROVE  effects'[request'[d].key] >= 1
      BY <2>1, <2>2 DEF Sends
    <3>2. request'[d] = request[d]  BY <2>1, <3>1 DEF Sends, Moved, Rest
    <3>3. QED  BY <2>2, <2>3, <3>1, <3>2 DEF Produced, Growing
  <2>6. QED  BY <2>1, <2>2, <2>4, <2>5 DEF Produced, Growing, Successful
<1>9. ASSUME NEW c \in Callers, caller[c].key \in Keys, WorkThrows(c) \/ OnSucceed(c)
      PROVE  Produced'
  <2>1. /\ row' = row /\ late' = late /\ effects' = effects /\ (Retried(c) \/ Quits(c))
        /\ told' = told \/ (caller[c].pc = "succeed" /\ told' = told \cup {caller[c].key})
    BY <1>1, <1>9, WorkThrowsDoes, OnSucceedDoes DEF Same
  <2>2. caller[c].pc = "succeed" => request[c].key = caller[c].key /\ request[c].op = "succeed"
    BY DEF Asked, CallerAsks
  <2>3. \A l \in Keys : l \in told' => l \in told \/ effects[l] >= 1
    BY <2>1, <2>2 DEF Produced, Successful
  <2>4. {"running", "fail"} \subseteq Operations  BY MarksAre DEF Operations
  <2>5. QED  BY <1>3, <2>1, <2>3, <2>4 DEF Retried
<1>10. ASSUME NEW r, Pending(r), Successful(r) => effects[r.key] >= 1, NEW s, Serves(r, s), effects' = effects
       PROVE  /\ Successful(s) => effects[s.key] >= 1
              /\ \A k \in Keys : row'[k] = "succeeded" => effects[k] >= 1
  <2>1. /\ s.op = r.op /\ s.key = r.key /\ r.key \in Keys
        /\ \A k \in Keys : k # r.key => row'[k] = row[k]
    BY <1>1, <1>10, ServesTyped
  <2>2. row[r.key] = "succeeded" => effects[r.key] >= 1  BY <2>1 DEF Produced
  <2>3. r \in Fetches /\ r.answer = "none"  BY <1>10 DEF Pending, Asking
  <2>4. s.answer = "succeeded" => row[r.key] = "succeeded"
    BY <1>10, <2>3 DEF Serves, Answers, Fetches
  <2>5. row'[r.key] = "succeeded" => row[r.key] = "succeeded" \/ r.op = "succeed"
    <3>1. row \in [Keys -> Status \cup {"missing"}]  BY <1>1 DEF Typed
    <3>2. \A op \in Marks : Target[op] = "succeeded" => op = "succeed"  BY DEF Marks, Target
    <3>3. QED  BY <1>10, <2>1, <3>1, <3>2 DEF Serves
  <2>6. QED  BY <1>10, <2>1, <2>2, <2>4, <2>5 DEF Produced, Successful
<1>11. ASSUME NEW c \in Callers, Serve(c)
       PROVE  Produced'
  <2>1. /\ Pending(request[c]) /\ Serves(request[c], request'[c]) /\ Rest(c) /\ late' = late
        /\ effects' = effects /\ told' = told
    BY <1>1, <1>11, ServeDoes DEF Same, Moved
  <2>2. /\ Successful(request'[c]) => effects[request'[c].key] >= 1
        /\ \A k \in Keys : row'[k] = "succeeded" => effects[k] >= 1
    <3>1. PICK s : s = request'[c]  OBVIOUS
    <3>2. Successful(request[c]) => effects[request[c].key] >= 1  BY DEF Produced
    <3>3. QED  BY <1>10, <2>1, <3>1, <3>2 DEF Successful
  <2>3. QED  BY <2>1, <2>2 DEF Produced, Rest, Successful
<1>12. ASSUME NEW c \in Callers, FetchFails(c) \/ Dies(c)
       PROVE  Produced'
  <2>1. /\ row' = row /\ Rest(c) /\ effects' = effects /\ told' = told
        /\ late' = late \/ late' = late \cup {request[c]}
    BY <1>1, <1>12, FetchFailsDoes, DiesDoes DEF Quits, Same, Moved
  <2>2. Successful(request'[c]) => Successful(request[c]) /\ request'[c].key = request[c].key
    <3>1. CASE FetchFails(c)
      BY <1>1, <3>1, FetchFailsDoes DEF Successful, Fetches
    <3>2. CASE Dies(c)
      BY <1>1, <3>2, DiesDoes DEF Successful, Quits, NoRequest
    <3>3. QED  BY <1>12, <3>1, <3>2
  <2>3. QED  BY <2>1, <2>2 DEF Produced, Rest, Successful
<1>13. ASSUME NEW r \in late, ServeLate(r)
       PROVE  Produced'
  <2>1. Pending(r) /\ request' = request /\ effects' = effects /\ told' = told
    BY <1>1, <1>13, ServeLateDoes DEF Same
  <2>2. PICK s : Serves(r, s) /\ late' \subseteq late \cup {s}
    BY <1>1, <1>13, ServeLateDoes
  <2>3. /\ Successful(s) => effects[s.key] >= 1
        /\ \A k \in Keys : row'[k] = "succeeded" => effects[k] >= 1
    <3>1. Successful(r) => effects[r.key] >= 1  BY DEF Produced
    <3>2. QED  BY <1>10, <2>1, <2>2, <3>1
  <2>4. QED  BY <2>1, <2>2, <2>3 DEF Produced, Successful
<1>14. QED  BY <1>4, <1>5, <1>6, <1>7, <1>8, <1>9, <1>11, <1>12, <1>13, Steps

-----------------------------------------------------------------------------
(* What the policies deny is not done.                                     *)
RefusedBy(c, k) == caller[c].key = k => request[c] # NoRequest /\ Refused(request[c])

LEMMA UntouchedLocally ==
  ASSUME NEW k \in Keys, Untouched(k), NEW c \in Callers, Rest(c), RefusedBy(c, k)',
         row' = row, late' = late, effects'[k] = effects[k]
  PROVE  Untouched(k)'
BY DEF Untouched, RefusedBy, Rest, Refused

LEMMA UntouchedStep ==
  ASSUME HostedAssumption, TypeOK, Asked, NEW k \in Denied, Untouched(k), [Next]_hostedVars
  PROVE  Untouched(k)'
<1>1. Typed /\ effects \in [Keys -> Nat]  BY TypedOK DEF TypeOK
<1>2. k \in Keys /\ None # k /\ k \in Keys  BY <1>1, Deployed
<1>3. ASSUME NEW c \in Callers, NEW op \in {"get", "insert", "deny"}, NEW l, NEW n, Sends(c, op, l, n),
             row' = row, late' = late, effects' = effects
      PROVE  Untouched(k)'
  <2>1. RefusedBy(c, k)'
    BY <1>3 DEF Sends, RefusedBy, Refused, Fetches, NoRequest
  <2>2. QED  BY <1>2, <1>3, <2>1, UntouchedLocally DEF Sends, Moved
<1>4. ASSUME NEW c \in Callers, Quits(c), row' = row, late' = late, effects' = effects
      PROVE  Untouched(k)'
  <2>1. RefusedBy(c, k)'
    BY <1>2, <1>4 DEF Quits, RefusedBy, Idle
  <2>2. QED  BY <1>2, <1>4, <2>1, UntouchedLocally DEF Quits, Moved
<1>5. ASSUME NEW c \in Callers, NEW l, l # k, NEW op, NEW n, Sends(c, op, l, n), row' = row, late' = late, effects'[k] = effects[k]
      PROVE  Untouched(k)'
  <2>1. RefusedBy(c, k)'  BY <1>5 DEF Sends, RefusedBy
  <2>2. QED  BY <1>2, <1>5, <2>1, UntouchedLocally DEF Sends, Moved
<1>6. \A c \in Callers : caller[c].key = k => request[c] # NoRequest /\ Refused(request[c])
                                              /\ caller[c].pc \in {"get", "insert", "deny"}
  BY MarksAre DEF Untouched, Refused, Asked, CallerAsks
<1>7. CASE UNCHANGED hostedVars
  BY <1>7 DEF hostedVars, Untouched, Refused
<1>8. ASSUME NEW c \in Callers, NEW l \in Keys, NEW does \in {"run", "approve", "reject"}, Call(c, l, does)
      PROVE  Untouched(k)'
  BY <1>1, <1>3, <1>8, CallDoes DEF Same
<1>9. ASSUME NEW c \in Callers, caller[c].key \in Keys, OnGet(c)
      PROVE  Untouched(k)'
  <2>1. UNCHANGED <<row, late, effects>>  BY <1>1, <1>9, OnGetDoes
  <2>2. CASE caller[c].key # k  BY <1>1, <1>4, <1>5, <1>9, <2>1, <2>2, OnGetDoes
  <2>3. CASE caller[c].key = k
    <3>1. ~Found(c, "failed") /\ ~Found(c, "approved")
      BY <1>1, <1>6, <1>9, <2>3, OnGetDoes DEF Refused, Found, Asked, CallerAsks
    <3>2. QED  BY <1>1, <1>3, <1>4, <1>9, <2>1, <3>1, OnGetDoes
  <2>4. QED  BY <2>2, <2>3
<1>10. ASSUME NEW c \in Callers, caller[c].key \in Keys, Decide(c)
      PROVE  Untouched(k)'
  <2>1. UNCHANGED <<row, late, effects>>  BY <1>1, <1>10, DecideDoes
  <2>2. CASE caller[c].key # k  BY <1>1, <1>4, <1>5, <1>10, <2>1, <2>2, DecideDoes
  <2>3. CASE caller[c].key = k
    <3>1. ~Found(c, "awaiting_approval")
      BY <1>1, <1>6, <1>10, <2>3, DecideDoes DEF Refused, Found, Asked, CallerAsks
    <3>2. QED  BY <1>1, <1>4, <1>10, <2>1, <3>1, DecideDoes
  <2>4. QED  BY <2>2, <2>3
<1>11. ASSUME NEW c \in Callers, caller[c].key \in Keys, OnInsert(c)
      PROVE  Untouched(k)'
  <2>1. UNCHANGED <<row, late, effects>>  BY <1>1, <1>11, OnInsertDoes
  <2>2. CASE caller[c].key # k  BY <1>1, <1>4, <1>5, <1>11, <2>1, <2>2, OnInsertDoes
  <2>3. CASE caller[c].key = k
    BY <1>1, <1>3, <1>4, <1>11, <2>1, <2>3, OnInsertDoes, VerdictIs
  <2>4. QED  BY <2>2, <2>3
<1>12. ASSUME NEW c \in Callers, caller[c].key \in Keys, OnMark(c)
      PROVE  Untouched(k)'
  BY <1>1, <1>4, <1>12, OnMarkDoes DEF Same
<1>13. ASSUME NEW c \in Callers, caller[c].key \in Keys, OnRunning(c)
      PROVE  Untouched(k)'
  <2>1. caller[c].key # k  BY <1>1, <1>6, <1>13, OnRunningDoes
  <2>2. UNCHANGED <<row, late, effects>> /\ Rest(c)
    BY <1>1, <1>13, OnRunningDoes DEF Quits, Moved, Same
  <2>3. RefusedBy(c, k)'
    BY <1>1, <1>2, <1>13, <2>1, OnRunningDoes DEF Quits, RefusedBy, Idle
  <2>4. QED  BY <1>2, <2>2, <2>3, UntouchedLocally
<1>14. ASSUME NEW c \in Callers, caller[c].key \in Keys, Work(c) \/ WorkThrows(c) \/ OnSucceed(c)
      PROVE  Untouched(k)'
  <2>1. caller[c].key # k  BY <1>1, <1>6, <1>14, WorkDoes, WorkThrowsDoes, OnSucceedDoes
  <2>2. row' = row /\ late' = late /\ effects'[k] = effects[k]
    BY <1>1, <1>2, <1>14, <2>1, WorkDoes, WorkThrowsDoes, OnSucceedDoes DEF Same
  <2>3. Quits(c) \/ (\E op, n : Sends(c, op, caller[c].key, n))
    BY <1>1, <1>14, WorkDoes, WorkThrowsDoes, OnSucceedDoes DEF Retried
  <2>4. CASE Quits(c)
    <3>1. RefusedBy(c, k)'  BY <1>2, <2>4 DEF Quits, RefusedBy, Idle
    <3>2. QED  BY <1>2, <2>2, <2>4, <3>1, UntouchedLocally DEF Quits, Moved
  <2>5. QED  BY <1>5, <2>1, <2>2, <2>3, <2>4
<1>15. ASSUME NEW r, Pending(r), r.key = k => Refused(r), NEW s, Serves(r, s)
       PROVE  /\ s.key = r.key /\ (s.key = k => Refused(s)) /\ s # NoRequest
              /\ row'[k] \in {"missing", "pending", "denied"}
  <2>1. /\ s.op = r.op /\ s.key = r.key /\ r.key \in Keys /\ s \in Fetches
        /\ \A l \in Keys : l # r.key => row'[l] = row[l]
    BY <1>1, <1>15, ServesTyped
  <2>2. s # NoRequest  BY <2>1 DEF Fetches, NoRequest
  <2>3. CASE r.key # k  BY <1>2, <2>1, <2>2, <2>3 DEF Untouched
  <2>4. CASE r.key = k
    <3>1. row \in [Keys -> Status \cup {"missing"}] /\ row[k] \in {"missing", "pending", "denied"}
      BY <1>1 DEF Typed, Untouched
    <3>2. r.op \in {"get", "insert", "deny"} /\ Target["deny"] = "denied"
      BY <1>15, <2>4 DEF Refused, Target
    <3>3. r \in Fetches  BY <1>15 DEF Pending
    <3>4. s.op \in {"get", "insert"} => s.answer = row[k]
      BY <1>15, <2>1, <2>4, <3>2, <3>3, MarksAre DEF Serves, Answers, Fetches
    <3>5. row'[k] \in {"missing", "pending", "denied"}
      BY <1>2, <1>15, <2>4, <3>1, <3>2, MarksAre DEF Serves
    <3>6. QED  BY <2>1, <2>2, <3>1, <3>2, <3>4, <3>5 DEF Refused
  <2>5. QED  BY <2>3, <2>4
<1>16. ASSUME NEW c \in Callers, Serve(c)
       PROVE  Untouched(k)'
  <2>1. /\ Pending(request[c]) /\ Serves(request[c], request'[c]) /\ Rest(c) /\ late' = late
        /\ effects' = effects /\ caller' = caller /\ request[c] \in Fetches
    BY <1>1, <1>16, ServeDoes DEF Same, Moved
  <2>2. request[c].key = caller[c].key
    BY <2>1 DEF Asked, CallerAsks, NoRequest, Fetches
  <2>3. /\ caller[c].key = k => Refused(request'[c]) /\ request'[c] # NoRequest
        /\ row'[k] \in {"missing", "pending", "denied"}
    <3>1. PICK s : s = request'[c]  OBVIOUS
    <3>2. request[c].key = k => Refused(request[c])  BY <1>6, <2>2
    <3>3. QED  BY <1>15, <2>1, <2>2, <3>1, <3>2
  <2>4. QED  BY <2>1, <2>3 DEF Untouched, Rest, Refused
<1>17. ASSUME NEW c \in Callers, FetchFails(c) \/ Dies(c)
       PROVE  Untouched(k)'
  <2>1. /\ row' = row /\ Rest(c) /\ effects' = effects
        /\ late' = late \/ (request[c] \in Fetches /\ late' = late \cup {request[c]})
    BY <1>1, <1>17, FetchFailsDoes, DiesDoes DEF Quits, Same, Moved
  <2>2. request[c] \in Fetches => request[c].key = caller[c].key
    BY DEF Asked, CallerAsks, NoRequest, Fetches
  <2>3. RefusedBy(c, k)'
    <3>1. CASE FetchFails(c)
      <4>1. /\ request[c] \in Fetches /\ caller' = caller /\ request'[c] \in Fetches
            /\ request'[c].op = request[c].op /\ request'[c].answer = "error"
        BY <1>1, <3>1, FetchFailsDoes DEF Fetches
      <4>2. request'[c] # NoRequest  BY <4>1 DEF Fetches, NoRequest
      <4>3. QED  BY <1>6, <4>1, <4>2 DEF RefusedBy, Refused
    <3>2. CASE Dies(c)
      BY <1>1, <1>2, <3>2, DiesDoes DEF RefusedBy, Quits, Idle
    <3>3. QED  BY <1>17, <3>1, <3>2
  <2>4. \A r \in late' : r.key = k => Refused(r)
    BY <1>6, <2>1, <2>2 DEF Untouched
  <2>5. QED  BY <2>1, <2>3, <2>4 DEF Untouched, Rest, Refused, RefusedBy
<1>18. ASSUME NEW r \in late, ServeLate(r)
       PROVE  Untouched(k)'
  <2>1. Pending(r) /\ request' = request /\ effects' = effects /\ caller' = caller
    BY <1>1, <1>18, ServeLateDoes DEF Same
  <2>2. PICK s : Serves(r, s) /\ late' \subseteq late \cup {s}
    BY <1>1, <1>18, ServeLateDoes
  <2>3. (s.key = k => Refused(s)) /\ row'[k] \in {"missing", "pending", "denied"}
    <3>1. r.key = k => Refused(r)  BY DEF Untouched
    <3>2. QED  BY <1>15, <2>1, <2>2, <3>1
  <2>4. QED  BY <2>1, <2>2, <2>3 DEF Untouched, Refused
<1>19. QED
  BY <1>7, <1>8, <1>9, <1>10, <1>11, <1>12, <1>13, <1>14, <1>16, <1>17, <1>18, Steps

-----------------------------------------------------------------------------
(* An approval pays for the attempts that are made on it.                  *)
LEMMA Times ==
  ASSUME NEW n \in Nat, NEW u \in Nat, NEW v \in Nat
  PROVE  /\ n * u \in Nat /\ n * (u + 1) = n * u + n /\ u * n = n * u
         /\ v <= u => n * v <= n * u
<1>1. n * u \in Nat /\ n * (u + 1) = n * u + n /\ u * n = n * u
  OBVIOUS
<1>2. ASSUME v <= u PROVE n * v <= n * u
  <2>1. PICK d \in Nat : u = v + d
    <3>1. u - v \in Nat /\ u = v + (u - v)  BY <1>2
    <3>2. QED  BY <3>1
  <2>2. n * (v + d) = n * v + n * d /\ n * d \in Nat /\ n * v \in Nat  OBVIOUS
  <2>3. QED  BY <2>1, <2>2
<1>3. QED  BY <1>1, <1>2

(* The sets are finite.                                                    *)
LEMMA SlotsFinite ==
  ASSUME HostedAssumption, Typed
  PROVE  IsFiniteSet(Slots) /\ Cardinality(Slots) \in Nat
                            /\ Cardinality(Slots) = Cardinality(Callers) * (1 + Retries)
<1>1. Retries \in Nat /\ IsFiniteSet(Callers)  BY Deployed
<1>2. IsFiniteSet(0 .. Retries) /\ Cardinality(0 .. Retries) = 1 + Retries
  BY <1>1, FS_Interval
<1>3. QED  BY <1>1, <1>2, FS_Product, FS_CardinalityType DEF Slots

LateSlots(k) ==
  {[op |-> "approve", key |-> k, at |-> "sent", answer |-> "none"]}
    \cup {[op |-> "approve", key |-> k, at |-> "checked", answer |-> "none"]}
LEMMA LateFinite ==
  ASSUME NEW R, \A r \in R : Pending(r), NEW k
  PROVE  IsFiniteSet({r \in R : Approving(r, k)}) /\ Cardinality({r \in R : Approving(r, k)}) \in Nat
<1>1. ASSUME NEW r \in R, Approving(r, k) PROVE r \in LateSlots(k)
  <2>1. r \in Fetches /\ r.op = "approve" /\ r.key = k /\ r.at \in {"sent", "checked"} /\ r.answer = "none"
    BY <1>1 DEF Approving, Pending, Asking
  <2>2. r = [op |-> r.op, key |-> r.key, at |-> r.at, answer |-> r.answer]
    BY <2>1 DEF Fetches
  <2>3. CASE r.at = "sent"
    BY <2>1, <2>2, <2>3 DEF LateSlots
  <2>4. CASE r.at = "checked"
    BY <2>1, <2>2, <2>4 DEF LateSlots
  <2>5. QED  BY <2>1, <2>3, <2>4
<1>2. IsFiniteSet(LateSlots(k))
  <2> DEFINE a == [op |-> "approve", key |-> k, at |-> "sent", answer |-> "none"]
             b == [op |-> "approve", key |-> k, at |-> "checked", answer |-> "none"]
  <2> HIDE DEF a, b
  <2>1. IsFiniteSet({a}) /\ IsFiniteSet({b})  BY FS_Singleton
  <2>2. IsFiniteSet({a} \cup {b})  BY <2>1, FS_Union
  <2>3. QED  BY <2>2 DEF LateSlots, a, b
<1>3. {r \in R : Approving(r, k)} \subseteq LateSlots(k)
  BY <1>1
<1>4. QED  BY <1>2, <1>3, FS_Subset, FS_CardinalityType

(* The counts before and after a step are numbers.                         *)
Counted(k) ==
  /\ IsFiniteSet(Open(k)) /\ IsFiniteSet(Left(k)) /\ IsFiniteSet(OwnApprovals(k)) /\ IsFiniteSet(LateApprovals(k))
  /\ Cardinality(Open(k)) \in Nat /\ Cardinality(Left(k)) \in Nat
  /\ Cardinality(OwnApprovals(k)) \in Nat /\ Cardinality(LateApprovals(k)) \in Nat
LEMMA Counting ==
  ASSUME HostedAssumption, TypeOK, Asked, Asked', deployed' = deployed, NEW k
  PROVE  Counted(k) /\ Counted(k)' /\ Slots' = Slots
<1>1. Typed  BY TypedOK
<1>2. Slots' = Slots  BY DEF Slots, Retries
<1>3. \A r \in late : Pending(r)  BY DEF Asked
<1>4. \A r \in late' : Pending(r)  BY DEF Asked, Pending, Asking, Fetches
<1>5. /\ Open(k) \subseteq Slots /\ Left(k) \subseteq Slots /\ OwnApprovals(k) \subseteq Callers
      /\ Open(k)' \subseteq Slots /\ Left(k)' \subseteq Slots /\ OwnApprovals(k)' \subseteq Callers
  BY <1>2 DEF Open, Left, OwnApprovals
<1>6. \A S : S \subseteq Slots \/ S \subseteq Callers => IsFiniteSet(S) /\ Cardinality(S) \in Nat
  BY <1>1, SlotsFinite, Deployed, FS_Subset, FS_CardinalityType
<1>7. IsFiniteSet(LateApprovals(k)) /\ Cardinality(LateApprovals(k)) \in Nat
  BY <1>3, LateFinite DEF LateApprovals
<1>8. IsFiniteSet(LateApprovals(k)') /\ Cardinality(LateApprovals(k)') \in Nat
  BY <1>4, LateFinite DEF LateApprovals
<1>9. QED  BY <1>2, <1>5, <1>6, <1>7, <1>8 DEF Counted

Claims(k) == effects[k] + Cardinality(Open(k)) + Cardinality(Left(k))
Waits(k) == Cardinality(OwnApprovals(k)) + Cardinality(LateApprovals(k))
Context(k) ==
  /\ HostedAssumption /\ TypeOK /\ Asked /\ Asked' /\ deployed' = deployed /\ k \in Keys /\ Paid(k)
  /\ effects' \in [Keys -> Nat] /\ approvals' \in [Keys -> Nat]

LEMMA PaidKept ==
  ASSUME NEW k, Context(k)
  PROVE  /\ Claims(k)' <= Claims(k) /\ Waits(k)' <= Waits(k) /\ approvals'[k] = approvals[k] => Paid(k)'
         /\ /\ Claims(k)' <= Claims(k) + Cardinality(Slots) /\ Waits(k)' + 1 <= Waits(k)
            /\ approvals'[k] = approvals[k]
            => Paid(k)'
         /\ Claims(k)' <= Claims(k) /\ Waits(k)' <= Waits(k) + 1 /\ approvals'[k] = approvals[k] + 1 => Paid(k)'
<1>1. Counted(k) /\ Counted(k)' /\ Slots' = Slots
  BY Counting DEF Context
<1>2. Cardinality(Slots) \in Nat  BY SlotsFinite, TypedOK DEF Context
<1>3. effects[k] \in Nat /\ effects'[k] \in Nat /\ approvals[k] \in Nat /\ approvals'[k] \in Nat
  BY DEF Context, TypeOK
<1>4. Balanced(effects[k], Cardinality(Open(k)), Cardinality(Left(k)), Cardinality(OwnApprovals(k)),
               Cardinality(LateApprovals(k)), Cardinality(Slots), approvals[k])
  BY DEF Context, Paid
<1>5. Paid(k)' <=> Balanced(effects'[k], Cardinality(Open(k)'), Cardinality(Left(k)'), Cardinality(OwnApprovals(k)'),
                            Cardinality(LateApprovals(k)'), Cardinality(Slots), approvals'[k])
  BY <1>1 DEF Paid, Balanced
<1>6. PICK o \in Nat, l \in Nat, u \in Nat, v \in Nat, n \in Nat, oo \in Nat, ll \in Nat, uu \in Nat, vv \in Nat :
        /\ o = Cardinality(Open(k)) /\ l = Cardinality(Left(k)) /\ u = Cardinality(OwnApprovals(k))
        /\ v = Cardinality(LateApprovals(k)) /\ n = Cardinality(Slots)
        /\ oo = Cardinality(Open(k)') /\ ll = Cardinality(Left(k)') /\ uu = Cardinality(OwnApprovals(k)')
        /\ vv = Cardinality(LateApprovals(k)')
  BY <1>1, <1>2 DEF Counted
<1>7. PICK e \in Nat, ee \in Nat, a \in Nat, aa \in Nat :
        e = effects[k] /\ ee = effects'[k] /\ a = approvals[k] /\ aa = approvals'[k]
  BY <1>3
<1>8. /\ Claims(k) = e + o + l /\ Claims(k)' = ee + oo + ll /\ Waits(k) = u + v /\ Waits(k)' = uu + vv
      /\ Balanced(e, o, l, u, v, n, a) /\ (Paid(k)' <=> Balanced(ee, oo, ll, uu, vv, n, aa))
  BY <1>4, <1>5, <1>6, <1>7 DEF Claims, Waits
<1>9. /\ ee + oo + ll <= e + o + l /\ uu + vv <= u + v /\ aa = a => Balanced(ee, oo, ll, uu, vv, n, aa)
      /\ ee + oo + ll <= e + o + l + n /\ uu + vv + 1 <= u + v /\ aa = a => Balanced(ee, oo, ll, uu, vv, n, aa)
      /\ ee + oo + ll <= e + o + l /\ uu + vv <= u + v + 1 /\ aa = a + 1 => Balanced(ee, oo, ll, uu, vv, n, aa)
  <2> DEFINE x == n * (u + v)
             y == n * (uu + vv)
  <2>1. /\ x \in Nat /\ y \in Nat /\ n * a \in Nat /\ a * n = n * a /\ (a + 1) * n = n * a + n
        /\ uu + vv <= u + v => y <= x
    BY Times
  <2>2. uu + vv + 1 <= u + v => y + n <= x
    <3>1. n * (uu + vv + 1) = y + n /\ (uu + vv + 1 <= u + v => n * (uu + vv + 1) <= x)
      BY Times
    <3>2. QED  BY <3>1
  <2>3. uu + vv <= u + v + 1 => y <= x + n
    <3>1. n * (u + v + 1) = x + n /\ (uu + vv <= u + v + 1 => y <= n * (u + v + 1))
      BY Times
    <3>2. QED  BY <3>1
  <2>4. e + o + l + x <= a * n  BY <1>8 DEF Balanced
  <2>5. SUFFICES /\ ee + oo + ll <= e + o + l /\ uu + vv <= u + v /\ aa = a => ee + oo + ll + y <= aa * n
                 /\ ee + oo + ll <= e + o + l + n /\ uu + vv + 1 <= u + v /\ aa = a => ee + oo + ll + y <= aa * n
                 /\ ee + oo + ll <= e + o + l /\ uu + vv <= u + v + 1 /\ aa = a + 1 => ee + oo + ll + y <= aa * n
    BY DEF Balanced
  <2> HIDE DEF x, y
  <2>6. QED  BY <2>1, <2>2, <2>3, <2>4
<1>10. QED  BY <1>6, <1>7, <1>8, <1>9

(* Fewer slots are held or used.                                           *)
LEMMA FewerSlots ==
  ASSUME deployed' = deployed, NEW k, NEW c \in Callers, Rest(c),
         row'[k] = "approved" => row[k] = "approved",
         Holds(c, k)' => Holds(c, k) \/ row[k] = "approved",
         \A i \in 0 .. Retries : Unused(c, k, i)' => Unused(c, k, i)
  PROVE  Open(k)' \subseteq Open(k) /\ Left(k)' \subseteq Left(k)
<1>1. Slots' = Slots /\ Slots = Callers \X (0 .. Retries)  BY DEF Slots, Retries
<1>2. \A d \in Callers \ {c} : caller'[d] = caller[d] /\ request'[d] = request[d]  BY DEF Rest
<1>3. \A d \in Callers : Holds(d, k)' => Holds(d, k) \/ row[k] = "approved"
  BY <1>2 DEF Holds
<1>4. \A d \in Callers, i \in 0 .. Retries : Unused(d, k, i)' => Unused(d, k, i)
  BY <1>2 DEF Unused, Spent
<1>5. QED  BY <1>1, <1>3, <1>4 DEF Open, Left

(* A step of a caller that neither does the work nor approves.             *)
LEMMA PaidLocally ==
  ASSUME NEW k, Context(k), NEW c \in Callers, Rest(c),
         row'[k] = "approved" => row[k] = "approved", late' = late,
         effects'[k] = effects[k], approvals'[k] = approvals[k],
         Approving(request'[c], k) => Approving(request[c], k),
         Holds(c, k)' => Holds(c, k) \/ row[k] = "approved",
         \A i \in 0 .. Retries : Unused(c, k, i)' => Unused(c, k, i)
  PROVE  Paid(k)'
<1>1. Counted(k) /\ Counted(k)'  BY Counting DEF Context
<1>2. Open(k)' \subseteq Open(k) /\ Left(k)' \subseteq Left(k)
  BY FewerSlots DEF Context
<1>3. OwnApprovals(k)' \subseteq OwnApprovals(k) /\ LateApprovals(k)' = LateApprovals(k)
  BY DEF OwnApprovals, LateApprovals, Rest, Approving
<1>4. /\ Cardinality(Open(k)') <= Cardinality(Open(k)) /\ Cardinality(Left(k)') <= Cardinality(Left(k))
      /\ Cardinality(OwnApprovals(k)') <= Cardinality(OwnApprovals(k))
  BY <1>1, <1>2, <1>3, FS_Subset DEF Counted
<1>5. effects[k] \in Nat  BY DEF Context, TypeOK
<1>6. Claims(k)' <= Claims(k) /\ Waits(k)' <= Waits(k)
  BY <1>1, <1>3, <1>4, <1>5 DEF Claims, Waits, Counted
<1>7. QED  BY <1>6, PaidKept

LEMMA PaidQuits ==
  ASSUME NEW k, Context(k), NEW c \in Callers, Quits(c), row' = row, late' = late,
         effects'[k] = effects[k], approvals'[k] = approvals[k]
  PROVE  Paid(k)'
<1>1. k # None  BY DEF Context, HostedAssumption
<1>2. ~Holds(c, k)' /\ ~Approving(request'[c], k) /\ \A i \in 0 .. Retries : ~Unused(c, k, i)'
  BY <1>1 DEF Quits, Holds, Unused, Spent, Idle, Approving, NoRequest
<1>3. QED  BY <1>2, PaidLocally DEF Quits, Moved

LEMMA PaidSends ==
  ASSUME NEW k, Context(k), NEW c \in Callers, NEW op, NEW l, NEW n \in Nat, Sends(c, op, l, n), row' = row, late' = late,
         effects'[k] = effects[k], approvals'[k] = approvals[k],
         l # k \/ op \notin {"running", "succeed", "approve"}
         \/ (op = "running" /\ n = 0 /\ Holds(c, k))
         \/ (op = "running" /\ n > 0 /\ \A i \in 0 .. Retries : i >= n => Unused(c, k, i))
  PROVE  Paid(k)'
<1>1. CASE l # k \/ op \notin {"running", "succeed", "approve"}
  <2>1. /\ caller'[c].pc = op /\ caller'[c].key = l /\ request'[c].op = op /\ request'[c].key = l
        /\ request'[c].answer = "none"
    BY DEF Sends
  <2>2. ~Holds(c, k)'  BY <1>1, <2>1 DEF Holds
  <2>3. ~Approving(request'[c], k)  BY <1>1, <2>1 DEF Approving
  <2>4. op # "work"
    BY MarksAre DEF Sends, Fetches
  <2>5. ~Spent(c, k)'  BY <1>1, <2>1, <2>4 DEF Spent
  <2>6. QED  BY <2>2, <2>3, <2>5, PaidLocally DEF Sends, Moved, Unused
<1>2. CASE op = "running" /\ n = 0 /\ Holds(c, k)
  <2>1. ~Approving(request'[c], k) /\ \A i \in 0 .. Retries : ~Unused(c, k, i)'
    BY <1>2 DEF Sends, Unused, Spent, Approving
  <2>2. QED  BY <1>2, <2>1, PaidLocally DEF Sends, Moved
<1>3. CASE op = "running" /\ n > 0 /\ \A i \in 0 .. Retries : i >= n => Unused(c, k, i)
  <2>1. ~Holds(c, k)' /\ ~Approving(request'[c], k)
    BY <1>3 DEF Sends, Holds, Approving
  <2>2. \A i \in 0 .. Retries : Unused(c, k, i)' => i >= n
    BY <1>3 DEF Sends, Unused
  <2>3. QED  BY <1>3, <2>1, <2>2, PaidLocally DEF Sends, Moved
<1>4. QED  BY <1>1, <1>2, <1>3

LEMMA PaidWork ==
  ASSUME NEW k, Context(k), NEW c \in Callers, caller[c].key = k, caller[c].pc = "work",
         Sends(c, "succeed", k, caller[c].attempt), row' = row, late' = late,
         effects'[k] = effects[k] + 1, approvals'[k] = approvals[k]
  PROVE  Paid(k)'
<1> DEFINE s == <<c, caller[c].attempt>>
<1>1. Counted(k) /\ Counted(k)' /\ Typed  BY Counting, TypedOK DEF Context
<1>2. caller[c].attempt \in 0 .. Retries /\ Retries \in Nat
  BY <1>1, Places, Deployed DEF Context
<1>3. s \in Left(k)  BY <1>2 DEF Left, Slots, Unused, Spent
<1>4. \A i \in 0 .. Retries : Unused(c, k, i)' => Unused(c, k, i) /\ i # caller[c].attempt
  BY <1>2 DEF Sends, Unused, Spent
<1>5. ~Holds(c, k)'  BY DEF Sends, Holds
<1>6. Open(k)' \subseteq Open(k) /\ Left(k)' \subseteq Left(k)
  BY <1>4, <1>5, FewerSlots DEF Context, Sends, Moved
<1>7. s \notin Left(k)'
  BY <1>2, <1>4 DEF Left
<1>8. Left(k)' \subseteq Left(k) \ {s}
  <2> HIDE DEF s
  <2>1. QED  BY <1>6, <1>7
<1>9. /\ Cardinality(Open(k)') <= Cardinality(Open(k)) /\ Cardinality(Left(k)') <= Cardinality(Left(k)) - 1
  <2> HIDE DEF s
  <2>1. IsFiniteSet(Left(k) \ {s}) /\ Cardinality(Left(k) \ {s}) = Cardinality(Left(k)) - 1
    BY <1>1, <1>3, FS_RemoveElement DEF Counted
  <2>2. QED  BY <1>1, <1>6, <1>8, <2>1, FS_Subset DEF Counted
<1>10. OwnApprovals(k)' \subseteq OwnApprovals(k) /\ LateApprovals(k)' = LateApprovals(k)
  BY DEF OwnApprovals, LateApprovals, Rest, Approving, Sends, Moved
<1>11. Cardinality(OwnApprovals(k)') <= Cardinality(OwnApprovals(k))
  BY <1>1, <1>10, FS_Subset DEF Counted
<1>12. effects[k] \in Nat  BY DEF Context, TypeOK
<1>13. Claims(k)' <= Claims(k) /\ Waits(k)' <= Waits(k)
  BY <1>1, <1>9, <1>10, <1>11, <1>12 DEF Claims, Waits, Counted
<1>14. QED  BY <1>13, PaidKept

(* A reviewer asks for the approval.                                       *)
LEMMA PaidApproves ==
  ASSUME NEW k, Context(k), NEW c \in Callers, NEW n, Sends(c, "approve", k, n), row' = row, late' = late,
         effects'[k] = effects[k], approvals'[k] = approvals[k] + 1
  PROVE  Paid(k)'
<1>1. Counted(k) /\ Counted(k)' /\ Typed  BY Counting, TypedOK DEF Context
<1>2. ~Holds(c, k)' /\ \A i \in 0 .. Retries : ~Unused(c, k, i)'
  BY DEF Sends, Unused, Spent, Holds
<1>3. Open(k)' \subseteq Open(k) /\ Left(k)' \subseteq Left(k)
  BY <1>2, FewerSlots DEF Context, Sends, Moved
<1>4. OwnApprovals(k)' \subseteq OwnApprovals(k) \cup {c} /\ LateApprovals(k)' = LateApprovals(k)
  BY DEF OwnApprovals, LateApprovals, Rest, Approving, Sends, Moved
<1>5. /\ IsFiniteSet(OwnApprovals(k) \cup {c})
      /\ Cardinality(OwnApprovals(k) \cup {c}) \in {Cardinality(OwnApprovals(k)), Cardinality(OwnApprovals(k)) + 1}
  BY <1>1, FS_AddElement DEF Counted
<1>6. /\ Cardinality(Open(k)') <= Cardinality(Open(k)) /\ Cardinality(Left(k)') <= Cardinality(Left(k))
      /\ Cardinality(OwnApprovals(k)') <= Cardinality(OwnApprovals(k) \cup {c})
  BY <1>1, <1>3, <1>4, <1>5, FS_Subset DEF Counted
<1>7. effects[k] \in Nat  BY DEF Context, TypeOK
<1>8. Claims(k)' <= Claims(k) /\ Waits(k)' <= Waits(k) + 1
  BY <1>1, <1>4, <1>5, <1>6, <1>7 DEF Claims, Waits, Counted
<1>9. QED  BY <1>8, PaidKept

(* A caller that no longer waits leaves its approval to be served.         *)
LEMMA PaidHandsOver ==
  ASSUME NEW k, Context(k), NEW c \in Callers, Rest(c), row' = row,
         late' = late \/ late' = late \cup {request[c]}, ~Approving(request'[c], k),
         effects'[k] = effects[k], approvals'[k] = approvals[k],
         Holds(c, k)' => Holds(c, k), \A i \in 0 .. Retries : Unused(c, k, i)' => Unused(c, k, i)
  PROVE  Paid(k)'
<1>1. Counted(k) /\ Counted(k)'  BY Counting DEF Context
<1>2. Open(k)' \subseteq Open(k) /\ Left(k)' \subseteq Left(k)
  BY FewerSlots DEF Context
<1>3. Cardinality(Open(k)') <= Cardinality(Open(k)) /\ Cardinality(Left(k)') <= Cardinality(Left(k))
  BY <1>1, <1>2, FS_Subset DEF Counted
<1>4. OwnApprovals(k)' \subseteq OwnApprovals(k) \ {c}
  BY DEF OwnApprovals, Rest, Approving
<1>5. Waits(k)' <= Waits(k)
  <2>1. CASE Approving(request[c], k)
    <3>1. c \in OwnApprovals(k)  BY <2>1 DEF OwnApprovals
    <3>2. /\ IsFiniteSet(OwnApprovals(k) \ {c})
          /\ Cardinality(OwnApprovals(k) \ {c}) = Cardinality(OwnApprovals(k)) - 1
      BY <1>1, <3>1, FS_RemoveElement DEF Counted
    <3>3. LateApprovals(k)' \subseteq LateApprovals(k) \cup {request[c]}
      BY DEF LateApprovals, Approving
    <3>4. /\ IsFiniteSet(LateApprovals(k) \cup {request[c]})
          /\ Cardinality(LateApprovals(k) \cup {request[c]}) <= Cardinality(LateApprovals(k)) + 1
      <4>1. PICK r : r = request[c]  OBVIOUS
      <4>2. IsFiniteSet(LateApprovals(k)) /\ Cardinality(LateApprovals(k)) \in Nat  BY <1>1 DEF Counted
      <4>3. /\ IsFiniteSet(LateApprovals(k) \cup {r})
            /\ Cardinality(LateApprovals(k) \cup {r}) \in {Cardinality(LateApprovals(k)), Cardinality(LateApprovals(k)) + 1}
        BY <4>2, FS_AddElement
      <4>4. QED  BY <4>1, <4>2, <4>3
    <3>5. /\ Cardinality(OwnApprovals(k)') <= Cardinality(OwnApprovals(k) \ {c})
          /\ Cardinality(LateApprovals(k)') <= Cardinality(LateApprovals(k) \cup {request[c]})
      BY <1>4, <3>2, <3>3, <3>4, FS_Subset
    <3>6. Cardinality(LateApprovals(k) \cup {request[c]}) \in Nat
      BY <3>4, FS_CardinalityType
    <3>7. QED  BY <1>1, <3>2, <3>4, <3>5, <3>6 DEF Waits, Counted
  <2>2. CASE ~Approving(request[c], k)
    <3>1. LateApprovals(k)' \subseteq LateApprovals(k)
      BY <2>2 DEF LateApprovals, Approving
    <3>2. /\ Cardinality(OwnApprovals(k)') <= Cardinality(OwnApprovals(k))
          /\ Cardinality(LateApprovals(k)') <= Cardinality(LateApprovals(k))
      BY <1>1, <1>4, <3>1, FS_Subset DEF Counted
    <3>3. QED  BY <1>1, <3>2 DEF Waits, Counted
  <2>3. QED  BY <2>1, <2>2
<1>6. effects[k] \in Nat  BY DEF Context, TypeOK
<1>7. Claims(k)' <= Claims(k)  BY <1>1, <1>3, <1>6 DEF Claims, Counted
<1>8. QED  BY <1>5, <1>7, PaidKept

(* The API starts the action for a caller: what the caller may use of the  *)
(* approval is no longer to be had.                                        *)
LEMMA PaidStarts ==
  ASSUME NEW k, Context(k), NEW c \in Callers, Rest(c), late' = late, caller' = caller,
         caller[c].key = k, caller[c].pc = "running", request[c].answer = "none", request'[c].answer = "done",
         request'[c].op = "running", row'[k] # "approved", effects'[k] = effects[k], approvals'[k] = approvals[k]
  PROVE  Paid(k)'
<1>1. Counted(k) /\ Counted(k)' /\ Typed  BY Counting, TypedOK DEF Context
<1>2. CASE caller[c].attempt # 0
  <2>1. caller[c].attempt > 0  BY <1>1, <1>2, Places, Deployed DEF Context
  <2>2. ~Holds(c, k)' /\ ~Approving(request'[c], k)
    BY <1>2 DEF Holds, Approving
  <2>3. \A i \in 0 .. Retries : Unused(c, k, i)' => Unused(c, k, i)
    BY <2>1 DEF Unused, Spent
  <2>4. QED  BY <2>2, <2>3, PaidLocally
<1>3. CASE caller[c].attempt = 0
  <2> DEFINE S == {s \in Slots : s[1] = c}
  <2>1. S \subseteq Open(k)
    BY <1>3 DEF Open, Holds
  <2>2. Slots' = Slots /\ Retries' = Retries  BY DEF Context, Slots, Retries
  <2>3. /\ ~Holds(c, k)' /\ Approving(request'[c], k) = FALSE
        /\ \A d \in Callers \ {c} : (Holds(d, k)' <=> Holds(d, k)) /\ \A i \in 0 .. Retries : Unused(d, k, i)' <=> Unused(d, k, i)
    BY DEF Holds, Approving, Rest, Unused, Spent
  <2>4. Open(k)' \subseteq Open(k) \ S
    <3>1. \A s \in Slots : s[1] \in Callers  BY DEF Slots
    <3>2. Open(k)' = {s \in Slots : Holds(s[1], k)'}
      BY <2>2 DEF Open
    <3>3. QED  BY <2>3, <3>1, <3>2 DEF Open
  <2>5. Left(k)' \subseteq Left(k) \cup S
    <3>1. \A s \in Slots : s[1] \in Callers /\ s[2] \in 0 .. Retries  BY DEF Slots
    <3>2. QED  BY <2>2, <2>3, <3>1 DEF Left
  <2>6. IsFiniteSet(S) /\ Cardinality(S) \in Nat
    BY <1>1, <2>1, FS_Subset, FS_CardinalityType DEF Counted
  <2> HIDE DEF S
  <2>7. IsFiniteSet(Open(k) \ S) /\ Cardinality(Open(k) \ S) = Cardinality(Open(k)) - Cardinality(S)
    <3>1. Open(k) \cap S = S  BY <2>1
    <3>2. IsFiniteSet(Open(k))  BY <1>1 DEF Counted
    <3>3. /\ IsFiniteSet(Open(k) \ S)
          /\ Cardinality(Open(k) \ S) = Cardinality(Open(k)) - Cardinality(Open(k) \cap S)
      BY <3>2, FS_Difference
    <3>4. QED  BY <3>1, <3>3
  <2>8. /\ IsFiniteSet(Left(k) \cup S) /\ Cardinality(Left(k) \cup S) <= Cardinality(Left(k)) + Cardinality(S)
        /\ Cardinality(Left(k) \cup S) \in Nat
    <3>1. IsFiniteSet(Left(k) \cap S) /\ Cardinality(Left(k) \cap S) \in Nat
      BY <2>6, FS_Intersection, FS_CardinalityType
    <3>2. /\ IsFiniteSet(Left(k) \cup S)
          /\ Cardinality(Left(k) \cup S) = Cardinality(Left(k)) + Cardinality(S) - Cardinality(Left(k) \cap S)
      BY <1>1, <2>6, FS_Union DEF Counted
    <3>3. QED  BY <1>1, <2>6, <3>1, <3>2, FS_CardinalityType DEF Counted
  <2>9. /\ Cardinality(Open(k)') <= Cardinality(Open(k) \ S)
        /\ Cardinality(Left(k)') <= Cardinality(Left(k) \cup S)
    BY <2>4, <2>5, <2>7, <2>8, FS_Subset
  <2>10. OwnApprovals(k)' \subseteq OwnApprovals(k) /\ LateApprovals(k)' = LateApprovals(k)
    BY <2>3 DEF OwnApprovals, LateApprovals, Rest, Approving
  <2>11. Cardinality(OwnApprovals(k)') <= Cardinality(OwnApprovals(k))
    BY <1>1, <2>10, FS_Subset DEF Counted
  <2>12. effects[k] \in Nat  BY DEF Context, TypeOK
  <2>13. Claims(k)' <= Claims(k) /\ Waits(k)' <= Waits(k)
    BY <1>1, <2>6, <2>7, <2>8, <2>9, <2>10, <2>11, <2>12 DEF Claims, Waits, Counted
  <2>14. QED  BY <2>13, PaidKept
<1>4. QED  BY <1>2, <1>3

(* The API approves: the approval is to be had instead of being waited for.*)
LEMMA PaidApproved ==
  ASSUME NEW k, Context(k), Left(k)' \subseteq Left(k), Waits(k)' + 1 <= Waits(k),
         effects'[k] = effects[k], approvals'[k] = approvals[k]
  PROVE  Paid(k)'
<1>1. Counted(k) /\ Counted(k)' /\ Typed /\ Slots' = Slots  BY Counting, TypedOK DEF Context
<1>2. IsFiniteSet(Slots) /\ Cardinality(Slots) \in Nat  BY <1>1, SlotsFinite DEF Context
<1>3. Open(k)' \subseteq Slots  BY <1>1 DEF Open
<1>4. Cardinality(Open(k)') <= Cardinality(Slots) /\ Cardinality(Left(k)') <= Cardinality(Left(k))
  BY <1>1, <1>2, <1>3, FS_Subset DEF Counted
<1>5. effects[k] \in Nat  BY DEF Context, TypeOK
<1>6. Claims(k)' <= Claims(k) + Cardinality(Slots)
  BY <1>1, <1>2, <1>4, <1>5 DEF Claims, Counted
<1>7. QED  BY <1>6, PaidKept

LEMMA CountedNow ==
  ASSUME HostedAssumption, TypeOK, Asked, NEW k
  PROVE  Counted(k)
<1>1. Typed /\ \A r \in late : Pending(r)  BY TypedOK DEF Asked
<1>2. Open(k) \subseteq Slots /\ Left(k) \subseteq Slots /\ OwnApprovals(k) \subseteq Callers
  BY DEF Open, Left, OwnApprovals
<1>3. \A S : S \subseteq Slots \/ S \subseteq Callers => IsFiniteSet(S) /\ Cardinality(S) \in Nat
  BY <1>1, SlotsFinite, Deployed, FS_Subset, FS_CardinalityType
<1>4. IsFiniteSet(LateApprovals(k)) /\ Cardinality(LateApprovals(k)) \in Nat
  BY <1>1, LateFinite DEF LateApprovals
<1>5. QED  BY <1>2, <1>3, <1>4 DEF Counted

(* What the API does with the row of the key, for one request.             *)
LEMMA RowServed ==
  ASSUME Typed, NEW r, Pending(r), NEW s, Serves(r, s), NEW k \in Keys
  PROVE  /\ s.op = r.op /\ s.key = r.key
         /\ row'[k] = "approved" => row[k] = "approved" \/ (r.op = "approve" /\ r.key = k /\ r.at = "checked")
         /\ r.at = "checked" => s.at = "answered"
         /\ s.answer = "approved" => r.op \in {"get", "insert"} /\ row[r.key] = "approved"
         /\ s.answer = "done" => r.op \in Marks /\ row'[r.key] \in {"missing", Target[r.op]}
<1>1. /\ s.op = r.op /\ s.key = r.key /\ r.key \in Keys /\ r \in Fetches
      /\ \A l \in Keys : l # r.key => row'[l] = row[l]
  BY ServesTyped DEF Pending
<1>2. row \in [Keys -> Status \cup {"missing"}] /\ "done" \notin Status  BY DEF Typed, Status
<1>3. \A op \in Marks : Target[op] # "missing" /\ op \notin {"get", "insert"} /\ (Target[op] = "approved" <=> op = "approve")
  BY DEF Marks, Target
<1>4. r.at = "checked" => s.at = "answered"
  <2>1. r.op \in {"get", "insert"} => r.at # "checked"
    BY DEF Pending, Asking
  <2>2. QED  BY <1>1, <2>1 DEF Serves, Answers, Fetches
<1>5. row'[r.key] = "approved" => row[r.key] = "approved" \/ (r.op = "approve" /\ r.at = "checked")
  BY <1>1, <1>2, <1>3 DEF Serves
<1>6. s.answer = "approved" => r.op \in {"get", "insert"} /\ row[r.key] = "approved"
  <2>1. r.answer = "none"  BY DEF Pending, Asking
  <2>2. QED  BY <1>1, <1>2, <1>3, <2>1 DEF Serves, Answers, Fetches
<1>7. s.answer = "done" => r.op \in Marks /\ row'[r.key] \in {"missing", Target[r.op]}
  <2>1. r.answer = "none"  BY DEF Pending, Asking
  <2>2. \A v : Answers(r, s, v) => s.answer = v
    BY <1>1 DEF Answers, Fetches
  <2>3. row[r.key] # "done"  BY <1>1, <1>2
  <2>4. s = [r EXCEPT !.at = "checked"] => s.answer = "none"
    BY <1>1, <2>1 DEF Fetches
  <2>5. CASE r.op \in {"get", "insert"}
    <3>1. s.answer # "done"
      BY <1>3, <2>2, <2>3, <2>5 DEF Serves
    <3>2. QED  BY <3>1
  <2>6. CASE r.op \in Marks
    <3>1. /\ r.op \notin {"get", "insert"}
          /\ row' = row => row'[r.key] = row[r.key]
          /\ row' = [row EXCEPT ![r.key] = Target[r.op]] => row'[r.key] = Target[r.op]
      BY <1>1, <1>2, <1>3, <2>6
    <3>2. s.answer = "done" => row'[r.key] \in {"missing", Target[r.op]}
      BY <2>2, <2>4, <3>1 DEF Serves
    <3>3. QED  BY <2>6, <3>2
  <2>7. QED  BY <1>1, <2>5, <2>6 DEF Fetches
<1>8. QED  BY <1>1, <1>4, <1>5, <1>6, <1>7

LEMMA PaidServe ==
  ASSUME NEW k, Context(k), NEW c \in Callers, Serve(c)
  PROVE  Paid(k)'
<1>1. Typed /\ k \in Keys /\ k # None  BY TypedOK DEF Context, HostedAssumption
<1>2. PICK r, s : r = request[c] /\ s = request'[c]  OBVIOUS
<1>3. /\ Pending(r) /\ Serves(r, s) /\ Rest(c) /\ late' = late /\ effects' = effects /\ approvals' = approvals
      /\ caller' = caller /\ r \in Fetches
  BY <1>1, <1>2, ServeDoes DEF Same, Moved, Context
<1>4. r.op = caller[c].pc /\ r.key = caller[c].key /\ r.answer = "none"
  BY <1>2, <1>3 DEF Asked, CallerAsks, NoRequest, Fetches, Pending, Asking, Context
<1>5. /\ s.op = r.op /\ s.key = r.key
      /\ row'[k] = "approved" => row[k] = "approved" \/ (r.op = "approve" /\ r.key = k /\ r.at = "checked")
      /\ r.at = "checked" => s.at = "answered"
      /\ s.answer = "approved" => r.op \in {"get", "insert"} /\ row[r.key] = "approved"
      /\ s.answer = "done" => r.op \in Marks /\ row'[r.key] \in {"missing", Target[r.op]}
  BY <1>1, <1>3, RowServed
<1>6. CASE r.op = "approve" /\ r.key = k /\ r.at = "checked"
  <2>1. Counted(k) /\ Counted(k)'  BY Counting DEF Context
  <2>2. ~Approving(s, k) /\ Approving(r, k)
    BY <1>5, <1>6 DEF Approving
  <2>3. OwnApprovals(k)' \subseteq OwnApprovals(k) \ {c} /\ LateApprovals(k)' = LateApprovals(k) /\ c \in OwnApprovals(k)
    BY <1>2, <1>3, <2>2 DEF OwnApprovals, LateApprovals, Rest, Approving
  <2>4. IsFiniteSet(OwnApprovals(k) \ {c}) /\ Cardinality(OwnApprovals(k) \ {c}) = Cardinality(OwnApprovals(k)) - 1
    BY <2>1, <2>3, FS_RemoveElement DEF Counted
  <2>5. Cardinality(OwnApprovals(k)') <= Cardinality(OwnApprovals(k) \ {c})
    BY <2>3, <2>4, FS_Subset
  <2>6. Waits(k)' + 1 <= Waits(k)
    BY <2>1, <2>3, <2>4, <2>5 DEF Waits, Counted
  <2>7. \A d \in Callers, i \in 0 .. Retries : Unused(d, k, i)' <=> Unused(d, k, i)
    <3>1. caller[c].pc = "approve"  BY <1>4, <1>6
    <3>2. QED  BY <1>3, <3>1 DEF Unused, Spent, Rest
  <2>8. Left(k)' \subseteq Left(k)
    <3>1. Slots' = Slots  BY DEF Context, Slots, Retries
    <3>2. \A z \in Slots : z[1] \in Callers /\ z[2] \in 0 .. Retries  BY DEF Slots
    <3>3. QED  BY <2>7, <3>1, <3>2 DEF Left
  <2>9. QED  BY <1>3, <2>6, <2>8, PaidApproved
<1>7. CASE r.op = "running" /\ r.key = k /\ s.answer = "done"
  <2>1. row'[k] # "approved"  BY <1>5, <1>7 DEF Target
  <2>2. QED  BY <1>2, <1>3, <1>4, <1>5, <1>7, <2>1, PaidStarts
<1>8. CASE /\ ~(r.op = "approve" /\ r.key = k /\ r.at = "checked")
           /\ ~(r.op = "running" /\ r.key = k /\ s.answer = "done")
  <2>1. row'[k] = "approved" => row[k] = "approved"  BY <1>5, <1>8
  <2>2. Approving(s, k) => Approving(r, k)
    BY <1>3, <1>5 DEF Approving, Pending
  <2>3. Holds(c, k)' => Holds(c, k) \/ row[k] = "approved"
    BY <1>2, <1>3, <1>4, <1>5 DEF Holds
  <2>4. \A i \in 0 .. Retries : Unused(c, k, i)' => Unused(c, k, i)
    BY <1>2, <1>3, <1>4, <1>8 DEF Unused, Spent
  <2>5. QED  BY <1>2, <1>3, <2>1, <2>2, <2>3, <2>4, PaidLocally
<1>9. QED  BY <1>6, <1>7, <1>8

LEMMA PaidServeLate ==
  ASSUME NEW k, Context(k), NEW r \in late, ServeLate(r)
  PROVE  Paid(k)'
<1>1. Typed /\ k \in Keys  BY TypedOK DEF Context
<1>2. Pending(r) /\ request' = request /\ caller' = caller /\ effects' = effects /\ approvals' = approvals
  BY <1>1, ServeLateDoes DEF Same, Context
<1>3. PICK s : /\ Serves(r, s)
               /\ \/ s.at = "answered" /\ late' = late \ {r}
                  \/ s.at = "checked" /\ late' = (late \ {r}) \cup {s}
  BY <1>1, ServeLateDoes DEF Context
<1>4. /\ s.op = r.op /\ s.key = r.key
      /\ row'[k] = "approved" => row[k] = "approved" \/ (r.op = "approve" /\ r.key = k /\ r.at = "checked")
      /\ r.at = "checked" => s.at = "answered"
  BY <1>1, <1>2, <1>3, RowServed
<1>5. Counted(k) /\ Counted(k)' /\ Slots' = Slots  BY Counting DEF Context
<1>6. Left(k)' = Left(k) /\ OwnApprovals(k)' = OwnApprovals(k)
  BY <1>2, <1>5 DEF Left, OwnApprovals, Unused, Spent, Approving
<1>7. CASE Approving(r, k)
  <2>1. r \in LateApprovals(k)  BY <1>7 DEF LateApprovals
  <2>2. IsFiniteSet(LateApprovals(k) \ {r}) /\ Cardinality(LateApprovals(k) \ {r}) = Cardinality(LateApprovals(k)) - 1
    BY <1>5, <2>1, FS_RemoveElement DEF Counted
  <2>3. CASE r.at = "checked"
    <3>1. LateApprovals(k)' \subseteq LateApprovals(k) \ {r}
      BY <1>3, <1>4, <2>3 DEF LateApprovals, Approving
    <3>2. Cardinality(LateApprovals(k)') <= Cardinality(LateApprovals(k) \ {r})
      BY <2>2, <3>1, FS_Subset
    <3>3. Waits(k)' + 1 <= Waits(k)
      BY <1>5, <1>6, <2>2, <3>2 DEF Waits, Counted
    <3>4. QED  BY <1>2, <1>6, <3>3, PaidApproved
  <2>4. CASE r.at # "checked"
    <3>1. LateApprovals(k)' \subseteq (LateApprovals(k) \ {r}) \cup {s}
      BY <1>3 DEF LateApprovals, Approving
    <3>2. /\ IsFiniteSet((LateApprovals(k) \ {r}) \cup {s})
          /\ Cardinality((LateApprovals(k) \ {r}) \cup {s}) <= Cardinality(LateApprovals(k))
      <4>1. PICK R : R = LateApprovals(k) \ {r}  OBVIOUS
      <4>2. IsFiniteSet(R \cup {s}) /\ Cardinality(R \cup {s}) \in {Cardinality(R), Cardinality(R) + 1}
        BY <2>2, <4>1, FS_AddElement
      <4>3. QED  BY <1>5, <2>2, <4>1, <4>2 DEF Counted
    <3>3. Cardinality(LateApprovals(k)') <= Cardinality((LateApprovals(k) \ {r}) \cup {s})
      BY <3>1, <3>2, FS_Subset
    <3>4. Cardinality((LateApprovals(k) \ {r}) \cup {s}) \in Nat  BY <3>2, FS_CardinalityType
    <3>5. Waits(k)' <= Waits(k)
      BY <1>5, <1>6, <3>2, <3>3, <3>4 DEF Waits, Counted
    <3>6. Open(k)' \subseteq Open(k)
      BY <1>2, <1>4, <1>5, <2>4 DEF Open, Holds
    <3>7. Cardinality(Open(k)') <= Cardinality(Open(k))
      BY <1>5, <3>6, FS_Subset DEF Counted
    <3>8. effects[k] \in Nat  BY DEF Context, TypeOK
    <3>9. Claims(k)' <= Claims(k)
      BY <1>2, <1>5, <1>6, <3>7, <3>8 DEF Claims, Counted
    <3>10. QED  BY <1>2, <3>5, <3>9, PaidKept
  <2>5. QED  BY <2>3, <2>4
<1>8. CASE ~Approving(r, k)
  <2>1. LateApprovals(k)' \subseteq LateApprovals(k)
    BY <1>2, <1>3, <1>4, <1>8 DEF LateApprovals, Approving, Pending
  <2>2. ~(r.op = "approve" /\ r.key = k /\ r.at = "checked")  BY <1>8 DEF Approving
  <2>3. Open(k)' \subseteq Open(k)
    BY <1>2, <1>4, <1>5, <2>2 DEF Open, Holds
  <2>4. /\ Cardinality(Open(k)') <= Cardinality(Open(k))
        /\ Cardinality(LateApprovals(k)') <= Cardinality(LateApprovals(k))
    BY <1>5, <2>1, <2>3, FS_Subset DEF Counted
  <2>5. effects[k] \in Nat  BY DEF Context, TypeOK
  <2>6. Claims(k)' <= Claims(k) /\ Waits(k)' <= Waits(k)
    BY <1>2, <1>5, <1>6, <2>4, <2>5 DEF Claims, Waits, Counted
  <2>7. QED  BY <1>2, <2>6, PaidKept
<1>9. QED  BY <1>7, <1>8

LEMMA PaidStep ==
  ASSUME HostedAssumption, TypeOK, Asked, NEW k \in Gated \ Denied, Paid(k), [Next]_hostedVars
  PROVE  Paid(k)'
<1>1. Typed /\ effects \in [Keys -> Nat] /\ approvals \in [Keys -> Nat]  BY TypedOK DEF TypeOK
<1>2. Context(k) /\ k \in Keys /\ k # None
  BY <1>1, AskedStep, CountersStep, Steps, Deployed DEF Context
<1>3. ASSUME NEW c \in Callers PROVE caller[c].attempt \in Nat
  BY <1>1, Places, Deployed
<1>4. CASE UNCHANGED hostedVars
  BY <1>4 DEF hostedVars, Paid, Balanced, Open, Left, OwnApprovals, LateApprovals, Slots, Holds, Unused, Spent,
              Approving, Retries
<1>5. ASSUME NEW c \in Callers, NEW l \in Keys, NEW does \in {"run", "approve", "reject"}, Call(c, l, does)
      PROVE  Paid(k)'
  BY <1>1, <1>2, <1>5, CallDoes, PaidSends DEF Same
<1>6. ASSUME NEW c \in Callers, caller[c].key \in Keys, OnGet(c)
      PROVE  Paid(k)'
  <2>1. UNCHANGED <<row, late, effects, approvals>> /\ caller[c].pc = "get" /\ caller[c].attempt = 0
    BY <1>1, <1>6, OnGetDoes DEF Asked
  <2>2. CASE Sends(c, "insert", caller[c].key, caller[c].attempt)
    BY <1>2, <1>3, <2>1, <2>2, PaidSends
  <2>3. CASE Sends(c, Verdict(caller[c].key), caller[c].key, caller[c].attempt)
    <3>1. caller[c].key = k => Verdict(caller[c].key) = "park"  BY VerdictIs
    <3>2. QED  BY <1>2, <1>3, <2>1, <2>3, <3>1, PaidSends
  <2>4. CASE Found(c, "approved") /\ Sends(c, "running", caller[c].key, caller[c].attempt)
    <3>1. caller[c].key = k => Holds(c, k)  BY <2>1, <2>4 DEF Holds, Found
    <3>2. QED  BY <1>2, <1>3, <2>1, <2>4, <3>1, PaidSends
  <2>5. CASE Quits(c)  BY <1>2, <2>1, <2>5, PaidQuits
  <2>6. QED  BY <1>1, <1>6, <2>2, <2>3, <2>4, <2>5, OnGetDoes
<1>7. ASSUME NEW c \in Callers, caller[c].key \in Keys, Decide(c)
      PROVE  Paid(k)'
  <2>1. UNCHANGED <<row, late, effects>>  BY <1>1, <1>7, DecideDoes
  <2>2. CASE Quits(c) /\ approvals' = approvals  BY <1>2, <2>1, <2>2, PaidQuits
  <2>3. CASE /\ Sends(c, "approve", caller[c].key, caller[c].attempt)
             /\ approvals' = [approvals EXCEPT ![caller[c].key] = @ + 1]
    <3>1. CASE caller[c].key = k
      <4>1. approvals'[k] = approvals[k] + 1  BY <1>1, <1>2, <2>3, <3>1
      <4>2. QED  BY <1>2, <2>1, <2>3, <3>1, <4>1, PaidApproves
    <3>2. CASE caller[c].key # k
      <4>1. approvals'[k] = approvals[k]  BY <1>1, <1>2, <2>3, <3>2
      <4>2. QED  BY <1>2, <1>3, <2>1, <2>3, <3>2, <4>1, PaidSends
    <3>3. QED  BY <3>1, <3>2
  <2>4. CASE Sends(c, "reject", caller[c].key, caller[c].attempt) /\ approvals' = approvals
    BY <1>2, <1>3, <2>1, <2>4, PaidSends
  <2>5. QED  BY <1>1, <1>7, <2>2, <2>3, <2>4, DecideDoes
<1>8. ASSUME NEW c \in Callers, caller[c].key \in Keys, OnInsert(c)
      PROVE  Paid(k)'
  <2>1. UNCHANGED <<row, late, effects, approvals>>  BY <1>1, <1>8, OnInsertDoes
  <2>2. CASE Sends(c, Verdict(caller[c].key), caller[c].key, caller[c].attempt)
    <3>1. caller[c].key = k => Verdict(caller[c].key) = "park"  BY VerdictIs
    <3>2. QED  BY <1>2, <1>3, <2>1, <2>2, <3>1, PaidSends
  <2>3. CASE Quits(c)  BY <1>2, <2>1, <2>3, PaidQuits
  <2>4. QED  BY <1>1, <1>8, <2>2, <2>3, OnInsertDoes
<1>9. ASSUME NEW c \in Callers, OnMark(c)
      PROVE  Paid(k)'
  BY <1>1, <1>2, <1>9, OnMarkDoes, PaidQuits DEF Same
<1>10. ASSUME NEW c \in Callers, OnRunning(c)
       PROVE  Paid(k)'
  <2>1. UNCHANGED <<row, late, effects, approvals>>  BY <1>1, <1>10, OnRunningDoes DEF Same
  <2>2. CASE Quits(c)  BY <1>2, <2>1, <2>2, PaidQuits
  <2>3. CASE /\ request[c].answer # "error" /\ Moved(c) /\ request'[c] = NoRequest
             /\ caller'[c].pc = "work" /\ caller'[c].key = caller[c].key /\ caller'[c].attempt = caller[c].attempt
    <3>1. caller[c].pc = "running" /\ request[c].at = "answered" /\ request[c].op = "running"
      BY <1>1, <1>10, OnRunningDoes DEF Asked, CallerAsks
    <3>2. request[c].answer = "done"
      BY <2>3, <3>1, MarksAre DEF Asked, CallerAsks, Asking
    <3>3. \A i \in 0 .. Retries : Unused(c, k, i)' => Unused(c, k, i)
      BY <2>3, <3>1, <3>2 DEF Unused, Spent
    <3>4. ~Holds(c, k)' /\ ~Approving(request'[c], k)
      BY <2>3 DEF Holds, Approving, NoRequest
    <3>5. QED  BY <1>2, <2>1, <2>3, <3>3, <3>4, PaidLocally DEF Moved
  <2>4. QED  BY <1>1, <1>10, <2>2, <2>3, OnRunningDoes
<1>11. ASSUME NEW c \in Callers, caller[c].key \in Keys, Retried(c), caller[c].pc \in {"work", "succeed"},
              row' = row, late' = late, effects' = effects, approvals' = approvals
       PROVE  Paid(k)'
  <2>1. CASE Sends(c, "fail", caller[c].key, caller[c].attempt)
    BY <1>2, <1>3, <1>11, <2>1, PaidSends
  <2>2. CASE Sends(c, "running", caller[c].key, caller[c].attempt + 1)
    <3>1. PICK n \in Nat : n = caller[c].attempt  BY <1>3
    <3>2. \A i \in 0 .. Retries : caller[c].key = k /\ i >= n + 1 => Unused(c, k, i)
      <4>1. \A i \in 0 .. Retries : i >= n + 1 => i > n /\ i >= n
        OBVIOUS
      <4>2. QED  BY <1>11, <3>1, <4>1 DEF Unused, Spent
    <3>3. n + 1 \in Nat /\ n + 1 > 0  OBVIOUS
    <3>4. QED  BY <1>2, <1>11, <2>2, <3>1, <3>2, <3>3, PaidSends
  <2>3. QED  BY <1>11, <2>1, <2>2 DEF Retried
<1>12. ASSUME NEW c \in Callers, caller[c].key \in Keys, Work(c)
       PROVE  Paid(k)'
  <2>1. /\ UNCHANGED <<row, late, approvals>> /\ caller[c].pc = "work"
        /\ Sends(c, "succeed", caller[c].key, caller[c].attempt)
        /\ effects' = [effects EXCEPT ![caller[c].key] = @ + 1]
    BY <1>1, <1>12, WorkDoes
  <2>2. CASE caller[c].key = k
    <3>1. effects'[k] = effects[k] + 1  BY <1>1, <1>2, <2>1, <2>2
    <3>2. QED  BY <1>2, <2>1, <2>2, <3>1, PaidWork
  <2>3. CASE caller[c].key # k
    <3>1. effects'[k] = effects[k]  BY <1>1, <1>2, <2>1, <2>3
    <3>2. QED  BY <1>2, <1>3, <2>1, <2>3, <3>1, PaidSends
  <2>4. QED  BY <2>2, <2>3
<1>13. ASSUME NEW c \in Callers, caller[c].key \in Keys, WorkThrows(c)
       PROVE  Paid(k)'
  BY <1>1, <1>11, <1>13, WorkThrowsDoes DEF Same
<1>14. ASSUME NEW c \in Callers, caller[c].key \in Keys, OnSucceed(c)
       PROVE  Paid(k)'
  BY <1>1, <1>2, <1>11, <1>14, OnSucceedDoes, PaidQuits
<1>15. ASSUME NEW c \in Callers, FetchFails(c)
       PROVE  Paid(k)'
  <2>1. /\ request[c] \in Fetches /\ (late' = late \/ late' = late \cup {request[c]}) /\ Rest(c)
        /\ request'[c] = [request[c] EXCEPT !.at = "answered", !.answer = "error"]
        /\ caller' = caller /\ UNCHANGED <<row, effects, approvals>>
    BY <1>1, <1>15, FetchFailsDoes DEF Moved
  <2>2. request'[c].at = "answered" /\ request'[c].answer = "error"
    BY <2>1 DEF Fetches
  <2>3. ~Holds(c, k)' /\ ~Approving(request'[c], k)
    BY <2>2 DEF Holds, Approving
  <2>4. \A i \in 0 .. Retries : Unused(c, k, i)' => Unused(c, k, i)
    BY <2>1, <2>2 DEF Unused, Spent
  <2>5. QED  BY <1>2, <2>1, <2>3, <2>4, PaidHandsOver
<1>16. ASSUME NEW c \in Callers, Dies(c)
       PROVE  Paid(k)'
  <2>1. /\ late' = late \/ late' = late \cup {request[c]}
        /\ Quits(c) /\ UNCHANGED <<row, effects, approvals>>
    BY <1>1, <1>16, DiesDoes DEF Same
  <2>2. ~Holds(c, k)' /\ ~Approving(request'[c], k) /\ \A i \in 0 .. Retries : ~Unused(c, k, i)'
    BY <1>2, <2>1 DEF Quits, Holds, Unused, Spent, Idle, Approving, NoRequest
  <2>3. QED  BY <1>2, <2>1, <2>2, PaidHandsOver DEF Quits, Moved
<1>17. QED
  BY <1>2, <1>4, <1>5, <1>6, <1>7, <1>8, <1>9, <1>10, <1>12, <1>13, <1>14, <1>15, <1>16, PaidServe, PaidServeLate, Steps

-----------------------------------------------------------------------------
(* Work that needs no approval and does not throw is done once.            *)
IsPlain(k) == k \in Keys /\ k \notin Gated /\ k \notin Denied /\ k \notin Flaky

(* A caller goes on or ends; what it leaves to be served is its own.       *)
LEMMA SingleKept ==
  ASSUME NEW k, Single(k), NEW c \in Callers, Rest(c), row'[k] = row[k], effects'[k] = effects[k],
         Ruled(c, k)', Owns(c, k)' => Owns(c, k),
         \A r \in late' \ late : r.key = k => Harmless(r, k) /\ (Reads(r) \/ Owns(c, k))
  PROVE  Single(k)'
<1>1. \A d \in Callers \ {c} : /\ caller'[d] = caller[d] /\ request'[d] = request[d]
                               /\ (Owns(d, k)' <=> Owns(d, k)) /\ (After(d, k)' <=> After(d, k))
  BY DEF Rest, Owns, After
<1>2. \A d \in Callers \ {c} : Owns(d, k) /\ Before(d, k) => Before(d, k)'
  <2>1. SUFFICES ASSUME NEW d \in Callers \ {c}, Owns(d, k), Before(d, k) PROVE Before(d, k)'
    OBVIOUS
  <2>2. ~Owns(c, k)  BY <2>1 DEF Single
  <2>3. request[d].answer # "error" => \A r \in late' : r.key = k => Reads(r)
    BY <2>1, <2>2 DEF Before
  <2>4. QED  BY <1>1, <2>1, <2>3 DEF Before, Reads
<1>3. \A d \in Callers \ {c} : Ruled(d, k)'
  BY <1>1, <1>2 DEF Single, Ruled, Plain
<1>4. \A r \in late' : r.key = k => Harmless(r, k)'
  <2>1. \A r \in late' : r.key = k => Harmless(r, k)
    BY DEF Single
  <2>2. QED  BY <2>1 DEF Harmless, Plain, Reads
<1>5. \A d, e \in Callers : Owns(d, k)' /\ Owns(e, k)' => d = e
  BY <1>1 DEF Single
<1>6. QED  BY <1>3, <1>4, <1>5 DEF Single

(* A caller that is about another action is not looked at.                 *)
LEMMA RuledElsewhere ==
  ASSUME NEW k, NEW c, caller'[c].key # k
  PROVE  Ruled(c, k)' /\ ~Owns(c, k)'
BY DEF Ruled, Owns

LEMMA SingleQuits ==
  ASSUME NEW k \in Keys, None \notin Keys, Single(k), NEW c \in Callers, Quits(c), row' = row, late' = late,
         effects' = effects
  PROVE  Single(k)'
<1>1. caller'[c].key # k /\ Rest(c)  BY DEF Quits, Idle, Moved
<1>2. QED  BY <1>1, RuledElsewhere, SingleKept

LEMMA SingleElsewhere ==
  ASSUME NEW k \in Keys, Single(k), NEW c \in Callers, NEW op, NEW l, NEW n, Sends(c, op, l, n), l # k,
         row' = row, late' = late, effects'[k] = effects[k]
  PROVE  Single(k)'
<1>1. caller'[c].key # k /\ Rest(c)  BY DEF Sends, Moved
<1>2. QED  BY <1>1, RuledElsewhere, SingleKept

(* A caller looks the action up, or claims it.                             *)
LEMMA SingleReads ==
  ASSUME NEW k \in Keys, Single(k), NEW c \in Callers, NEW op \in {"get", "insert"}, NEW l, NEW n, Sends(c, op, l, n),
         row' = row, late' = late, effects' = effects
  PROVE  Single(k)'
<1>1. ~Owns(c, k)' /\ Plain(request'[c])
  BY DEF Sends, Owns, Plain
<1>2. Ruled(c, k)'  BY <1>1 DEF Ruled
<1>3. QED  BY <1>1, <1>2, SingleKept DEF Sends, Moved

(* The owner of the action starts it, or records its failure.              *)
LEMMA SingleMarks ==
  ASSUME NEW k \in Keys, Single(k), NEW c \in Callers, Owns(c, k), NEW op \in {"running", "fail"}, NEW n,
         Sends(c, op, k, n), row' = row, late' = late, effects' = effects,
         \/ effects[k] = 0 /\ op = "running" /\ request[c].answer # "error"
         \/ effects[k] = 1 /\ row[k] = "succeeded"
  PROVE  Single(k)'
<1>1. /\ caller'[c].pc = op /\ caller'[c].key = k /\ request'[c].op = op /\ request'[c].at = "sent"
      /\ request'[c].answer = "none" /\ Rest(c)
  BY DEF Sends, Moved
<1>2. Plain(request'[c])  BY <1>1 DEF Plain
<1>3. row[k] # "missing"  BY DEF Single, Ruled
<1>4. CASE effects[k] = 0 /\ op = "running" /\ request[c].answer # "error"
  <2>1. Before(c, k)  BY <1>4 DEF Single, Ruled
  <2>2. Before(c, k)'  BY <1>1, <1>4, <2>1 DEF Before, Reads
  <2>3. Ruled(c, k)'  BY <1>2, <1>3, <1>4, <2>2 DEF Ruled
  <2>4. QED  BY <1>1, <2>3, SingleKept
<1>5. CASE effects[k] = 1 /\ row[k] = "succeeded"
  <2>1. After(c, k)'  BY <1>1, <1>5 DEF After
  <2>2. Ruled(c, k)'  BY <1>2, <1>3, <1>5, <2>1 DEF Ruled
  <2>3. QED  BY <1>1, <2>2, SingleKept
<1>6. QED  BY <1>4, <1>5

(* The owner does the work.                                                *)
LEMMA SingleWorks ==
  ASSUME NEW k \in Keys, Single(k), NEW c \in Callers, caller[c].key = k, caller[c].pc = "work", request[c] = NoRequest,
         NEW n, Sends(c, "succeed", k, n), row' = row, late' = late, effects'[k] = effects[k] + 1
  PROVE  Single(k)'
<1>1. Owns(c, k)  BY DEF Owns
<1>2. effects[k] # 1
  BY <1>1 DEF Single, Ruled, After
<1>3. effects[k] = 0 /\ Before(c, k) /\ row[k] = "running"
  BY <1>1, <1>2 DEF Single, Ruled, Before
<1>4. effects'[k] = 1  BY <1>3
<1>5. \A r \in late : r.key = k => Plain(r) /\ Reads(r)
  <2>1. request[c].answer # "error"  BY DEF NoRequest
  <2>2. QED  BY <1>3, <2>1 DEF Single, Before, Harmless
<1>6. /\ caller'[c].pc = "succeed" /\ caller'[c].key = k /\ request'[c].op = "succeed" /\ request'[c].at = "sent"
      /\ request'[c].answer = "none" /\ Rest(c)
  BY DEF Sends, Moved
<1>7. Ruled(c, k)' /\ Owns(c, k)'
  <2>1. After(c, k)'  BY <1>6 DEF After
  <2>2. Plain(request'[c])  BY <1>6 DEF Plain
  <2>3. QED  BY <1>3, <1>4, <1>6, <2>1, <2>2 DEF Ruled, Owns
<1>8. \A d \in Callers \ {c} : caller'[d] = caller[d] /\ request'[d] = request[d] /\ ~Owns(d, k) /\ ~Owns(d, k)'
  BY <1>1, <1>6 DEF Single, Rest, Owns
<1>9. \A d \in Callers \ {c} : Ruled(d, k)'
  BY <1>8 DEF Single, Ruled, Plain
<1>10. \A r \in late' : r.key = k => Harmless(r, k)'
  BY <1>5 DEF Harmless, Plain, Reads
<1>11. QED  BY <1>3, <1>4, <1>7, <1>8, <1>9, <1>10 DEF Single

(* What the API is asked to do with such an action, and does.              *)
LEMMA PlainServed ==
  ASSUME Typed, NEW r, Pending(r), NEW s, Serves(r, s), NEW k \in Keys, r.key = k, Plain(r), row[k] \in Status \cup {"missing"}
  PROVE  /\ s.op = r.op /\ s.key = k /\ r.answer = "none"
         /\ \/ Reads(r) /\ s.at = "answered" /\ s.answer = row[k] /\ row' = row /\ (r.op = "insert" => row[k] # "missing")
            \/ /\ r.op = "insert" /\ s.at = "answered" /\ s.answer = "missing" /\ row[k] = "missing"
               /\ row'[k] = "pending"
            \/ ~Reads(r) /\ r.at = "checked" /\ s.at = "answered" /\ s.answer = "done" /\ row'[k] = Target[r.op]
            \/ ~Reads(r) /\ r.at = "sent" /\ row[k] = "missing"
            \/ /\ ~Reads(r) /\ r.at = "sent" /\ s.at = "checked" /\ s.answer = "none" /\ row' = row
               /\ Target[r.op] \in Allowed[row[k]]
            \/ /\ ~Reads(r) /\ r.at = "sent" /\ s.at = "answered" /\ s.answer = "error" /\ row' = row
               /\ Target[r.op] \notin Allowed[row[k]]
<1>1. s.op = r.op /\ s.key = k /\ r \in Fetches /\ r.answer = "none"
  BY ServesTyped DEF Pending, Asking
<1>2. \A v : Answers(r, s, v) => s.at = "answered" /\ s.answer = v
  BY <1>1 DEF Answers, Fetches
<1>3. s = [r EXCEPT !.at = "checked"] => s.at = "checked" /\ s.answer = "none"
  BY <1>1 DEF Fetches
<1>4. row \in [Keys -> Status \cup {"missing"}]  BY DEF Typed
<1>5. \A v : row' = [row EXCEPT ![k] = v] => row'[k] = v
  BY <1>4
<1>6. CASE Reads(r)
  <2>1. r.op \notin Marks  BY <1>6, MarksAre DEF Reads
  <2>2. QED  BY <1>1, <1>2, <1>5, <1>6, <2>1 DEF Serves, Reads
<1>7. CASE ~Reads(r)
  <2>1. r.op \in Marks  BY <1>1, <1>7 DEF Reads, Fetches
  <2>2. QED  BY <1>1, <1>2, <1>3, <1>5, <1>7, <2>1 DEF Serves, Reads
<1>8. QED  BY <1>6, <1>7

LEMMA SingleServe ==
  ASSUME HostedAssumption, TypeOK, Asked, NEW k \in Keys, Single(k), NEW c \in Callers, Serve(c)
  PROVE  Single(k)'
<1>1. Typed  BY TypedOK
<1>2. PICK r, s : r = request[c] /\ s = request'[c]  OBVIOUS
<1>3. /\ Pending(r) /\ Serves(r, s) /\ Rest(c) /\ late' = late /\ effects' = effects
      /\ caller' = caller /\ r \in Fetches
  BY <1>1, <1>2, ServeDoes DEF Same, Moved
<1>4. r.op = caller[c].pc /\ r.key = caller[c].key
  BY <1>2, <1>3 DEF Asked, CallerAsks, NoRequest, Fetches
<1>5. CASE r.key # k
  <2>1. row'[k] = row[k]  BY <1>1, <1>3, <1>5, ServesTyped
  <2>2. QED  BY <1>3, <1>4, <1>5, <2>1, RuledElsewhere, SingleKept
<1>6. CASE r.key = k
  <2>1. Plain(r) /\ r # NoRequest
    <3>1. r # NoRequest  BY <1>3 DEF Fetches, NoRequest
    <3>2. Ruled(c, k)  BY DEF Single
    <3>3. QED  BY <1>2, <1>4, <1>6, <3>1, <3>2 DEF Ruled
  <2>2. row[k] \in {"missing", "pending", "running", "succeeded"} /\ row[k] \in Status \cup {"missing"}
        /\ effects[k] \in {0, 1} /\ (row[k] = "missing" => effects[k] = 0)
    BY <1>1 DEF Single, Typed
  <2>3. /\ s.op = r.op /\ s.key = k /\ r.answer = "none"
        /\ \/ Reads(r) /\ s.at = "answered" /\ s.answer = row[k] /\ row' = row /\ (r.op = "insert" => row[k] # "missing")
           \/ /\ r.op = "insert" /\ s.at = "answered" /\ s.answer = "missing" /\ row[k] = "missing"
              /\ row'[k] = "pending"
           \/ ~Reads(r) /\ r.at = "checked" /\ s.at = "answered" /\ s.answer = "done" /\ row'[k] = Target[r.op]
           \/ ~Reads(r) /\ r.at = "sent" /\ row[k] = "missing"
           \/ /\ ~Reads(r) /\ r.at = "sent" /\ s.at = "checked" /\ s.answer = "none" /\ row' = row
              /\ Target[r.op] \in Allowed[row[k]]
           \/ /\ ~Reads(r) /\ r.at = "sent" /\ s.at = "answered" /\ s.answer = "error" /\ row' = row
              /\ Target[r.op] \notin Allowed[row[k]]
    BY <1>1, <1>3, <1>6, <2>1, <2>2, PlainServed
  <2>4. \A d \in Callers \ {c} : /\ caller'[d] = caller[d] /\ request'[d] = request[d]
                                 /\ (Owns(d, k)' <=> Owns(d, k))
    BY <1>3 DEF Rest, Owns
  <2>5. ASSUME \A d \in Callers \ {c} : ~Owns(d, k), Ruled(c, k)',
               \/ effects[k] = 0 /\ row'[k] \in {"pending", "running"}
               \/ effects[k] = 1 /\ row'[k] \in {"running", "succeeded"},
               \A q \in late : q.key = k => Harmless(q, k)'
        PROVE  Single(k)'
    <3>1. \A d \in Callers \ {c} : Ruled(d, k)'
      BY <2>4, <2>5 DEF Single, Ruled, Plain
    <3>2. \A d, e \in Callers : Owns(d, k)' /\ Owns(e, k)' => d = e
      BY <2>4, <2>5
    <3>3. QED  BY <1>3, <2>5, <3>1, <3>2 DEF Single
  <2>6. CASE Reads(r) /\ s.at = "answered" /\ s.answer = row[k] /\ row' = row /\ (r.op = "insert" => row[k] # "missing")
    <3>1. Plain(s)  BY <2>2, <2>3, <2>6 DEF Plain, Reads
    <3>2. ~Owns(c, k)'
      BY <1>2, <1>3, <1>4, <2>6 DEF Owns, Reads
    <3>3. Ruled(c, k)'  BY <1>2, <3>1, <3>2 DEF Ruled
    <3>4. QED  BY <1>3, <2>6, <3>2, <3>3, SingleKept
  <2>7. CASE r.op = "insert" /\ s.at = "answered" /\ s.answer = "missing" /\ row[k] = "missing" /\ row'[k] = "pending"
    <3>1. effects[k] = 0 /\ \A d \in Callers : ~Owns(d, k)
      BY <2>2, <2>7 DEF Single, Ruled
    <3>2. \A q \in late : q.key = k => Plain(q) /\ Reads(q)
      BY <2>7, <3>1 DEF Single, Harmless
    <3>3. Before(c, k)'
      BY <1>2, <1>3, <1>4, <2>7, <3>2 DEF Before, Reads
    <3>4. Plain(s)  BY <2>3, <2>7 DEF Plain
    <3>5. Ruled(c, k)'  BY <1>2, <1>3, <2>7, <3>1, <3>3, <3>4 DEF Ruled
    <3>6. \A q \in late : q.key = k => Harmless(q, k)'
      BY <3>2 DEF Harmless, Plain, Reads
    <3>7. QED  BY <2>5, <2>7, <3>1, <3>5, <3>6
  <2>8. CASE ~Reads(r)
    <3>1. r.op \in {"running", "succeed", "fail"} /\ Owns(c, k)
      BY <1>4, <1>6, <2>1, <2>8 DEF Plain, Reads, Owns
    <3>2. row[k] # "missing" /\ \A d \in Callers \ {c} : ~Owns(d, k)
      BY <3>1 DEF Single, Ruled
    <3>3. Plain(s)  BY <2>3, <3>1 DEF Plain
    <3>4. Target["running"] = "running" /\ Target["succeed"] = "succeeded" /\ Allowed["succeeded"] = {}
          /\ "succeeded" \in Allowed["running"]
      BY DEF Target, Allowed
    <3>5. CASE effects[k] = 0
      <4>1. Before(c, k)  BY <3>1, <3>5 DEF Single, Ruled
      <4>2. r.op = "running" /\ \A q \in late : q.key = k => Plain(q) /\ Reads(q)
        BY <1>2, <1>4, <2>3, <3>1, <4>1 DEF Before, Single, Harmless
      <4>3. row'[k] = "running" \/ (row' = row /\ s.answer # "done")
        BY <2>3, <2>8, <3>2, <3>4, <4>2
      <4>4. Before(c, k)'
        BY <1>2, <1>3, <1>4, <4>2, <4>3 DEF Before, Reads
      <4>5. row'[k] \in {"pending", "running"}
        BY <3>2, <3>5, <4>3 DEF Single
      <4>6. Ruled(c, k)'
        BY <1>2, <1>3, <3>3, <3>5, <4>4, <4>5 DEF Ruled
      <4>7. \A q \in late : q.key = k => Harmless(q, k)'
        BY <4>2 DEF Harmless, Plain, Reads
      <4>8. QED  BY <2>5, <3>2, <3>5, <4>5, <4>6, <4>7
    <3>6. CASE effects[k] = 1
      <4>1. After(c, k)  BY <3>1, <3>6 DEF Single, Ruled
      <4>2. r.op # "succeed" => row[k] = "succeeded" /\ r.at # "checked"
        BY <1>2, <1>4, <3>1, <4>1 DEF After
      <4>3. row[k] \in {"running", "succeeded"}
        BY <3>6 DEF Single
      <4>4. /\ row'[k] = "succeeded" \/ (row' = row /\ (r.op = "succeed" => s.at = "checked"))
            /\ r.op # "succeed" => s.at = "answered" /\ s.answer = "error" /\ row' = row
        BY <2>3, <2>8, <3>2, <3>4, <4>2, <4>3
      <4>5. After(c, k)'
        BY <1>2, <1>3, <1>4, <3>1, <4>2, <4>4 DEF After
      <4>6. row'[k] = "succeeded" \/ row'[k] = row[k]  BY <4>4
      <4>7. Ruled(c, k)'
        BY <1>2, <1>3, <3>3, <3>6, <4>3, <4>5, <4>6 DEF Ruled
      <4>8. \A q \in late : q.key = k => Harmless(q, k)'
        <5>1. SUFFICES ASSUME NEW q \in late, q.key = k PROVE Harmless(q, k)'
          OBVIOUS
        <5>2. Harmless(q, k)  BY <5>1 DEF Single
        <5>3. QED  BY <1>3, <3>6, <4>6, <5>2 DEF Harmless, Plain, Reads
      <4>9. QED  BY <2>5, <3>2, <3>6, <4>3, <4>6, <4>7, <4>8
    <3>7. QED  BY <2>2, <3>5, <3>6
  <2>9. QED  BY <2>3, <2>6, <2>7, <2>8
<1>7. QED  BY <1>5, <1>6

LEMMA SingleServeLate ==
  ASSUME HostedAssumption, TypeOK, Asked, NEW k \in Keys, Single(k), NEW r \in late, ServeLate(r)
  PROVE  Single(k)'
<1>1. Typed  BY TypedOK
<1>2. Pending(r) /\ caller' = caller /\ request' = request /\ effects' = effects
  BY <1>1, ServeLateDoes DEF Same
<1>3. PICK s : /\ Serves(r, s)
               /\ \/ s.at = "answered" /\ late' = late \ {r}
                  \/ s.at = "checked" /\ late' = (late \ {r}) \cup {s}
  BY <1>1, ServeLateDoes
<1>4. \A d \in Callers : (Owns(d, k)' <=> Owns(d, k)) /\ (request'[d] # NoRequest => (Plain(request'[d]) <=> Plain(request[d])))
  BY <1>2 DEF Owns
<1>5. ASSUME \A d \in Callers : Owns(d, k) => row'[k] # "missing" /\ (IF effects[k] = 0 THEN Before(d, k)' ELSE After(d, k)'),
             \/ effects[k] = 0 /\ row'[k] \in {"missing", "pending", "running"}
             \/ effects[k] = 1 /\ row'[k] \in {"running", "succeeded"},
             \A q \in late' : q.key = k => Harmless(q, k)'
      PROVE  Single(k)'
  <2>1. \A d \in Callers : Ruled(d, k)'
    BY <1>2, <1>4, <1>5 DEF Single, Ruled
  <2>2. \A d, e \in Callers : Owns(d, k)' /\ Owns(e, k)' => d = e
    BY <1>4 DEF Single
  <2>3. QED  BY <1>2, <1>5, <2>1, <2>2 DEF Single
<1>6. ASSUME row'[k] = row[k], \A q \in late' : q.key = k => q \in late
      PROVE  Single(k)'
  <2>1. \A d \in Callers : /\ Before(d, k) => Before(d, k)'
                           /\ After(d, k) => After(d, k)'
    BY <1>2, <1>6 DEF Before, After, Reads
  <2>2. \A q \in late' : q.key = k => Harmless(q, k)'
    BY <1>2, <1>6 DEF Single, Harmless, Plain, Reads
  <2>3. QED  BY <1>5, <1>6, <2>1, <2>2 DEF Single, Ruled
<1>7. CASE r.key # k
  <2>1. row'[k] = row[k] /\ s.key = r.key  BY <1>1, <1>2, <1>3, <1>7, ServesTyped
  <2>2. QED  BY <1>3, <1>6, <1>7, <2>1
<1>8. CASE r.key = k
  <2>1. Harmless(r, k) /\ Plain(r)  BY <1>8 DEF Single, Harmless
  <2>2. row[k] \in {"missing", "pending", "running", "succeeded"} /\ row[k] \in Status \cup {"missing"}
        /\ effects[k] \in {0, 1} /\ (row[k] = "missing" => effects[k] = 0)
    BY <1>1 DEF Single, Typed
  <2>3. /\ s.op = r.op /\ s.key = k /\ r.answer = "none"
        /\ \/ Reads(r) /\ s.at = "answered" /\ s.answer = row[k] /\ row' = row /\ (r.op = "insert" => row[k] # "missing")
           \/ /\ r.op = "insert" /\ s.at = "answered" /\ s.answer = "missing" /\ row[k] = "missing"
              /\ row'[k] = "pending"
           \/ ~Reads(r) /\ r.at = "checked" /\ s.at = "answered" /\ s.answer = "done" /\ row'[k] = Target[r.op]
           \/ ~Reads(r) /\ r.at = "sent" /\ row[k] = "missing"
           \/ /\ ~Reads(r) /\ r.at = "sent" /\ s.at = "checked" /\ s.answer = "none" /\ row' = row
              /\ Target[r.op] \in Allowed[row[k]]
           \/ /\ ~Reads(r) /\ r.at = "sent" /\ s.at = "answered" /\ s.answer = "error" /\ row' = row
              /\ Target[r.op] \notin Allowed[row[k]]
    BY <1>1, <1>2, <1>3, <1>8, <2>1, <2>2, PlainServed
  <2>4. CASE Reads(r) /\ s.at = "answered" /\ row' = row
    BY <1>3, <1>6, <2>4
  <2>5. CASE r.op = "insert" /\ s.at = "answered" /\ row[k] = "missing" /\ row'[k] = "pending"
    <3>1. effects[k] = 0 /\ \A d \in Callers : ~Owns(d, k)
      BY <2>2, <2>5 DEF Single, Ruled
    <3>2. \A q \in late : q.key = k => Plain(q) /\ Reads(q)
      BY <2>5, <3>1 DEF Single, Harmless
    <3>3. \A q \in late' : q.key = k => Harmless(q, k)'
      BY <1>3, <2>5, <3>2 DEF Harmless, Plain, Reads
    <3>4. QED  BY <1>5, <2>5, <3>1, <3>3
  <2>6. CASE ~Reads(r)
    <3>1. Target["running"] = "running" /\ Target["succeed"] = "succeeded" /\ Allowed["succeeded"] = {}
      BY DEF Target, Allowed
    <3>2. CASE effects[k] = 0
      <4>1. row[k] # "missing" /\ r.op = "running"
        BY <2>1, <2>6, <3>2 DEF Harmless
      <4>2. \A d \in Callers : Owns(d, k) => Before(d, k) /\ request[d].answer = "error"
        BY <1>8, <2>6, <3>2 DEF Single, Ruled, Before
      <4>3. row'[k] = row[k] \/ row'[k] = "running"
        BY <2>3, <2>6, <3>1, <4>1
      <4>4. \A d \in Callers : Owns(d, k) => Before(d, k)'
        BY <1>2, <4>2, <4>3 DEF Before
      <4>5. row'[k] \in {"pending", "running"}
        BY <3>2, <4>1, <4>3 DEF Single
      <4>6. \A q \in late' : q.key = k => Harmless(q, k)'
        <5>1. SUFFICES ASSUME NEW q \in late', q.key = k PROVE Harmless(q, k)'
          OBVIOUS
        <5>2. q \in late => Plain(q) /\ (Reads(q) \/ q.op = "running")
          BY <3>2, <5>1 DEF Single, Harmless
        <5>3. Plain(q) /\ (Reads(q) \/ q.op = "running")
          BY <1>3, <2>3, <4>1, <5>1, <5>2 DEF Plain
        <5>4. QED  BY <1>2, <3>2, <4>5, <5>3 DEF Harmless, Plain, Reads
      <4>7. QED  BY <1>5, <3>2, <4>4, <4>5, <4>6
    <3>3. CASE effects[k] = 1
      <4>1. row[k] \in {"running", "succeeded"} /\ (r.op = "succeed" \/ (r.at = "sent" /\ row[k] = "succeeded"))
        BY <2>1, <2>6, <3>3 DEF Single, Harmless
      <4>2. row'[k] = row[k] \/ row'[k] = "succeeded"
        BY <2>3, <2>6, <3>1, <4>1
      <4>3. s.at = "checked" => r.op = "succeed"
        BY <2>3, <2>6, <3>1, <4>1
      <4>4. \A d \in Callers : Owns(d, k) => After(d, k)'
        BY <1>2, <3>3, <4>2 DEF Single, Ruled, After
      <4>5. \A q \in late' : q.key = k => Harmless(q, k)'
        <5>1. SUFFICES ASSUME NEW q \in late', q.key = k PROVE Harmless(q, k)'
          OBVIOUS
        <5>2. q \in late => Plain(q) /\ (Reads(q) \/ q.op = "succeed" \/ (q.at = "sent" /\ row[k] = "succeeded"))
          BY <3>3, <5>1 DEF Single, Harmless
        <5>3. q \notin late => q.op = "succeed"
          BY <1>3, <2>3, <4>3, <5>1
        <5>4. q.op = "succeed" => Plain(q)  BY DEF Plain
        <5>5. QED  BY <1>2, <3>3, <4>2, <5>2, <5>3, <5>4 DEF Harmless, Plain, Reads
      <4>6. QED  BY <1>5, <3>3, <4>1, <4>2, <4>4, <4>5
    <3>4. QED  BY <2>2, <3>2, <3>3
  <2>7. QED  BY <2>3, <2>4, <2>5, <2>6
<1>9. QED  BY <1>7, <1>8

LEMMA SingleStep ==
  ASSUME HostedAssumption, TypeOK, Asked, NEW k, IsPlain(k), k \notin unheard', Single(k), [Next]_hostedVars
  PROVE  Single(k)'
<1>1. Typed /\ effects \in [Keys -> Nat] /\ k \in Keys /\ k # None /\ None \notin Keys
  BY TypedOK DEF TypeOK, IsPlain, HostedAssumption
<1>2. Verdict(k) = "running" /\ k \notin Flaky  BY VerdictIs DEF IsPlain
<1>3. \A c \in Callers : Ruled(c, k)  BY DEF Single
<1>4. \A c \in Callers : /\ caller[c].key = k /\ caller[c].pc \in {"get", "insert"} =>
                            request[c].answer \in {"none", "error", "missing", "pending", "running", "succeeded"}
                         /\ effects[k] = 0 \/ effects[k] = 1
  <2>1. SUFFICES ASSUME NEW c \in Callers, caller[c].key = k, caller[c].pc \in {"get", "insert"}
                 PROVE  request[c].answer \in {"none", "error", "missing", "pending", "running", "succeeded"}
    BY DEF Single
  <2>2. request[c] \in Fetches /\ request[c].op = caller[c].pc
    BY <2>1 DEF Asked, CallerAsks
  <2>3. request[c] # NoRequest  BY <2>2 DEF Fetches, NoRequest
  <2>4. Plain(request[c])  BY <1>3, <2>1, <2>3 DEF Ruled
  <2>5. QED  BY <2>1, <2>2, <2>4 DEF Plain
<1>5. CASE UNCHANGED hostedVars
  BY <1>5 DEF hostedVars, Single, Ruled, Owns, Before, After, Plain, Harmless, Reads
<1>6. ASSUME NEW c \in Callers, NEW l \in Keys, NEW does \in {"run", "approve", "reject"}, Call(c, l, does)
      PROVE  Single(k)'
  <2>1. Sends(c, "get", l, 0) /\ UNCHANGED <<row, late, effects>>
    BY <1>1, <1>6, CallDoes DEF Same
  <2>2. QED  BY <1>1, <2>1, SingleReads
<1>7. ASSUME NEW c \in Callers, caller[c].key \in Keys, OnGet(c)
      PROVE  Single(k)'
  <2>1. UNCHANGED <<row, late, effects>> /\ caller[c].pc = "get"  BY <1>1, <1>7, OnGetDoes
  <2>2. CASE Quits(c)  BY <1>1, <2>1, <2>2, SingleQuits
  <2>3. CASE ~Quits(c) /\ caller[c].key = k
    <3>1. ~Found(c, "failed") /\ ~Found(c, "approved")  BY <1>4, <2>1, <2>3 DEF Found
    <3>2. Sends(c, "insert", caller[c].key, caller[c].attempt)
      BY <1>1, <1>7, <2>3, <3>1, OnGetDoes
    <3>3. QED  BY <1>1, <2>1, <3>2, SingleReads
  <2>4. CASE ~Quits(c) /\ caller[c].key # k
    <3>1. \E op : Sends(c, op, caller[c].key, caller[c].attempt)
      BY <1>1, <1>7, <2>4, OnGetDoes
    <3>2. QED  BY <1>1, <2>1, <2>4, <3>1, SingleElsewhere
  <2>5. QED  BY <2>2, <2>3, <2>4
<1>8. ASSUME NEW c \in Callers, caller[c].key \in Keys, Decide(c)
      PROVE  Single(k)'
  <2>1. UNCHANGED <<row, late, effects>> /\ caller[c].pc = "get"  BY <1>1, <1>8, DecideDoes
  <2>2. CASE Quits(c)  BY <1>1, <2>1, <2>2, SingleQuits
  <2>3. CASE ~Quits(c)
    <3>1. Found(c, "awaiting_approval") /\ \E op : Sends(c, op, caller[c].key, caller[c].attempt)
      BY <1>1, <1>8, <2>3, DecideDoes
    <3>2. caller[c].key # k  BY <1>4, <2>1, <3>1 DEF Found
    <3>3. QED  BY <1>1, <2>1, <3>1, <3>2, SingleElsewhere
  <2>4. QED  BY <2>2, <2>3
<1>9. ASSUME NEW c \in Callers, caller[c].key \in Keys, OnInsert(c)
      PROVE  Single(k)'
  <2>1. UNCHANGED <<row, late, effects>> /\ caller[c].pc = "insert"  BY <1>1, <1>9, OnInsertDoes
  <2>2. CASE Quits(c)  BY <1>1, <2>1, <2>2, SingleQuits
  <2>3. CASE ~Quits(c)
    <3>1. Found(c, "missing") /\ Sends(c, Verdict(caller[c].key), caller[c].key, caller[c].attempt)
      BY <1>1, <1>9, <2>3, OnInsertDoes
    <3>2. CASE caller[c].key = k
      <4>1. Owns(c, k)  BY <2>1, <3>1, <3>2 DEF Owns, Found
      <4>2. effects[k] = 0  BY <1>3, <1>4, <2>1, <4>1 DEF Ruled, After
      <4>3. request[c].answer # "error"  BY <3>1 DEF Found
      <4>4. QED  BY <1>1, <1>2, <2>1, <3>1, <3>2, <4>1, <4>2, <4>3, SingleMarks
    <3>3. CASE caller[c].key # k  BY <1>1, <2>1, <3>1, <3>3, SingleElsewhere
    <3>4. QED  BY <3>2, <3>3
  <2>4. QED  BY <2>2, <2>3
<1>10. ASSUME NEW c \in Callers, OnMark(c)
       PROVE  Single(k)'
  BY <1>1, <1>10, OnMarkDoes, SingleQuits DEF Same
<1>11. ASSUME NEW c \in Callers, caller[c].key \in Keys, OnRunning(c)
       PROVE  Single(k)'
  <2>1. UNCHANGED <<row, late, effects>> /\ caller[c].pc = "running" /\ request[c].at = "answered"
    BY <1>1, <1>11, OnRunningDoes DEF Same
  <2>2. CASE Quits(c)  BY <1>1, <2>1, <2>2, SingleQuits
  <2>3. CASE /\ request[c].answer # "error" /\ Moved(c) /\ request'[c] = NoRequest
             /\ caller'[c].pc = "work" /\ caller'[c].key = caller[c].key
    <3>1. CASE caller[c].key # k  BY <2>1, <2>3, <3>1, RuledElsewhere, SingleKept DEF Moved
    <3>2. CASE caller[c].key = k
      <4>1. Owns(c, k)  BY <2>1, <3>2 DEF Owns
      <4>2. request[c].op = "running" /\ request[c].answer = "done"
        <5>1. request[c].op = "running" /\ Asking(request[c])
          BY <2>1 DEF Asked, CallerAsks
        <5>2. QED  BY <2>1, <2>3, <5>1, MarksAre DEF Asking
      <4>3. effects[k] = 0  BY <1>3, <1>4, <2>1, <4>1, <4>2 DEF Ruled, After
      <4>4. Before(c, k) /\ row[k] # "missing"  BY <1>3, <4>1, <4>3 DEF Ruled
      <4>5. Before(c, k)'
        <5>1. row[k] = "running" /\ \A r \in late : r.key = k => Reads(r)
          BY <2>3, <4>2, <4>4 DEF Before
        <5>2. QED  BY <2>1, <2>3, <5>1 DEF Before, NoRequest, Reads
      <4>6. Ruled(c, k)'  BY <2>1, <2>3, <4>3, <4>4, <4>5 DEF Ruled
      <4>7. QED  BY <2>1, <2>3, <4>1, <4>6, SingleKept DEF Moved
    <3>3. QED  BY <3>1, <3>2
  <2>4. QED  BY <1>1, <1>11, <2>2, <2>3, OnRunningDoes
<1>12. ASSUME NEW c \in Callers, caller[c].key \in Keys, Work(c)
       PROVE  Single(k)'
  <2>1. /\ UNCHANGED <<row, late>> /\ caller[c].pc = "work" /\ Sends(c, "succeed", caller[c].key, caller[c].attempt)
        /\ effects' = [effects EXCEPT ![caller[c].key] = @ + 1]
    BY <1>1, <1>12, WorkDoes
  <2>2. CASE caller[c].key = k
    <3>1. effects'[k] = effects[k] + 1  BY <1>1, <2>1, <2>2
    <3>2. request[c] = NoRequest  BY <2>1 DEF Asked, CallerAsks
    <3>3. QED  BY <1>1, <2>1, <2>2, <3>1, <3>2, SingleWorks
  <2>3. CASE caller[c].key # k
    <3>1. effects'[k] = effects[k]  BY <1>1, <2>1, <2>3
    <3>2. QED  BY <1>1, <2>1, <2>3, <3>1, SingleElsewhere
  <2>4. QED  BY <2>2, <2>3
<1>13. ASSUME NEW c \in Callers, caller[c].key \in Keys, WorkThrows(c)
       PROVE  Single(k)'
  <2>1. /\ caller[c].key # k /\ UNCHANGED <<row, late, effects>>
        /\ \E op, n : Sends(c, op, caller[c].key, n)
    BY <1>1, <1>2, <1>13, WorkThrowsDoes DEF Retried, Same
  <2>2. QED  BY <1>1, <2>1, SingleElsewhere
<1>14. ASSUME NEW c \in Callers, caller[c].key \in Keys, OnSucceed(c)
       PROVE  Single(k)'
  <2>1. UNCHANGED <<row, late, effects>> /\ caller[c].pc = "succeed" /\ request[c].at = "answered"
    BY <1>1, <1>14, OnSucceedDoes
  <2>2. CASE Quits(c)  BY <1>1, <2>1, <2>2, SingleQuits
  <2>3. CASE Retried(c)
    <3>1. CASE caller[c].key # k
      BY <1>1, <2>1, <2>3, <3>1, SingleElsewhere DEF Retried
    <3>2. CASE caller[c].key = k
      <4>1. Owns(c, k)  BY <2>1, <3>2 DEF Owns
      <4>2. effects[k] = 1 /\ row[k] = "succeeded"
        BY <1>3, <1>4, <2>1, <4>1 DEF Ruled, Before, After
      <4>3. QED  BY <1>1, <2>1, <2>3, <3>2, <4>1, <4>2, SingleMarks DEF Retried
    <3>3. QED  BY <3>1, <3>2
  <2>4. QED  BY <1>1, <1>14, <2>2, <2>3, OnSucceedDoes
<1>15. ASSUME NEW c \in Callers, FetchFails(c) \/ Dies(c)
       PROVE  Single(k)'
  <2>1. /\ row' = row /\ Rest(c) /\ effects' = effects
        /\ late' = late \/ (Pending(request[c]) /\ request[c] \in Fetches /\ late' = late \cup {request[c]})
    BY <1>1, <1>15, FetchFailsDoes, DiesDoes DEF Quits, Same, Moved
  <2>2. \A r \in late' \ late : r = request[c] /\ Pending(r) /\ r \in Fetches
    BY <2>1
  <2>3. request[c] \in Fetches => request[c].key = caller[c].key /\ request[c].op = caller[c].pc /\ request[c] # NoRequest
    BY DEF Asked, CallerAsks, NoRequest, Fetches
  <2>4. CASE caller[c].key # k
    <3>1. caller'[c].key # k
      <4>1. FetchFails(c) => caller' = caller  BY <1>1, FetchFailsDoes
      <4>2. Dies(c) => caller'[c] = Idle  BY <1>1, DiesDoes DEF Quits
      <4>3. Idle.key = None  BY DEF Idle
      <4>4. QED  BY <1>1, <1>15, <2>4, <4>1, <4>2, <4>3
    <3>2. \A r \in late' \ late : r.key # k  BY <2>2, <2>3, <2>4
    <3>3. QED  BY <2>1, <3>1, <3>2, RuledElsewhere, SingleKept
  <2>5. CASE caller[c].key = k
    <3>1. \A r \in late' \ late : Harmless(r, k) /\ (Reads(r) \/ Owns(c, k))
      <4>1. SUFFICES ASSUME NEW r \in late' \ late PROVE Harmless(r, k) /\ (Reads(r) \/ Owns(c, k))
        OBVIOUS
      <4>2. /\ r = request[c] /\ r.op = caller[c].pc /\ r.at \in {"sent", "checked"} /\ r.answer = "none"
            /\ Plain(r)
        BY <1>3, <2>2, <2>3, <2>5 DEF Ruled, Pending, Asking
      <4>3. CASE Reads(r)  BY <4>2, <4>3 DEF Harmless
      <4>4. CASE ~Reads(r)
        <5>1. r.op \in {"running", "succeed", "fail"} /\ Owns(c, k)
          BY <2>5, <4>2, <4>4 DEF Plain, Reads, Owns
        <5>2. row[k] # "missing" /\ IF effects[k] = 0 THEN Before(c, k) ELSE After(c, k)
          BY <1>3, <5>1 DEF Ruled
        <5>3. CASE effects[k] = 0
          BY <4>2, <5>1, <5>2, <5>3 DEF Harmless, Before
        <5>4. CASE effects[k] = 1
          BY <4>2, <5>1, <5>2, <5>4 DEF Harmless, After
        <5>5. QED  BY <1>4, <5>1, <5>3, <5>4
      <4>5. QED  BY <4>3, <4>4
    <3>2. CASE Dies(c)
      <4>1. caller'[c].key # k  BY <1>1, <3>2, DiesDoes DEF Quits, Idle
      <4>2. QED  BY <2>1, <3>1, <4>1, RuledElsewhere, SingleKept
    <3>3. CASE FetchFails(c)
      <4>1. /\ request[c] \in Fetches /\ caller' = caller /\ request[c].answer # "error"
            /\ request'[c].op = request[c].op /\ request'[c].at = "answered" /\ request'[c].answer = "error"
            /\ unheard' = unheard \cup {l \in {request[c].key} : request[c].op = "succeed" /\ request[c].at # "answered"}
        <5>1. /\ request[c] \in Fetches /\ caller' = caller /\ request[c].answer # "error"
              /\ request'[c] = [request[c] EXCEPT !.at = "answered", !.answer = "error"]
              /\ unheard' = unheard \cup {l \in {request[c].key} : request[c].op = "succeed" /\ request[c].at # "answered"}
          BY <1>1, <3>3, FetchFailsDoes
        <5>2. request'[c].op = request[c].op /\ request'[c].at = "answered" /\ request'[c].answer = "error"
          BY <5>1 DEF Fetches
        <5>3. QED  BY <5>1, <5>2
      <4>2. Plain(request'[c])
        BY <1>3, <2>3, <2>5, <4>1 DEF Ruled, Plain
      <4>3. Owns(c, k)' => Owns(c, k)  BY <4>1 DEF Owns
      <4>4. request[c].op = "succeed" => request[c].at = "answered"
        BY <2>3, <2>5, <4>1
      <4>5. Ruled(c, k)'
        <5>1. SUFFICES ASSUME Owns(c, k)'
                       PROVE  row'[k] # "missing" /\ IF effects[k] = 0 THEN Before(c, k)' ELSE After(c, k)'
          BY <2>1, <4>2 DEF Ruled
        <5>2. Owns(c, k) /\ row[k] # "missing" /\ IF effects[k] = 0 THEN Before(c, k) ELSE After(c, k)
          BY <1>3, <4>3, <5>1 DEF Ruled
        <5>3. CASE effects[k] = 0
          BY <2>1, <4>1, <5>2, <5>3 DEF Before
        <5>4. CASE effects[k] = 1
          BY <2>1, <2>3, <4>1, <4>4, <5>2, <5>4 DEF After
        <5>5. QED  BY <1>4, <2>1, <5>2, <5>3, <5>4
      <4>6. QED  BY <2>1, <3>1, <4>3, <4>5, SingleKept
    <3>4. QED  BY <1>15, <3>2, <3>3
  <2>6. QED  BY <2>4, <2>5
<1>16. QED
  BY <1>1, <1>5, <1>6, <1>7, <1>8, <1>9, <1>10, <1>11, <1>12, <1>13, <1>14, <1>15, SingleServe, SingleServeLate, Steps

-----------------------------------------------------------------------------
LEMMA HostedInit ==
  ASSUME HostedAssumption, Init
  PROVE  HostedInv
<1>1. TypeOK /\ Asked /\ Typed  BY AskedInit, TypedOK
<1>2. Produced  BY DEF Init, Produced, Successful, NoRequest
<1>3. ASSUME NEW k \in Keys PROVE k # None /\ row[k] = "missing" /\ effects[k] = 0 /\ approvals[k] = 0
                                  /\ \A c \in Callers : caller[c].key # k
  BY <1>3 DEF Init, HostedAssumption, Idle
<1>4. ASSUME NEW k \in Denied PROVE Untouched(k)
  <2>1. k \in Keys  BY <1>1, Deployed
  <2>2. QED  BY <1>3, <2>1 DEF Untouched, Init
<1>5. ASSUME NEW k \in Gated PROVE Paid(k)
  <2>1. k \in Keys  BY <1>1, Deployed
  <2>2. \A c \in Callers : ~Holds(c, k) /\ (\A i : ~Unused(c, k, i)) /\ ~Approving(request[c], k)
    BY <1>3, <2>1 DEF Holds, Unused, Spent, Approving, Init, NoRequest
  <2>3. Open(k) = {}
    <3>1. \A s \in Slots : s[1] \in Callers  BY DEF Slots
    <3>2. row[k] # "approved"  BY <1>3, <2>1
    <3>3. QED  BY <2>2, <3>1, <3>2 DEF Open
  <2>4. Left(k) = {}
    <3>1. \A s \in Slots : s[1] \in Callers  BY DEF Slots
    <3>2. QED  BY <2>2, <3>1 DEF Left
  <2>5. OwnApprovals(k) = {} /\ LateApprovals(k) = {}  BY <2>2 DEF OwnApprovals, LateApprovals, Init
  <2>6. Cardinality({}) = 0  BY FS_EmptySet
  <2>7. PICK n \in Nat : n = Cardinality(Slots)  BY <1>1, SlotsFinite
  <2>8. effects[k] = 0 /\ approvals[k] = 0  BY <1>3, <2>1
  <2>9. Balanced(0, 0, 0, 0, 0, n, 0)  BY DEF Balanced
  <2>10. QED  BY <2>3, <2>4, <2>5, <2>6, <2>7, <2>8, <2>9 DEF Paid
<1>6. ASSUME NEW k \in PlainKeys PROVE Single(k)
  <2>1. k \in Keys  BY DEF PlainKeys
  <2>2. QED  BY <1>3, <2>1 DEF Single, Ruled, Owns, Init
<1>7. QED  BY <1>1, <1>2, <1>4, <1>5, <1>6 DEF HostedInv

LEMMA HostedStep ==
  ASSUME HostedAssumption, HostedInv, [Next]_hostedVars
  PROVE  HostedInv'
<1>1. TypeOK /\ Asked /\ Produced  BY DEF HostedInv
<1>2. deployed' = deployed  BY <1>1, Steps
<1>3. TypeOK' /\ Asked' /\ Produced'
  BY <1>1, TypeStep, AskedStep, ProducedStep
<1>4. Gated' = Gated /\ Denied' = Denied /\ Flaky' = Flaky  BY <1>2 DEF Gated, Denied, Flaky
<1>5. ASSUME NEW k \in Denied PROVE Untouched(k)'
  BY <1>1, UntouchedStep DEF HostedInv
<1>6. ASSUME NEW k \in Gated \ Denied PROVE Paid(k)'
  BY <1>1, PaidStep DEF HostedInv
<1>7. ASSUME NEW k \in PlainKeys' PROVE Single(k)'
  <2>1. IsPlain(k) /\ k \notin unheard' /\ k \in PlainKeys
    BY <1>1, <1>4, CountersStep DEF PlainKeys, IsPlain
  <2>2. QED  BY <1>1, <2>1, SingleStep DEF HostedInv
<1>8. QED  BY <1>3, <1>4, <1>5, <1>6, <1>7 DEF HostedInv

LEMMA HostedImplies ==
  ASSUME HostedAssumption, HostedInv
  PROVE  HostedSafe
<1>1. TypeOK /\ Asked /\ Produced /\ Typed  BY TypedOK DEF HostedInv
<1>2. effects \in [Keys -> Nat] /\ approvals \in [Keys -> Nat]  BY <1>1 DEF TypeOK
<1>3. Gated \subseteq Keys /\ Retries \in Nat /\ IsFiniteSet(Callers)  BY <1>1, Deployed
<1>4. \A k \in Denied : effects[k] = 0  BY DEF HostedInv, Untouched
<1>5. ASSUME NEW k \in Keys \ (Gated \cup Flaky \cup unheard) PROVE effects[k] <= 1
  <2>1. CASE k \in Denied  BY <1>4, <2>1
  <2>2. CASE k \notin Denied  BY <2>2 DEF HostedInv, PlainKeys, Single
  <2>3. QED  BY <2>1, <2>2
<1>6. ASSUME NEW k \in Gated PROVE effects[k] <= approvals[k] * Cardinality(Callers) * (1 + Retries)
  <2>1. PICK C \in Nat, R \in Nat, a \in Nat, e \in Nat :
          C = Cardinality(Callers) /\ R = 1 + Retries /\ a = approvals[k] /\ e = effects[k]
    <3>1. Cardinality(Callers) \in Nat  BY <1>3, FS_CardinalityType
    <3>2. 1 + Retries \in Nat  BY <1>3
    <3>3. k \in Keys  BY <1>3
    <3>4. effects[k] \in Nat /\ approvals[k] \in Nat  BY <1>2, <3>3
    <3>5. QED  BY <3>1, <3>2, <3>4
  <2>2. C * R \in Nat /\ a * C \in Nat /\ a * (C * R) = (a * C) * R /\ (a * C) * R \in Nat
    OBVIOUS
  <2>3. CASE k \in Denied
    BY <1>4, <2>1, <2>2, <2>3
  <2>4. CASE k \notin Denied
    <3>2. Paid(k)  BY <2>4 DEF HostedInv
    <3>3. Cardinality(Slots) = C * R  BY <1>1, <2>1, SlotsFinite
    <3>4. Counted(k)  BY <1>1, CountedNow
    <3>5. PICK o \in Nat, l \in Nat, u \in Nat, v \in Nat :
            /\ o = Cardinality(Open(k)) /\ l = Cardinality(Left(k)) /\ u = Cardinality(OwnApprovals(k))
            /\ v = Cardinality(LateApprovals(k))
      BY <3>4 DEF Counted
    <3>6. Balanced(e, o, l, u, v, C * R, a)  BY <2>1, <3>2, <3>3, <3>5 DEF Paid
    <3>7. (C * R) * (u + v) \in Nat  BY <2>2
    <3>8. e <= a * (C * R)  BY <2>2, <3>6, <3>7 DEF Balanced
    <3>9. QED  BY <2>1, <2>2, <3>8
  <2>5. QED  BY <2>3, <2>4
<1>7. \A k \in told : effects[k] >= 1  BY <1>1 DEF Produced, TypeOK
<1>8. QED  BY <1>1, <1>4, <1>5, <1>6, <1>7 DEF HostedSafe, OnceDespiteLosses, GateDespiteLosses

(* What the SDK may rely on holds for every deployment, every number of    *)
(* callers and of attempts, whatever is lost, late or taken for made.      *)
THEOREM HostedHolds ==
  ASSUME HostedAssumption
  PROVE  Spec => []HostedSafe
<1>1. Init => HostedInv  BY HostedInit
<1>2. HostedInv /\ [Next]_hostedVars => HostedInv'  BY HostedStep
<1>3. HostedInv => HostedSafe  BY HostedImplies
<1>4. QED  BY <1>1, <1>2, <1>3, PTL DEF Spec

-----------------------------------------------------------------------------
(* Timeline.  Events are told of on the log, or will be: by a delivery, or *)
(* by the request that is about to publish.                                *)
Events == History!EventsOf(History!Status)
Announced ==
  {log[i] : i \in DOMAIN log} \cup undelivered
    \cup {writer[q].event : q \in {p \in Writers : writer[p].pc = "publish"}}

(* They are true, and each says whose update it tells of.                  *)
Recorded ==
  /\ Len(applied) = updatedAt /\ (stamped = None <=> updatedAt = 0)
  /\ updatedAt # 0 => stamped = applied[updatedAt]
Whose(e) == e.of \in 1 .. updatedAt /\ (e.type = "created" <=> e.of = 1)
Tells(e) == e.at \in 1 .. updatedAt /\ e.status = applied[e.at] /\ Whose(e)
Truth ==
  /\ Recorded /\ \A e \in Announced : Tells(e)
  /\ \A q \in Writers : writer[q].pc = "reread" => Whose(writer[q].event)

(* While nothing was lost, the last update is told of, or going to be; and *)
(* of requests that come one at a time every update is.                    *)
Told(n) == \E e \in Announced : e.at = n
Rereading == \E q \in Writers : writer[q].pc = "reread"
CaughtUp == losses = 0 /\ updatedAt > 0 => Told(updatedAt) \/ Rereading
OneAtATime == \A q, p \in Writers : writer[q].pc # "idle" /\ writer[p].pc # "idle" => q = p
Complete ==
  ~clashed /\ losses = 0 =>
    OneAtATime /\ \A n \in 1 .. updatedAt : Told(n) \/ (n = updatedAt /\ Rereading)

(* An update is on the log once, and once more for each repetition, or on  *)
(* one way there, which was not gone through to the end.                   *)
Carriers == {q \in Writers : writer[q].pc \in {"reread", "publish"}}
Separate ==
  /\ \A q, p \in Carriers : writer[q].event.of = writer[p].event.of => q = p
  /\ \A e, d \in undelivered : e.of = d.of => e = d
  /\ \A q \in Carriers, e \in undelivered : writer[q].event.of # e.of
Ons(n) == {i \in DOMAIN log : log[i].of = n}
Coming(n) == (\E q \in Carriers : writer[q].event.of = n) \/ \E e \in undelivered : e.of = n
Owed(n) == IF Coming(n) THEN 0 ELSE 1
OnceEach == Separate /\ \A n \in Nat : Cardinality(Ons(n)) <= repeats + Owed(n)

(* Requests that come one at a time, with no event put off, leave their    *)
(* statuses in order.                                                      *)
Logged == [i \in DOMAIN log |-> log[i].status]
Exact ==
  ~putOff =>
    /\ undelivered = {}
    /\ ~clashed /\ losses = 0 =>
         /\ (\A q \in Writers : writer[q].pc \in {"idle", "apply"}) => applied = Logged
         /\ \A q \in Writers : writer[q].pc = "reread" => applied = Append(Logged, stamped)
         /\ \A q \in Writers : writer[q].pc = "publish" => applied = Append(Logged, writer[q].event.status)

Marking == \A q \in Writers : writer[q].pc = "apply" => writer[q].to \in Writable /\ updatedAt > 0
TimelineInv == History!TypeOK /\ Marking /\ Truth /\ CaughtUp /\ Complete /\ OnceEach /\ Exact

(* What steps do.                                                          *)
Scribes == [pc : {"idle", "apply", "reread", "publish"}, to : Writable \cup {None}, event : Events]
Turns(q) == writer' \in [Writers -> Scribes] /\ \A p \in Writers \ {q} : writer'[p] = writer[p]
Written(v) ==
  /\ updatedAt' = updatedAt + 1 /\ updatedAt' \in 0 .. MaxUpdates /\ stamped' = v /\ applied' = Append(applied, v)
Unwritten == UNCHANGED <<stamped, updatedAt, applied>>
Alone(q) == ~clashed' => ~clashed /\ \A p \in Writers : writer[p].pc = "idle"
Begins1(q) == writer[q].pc = "idle" /\ Alone(q) /\ clashed' \in BOOLEAN
Appends(e) == log' = Append(log, e)
AppendsAgain(e) == Appends(e) /\ repeats' = repeats + 1 /\ repeats' \in 0 .. MaxRepeats

LEMMA ScribesAre ==
  ASSUME History!TimelineAssumption, History!TypeOK
  PROVE  /\ writer \in [Writers -> Scribes] /\ log \in Seq(Events) /\ applied \in Seq(History!Status)
         /\ stamped \in History!Status \cup {None} /\ updatedAt \in 0 .. MaxUpdates /\ losses \in 0 .. MaxLosses
         /\ repeats \in 0 .. MaxRepeats /\ undelivered \subseteq Events /\ putOff \in BOOLEAN
         /\ bus \in {"process", "redis"}
         /\ clashed \in BOOLEAN /\ MaxUpdates \in Nat /\ MaxLosses \in Nat /\ MaxRepeats \in Nat
         /\ Writable \subseteq History!Status /\ None \notin History!Status
         /\ History!NoEvent \in Events
<1>1. /\ MaxUpdates \in Nat /\ MaxLosses \in Nat /\ MaxRepeats \in Nat /\ Writable \subseteq History!Status
      /\ None \notin History!Status
  BY DEF History!TimelineAssumption
<1>2. History!NoEvent \in Events
  <2>1. 0 \in 0 .. MaxUpdates  BY <1>1
  <2>2. QED  BY <2>1 DEF History!NoEvent, Events, History!EventsOf
<1>3. QED  BY <1>1, <1>2 DEF History!TypeOK, Scribes, Events

LEMMA Turning ==
  ASSUME writer \in [Writers -> Scribes], NEW q \in Writers, NEW s \in Scribes, History!Become(q, s)
  PROVE  Turns(q) /\ writer'[q] = s
BY DEF History!Become, Turns

(* The event of the update that is being made.                             *)
LEMMA PublishingIs ==
  ASSUME History!TimelineAssumption, History!TypeOK, updatedAt' \in 0 .. MaxUpdates, NEW type \in {"created", "transition"},
         NEW s, s = History!Publishing(type)
  PROVE  /\ s \in Scribes /\ s.pc = "reread" /\ s.event.type = type /\ s.event.of = updatedAt'
         /\ s # History!Idle
<1>1. History!NoEvent \in Events  BY ScribesAre
<1>2. PICK e : e = [History!NoEvent EXCEPT !.type = type, !.of = updatedAt']  OBVIOUS
<1>3. e \in Events /\ e.type = type /\ e.of = updatedAt'
  BY <1>1, <1>2 DEF Events, History!EventsOf
<1>4. s = [pc |-> "reread", to |-> None, event |-> e]  BY <1>2 DEF History!Publishing
<1>5. QED  BY <1>3, <1>4 DEF Scribes, History!Idle

LEMMA Arriving ==
  ASSUME History!TimelineAssumption, History!TypeOK, NEW q \in Writers, NEW s \in Scribes, s # History!Idle,
         History!Arrive(q, s)
  PROVE  Turns(q) /\ writer'[q] = s /\ Begins1(q)
<1>1. History!Become(q, s) /\ clashed' = (clashed \/ (History!Busy # {} /\ s # History!Idle)) /\ writer[q].pc = "idle"
  BY DEF History!Arrive, History!At
<1>2. Turns(q) /\ writer'[q] = s  BY <1>1, ScribesAre, Turning
<1>3. Alone(q)  BY <1>1 DEF Alone, History!Busy, History!At
<1>4. clashed' \in BOOLEAN  BY <1>1
<1>5. QED  BY <1>1, <1>2, <1>3, <1>4 DEF Begins1

LEMMA InsertScribe ==
  ASSUME History!TimelineAssumption, History!TypeOK, NEW q \in Writers, History!Insert(q)
  PROVE  /\ Turns(q) /\ stamped = None /\ Written("pending") /\ Begins1(q)
         /\ writer'[q].pc = "reread" /\ writer'[q].event.type = "created" /\ writer'[q].event.of = updatedAt'
         /\ UNCHANGED <<bus, losses>> /\ History!Unsent
<1>1. Written("pending")
  <2>1. updatedAt \in 0 .. MaxUpdates /\ MaxUpdates \in Nat  BY ScribesAre
  <2>2. QED  BY <2>1 DEF History!Insert, History!Write, Written
<1>2. PICK s : s = History!Publishing("created")  OBVIOUS
<1>3. /\ s \in Scribes /\ s.pc = "reread" /\ s.event.type = "created" /\ s.event.of = updatedAt'
      /\ s # History!Idle
  BY <1>1, <1>2, PublishingIs DEF Written
<1>4. History!Arrive(q, s)  BY <1>2 DEF History!Insert
<1>5. Turns(q) /\ writer'[q] = s /\ Begins1(q)  BY <1>3, <1>4, Arriving
<1>6. stamped = None /\ UNCHANGED <<bus, losses>> /\ History!Unsent  BY DEF History!Insert
<1>7. QED  BY <1>1, <1>3, <1>5, <1>6

LEMMA ReadScribe ==
  ASSUME History!TimelineAssumption, History!TypeOK, NEW q \in Writers, History!Read(q)
  PROVE  /\ Turns(q) /\ stamped # None /\ Begins1(q) /\ writer'[q].pc = "apply" /\ writer'[q].to \in Writable
         /\ UNCHANGED <<bus, losses>> /\ History!Unsent /\ Unwritten
<1>1. writer \in [Writers -> Scribes] /\ History!NoEvent \in Events  BY ScribesAre
<1>2. PICK to \in Writable : History!Arrive(q, [History!Idle EXCEPT !.pc = "apply", !.to = to])
  BY DEF History!Read
<1>3. PICK s : s = [History!Idle EXCEPT !.pc = "apply", !.to = to]  OBVIOUS
<1>4. s \in Scribes /\ s.pc = "apply" /\ s.to = to
  BY <1>1, <1>3 DEF History!Idle, Scribes
<1>5. s # History!Idle  BY <1>4 DEF History!Idle
<1>6. Turns(q) /\ writer'[q] = s /\ Begins1(q)  BY <1>2, <1>3, <1>4, <1>5, Arriving
<1>7. stamped # None /\ UNCHANGED <<bus, losses>> /\ History!Unsent /\ Unwritten
  BY DEF History!Read, Unwritten
<1>8. QED  BY <1>4, <1>6, <1>7

LEMMA ApplyScribe ==
  ASSUME History!TimelineAssumption, History!TypeOK, Marking, NEW q \in Writers, History!Apply(q)
  PROVE  /\ Turns(q) /\ Written(writer[q].to) /\ writer[q].pc = "apply" /\ writer[q].to \in Writable /\ updatedAt > 0
         /\ writer'[q].pc = "reread" /\ writer'[q].event.type = "transition" /\ writer'[q].event.of = updatedAt'
         /\ UNCHANGED <<bus, losses, clashed>> /\ History!Unsent
<1>1. Written(writer[q].to)
  <2>1. updatedAt \in 0 .. MaxUpdates /\ MaxUpdates \in Nat  BY ScribesAre
  <2>2. QED  BY <2>1 DEF History!Apply, History!Write, Written
<1>2. PICK s : s = History!Publishing("transition")  OBVIOUS
<1>3. s \in Scribes /\ s.pc = "reread" /\ s.event.type = "transition" /\ s.event.of = updatedAt'
  BY <1>1, <1>2, PublishingIs DEF Written
<1>4. /\ History!Become(q, s) /\ writer[q].pc = "apply" /\ UNCHANGED <<bus, losses, clashed>> /\ History!Unsent
  BY <1>2 DEF History!Apply, History!At
<1>5. Turns(q) /\ writer'[q] = s  BY <1>3, <1>4, ScribesAre, Turning
<1>6. QED  BY <1>1, <1>3, <1>4, <1>5 DEF Marking

LEMMA RereadScribe ==
  ASSUME History!TimelineAssumption, History!TypeOK, NEW q \in Writers, History!Reread(q)
  PROVE  /\ Turns(q) /\ writer[q].pc = "reread" /\ writer'[q].pc = "publish"
         /\ writer'[q].event.type = writer[q].event.type /\ writer'[q].event.of = writer[q].event.of
         /\ writer'[q].event.status = stamped /\ writer'[q].event.at = updatedAt
         /\ UNCHANGED <<bus, losses, clashed>> /\ History!Unsent /\ Unwritten
<1>1. writer \in [Writers -> Scribes] /\ stamped \in History!Status \cup {None} /\ updatedAt \in 0 .. MaxUpdates
  BY ScribesAre
<1>2. writer[q] \in Scribes /\ writer[q].event \in Events  BY <1>1 DEF Scribes
<1>3. PICK e : e = [writer[q].event EXCEPT !.status = stamped, !.at = updatedAt]  OBVIOUS
<1>4. /\ e \in Events /\ e.type = writer[q].event.type /\ e.of = writer[q].event.of /\ e.status = stamped
      /\ e.at = updatedAt
  BY <1>1, <1>2, <1>3 DEF Events, History!EventsOf
<1>5. PICK s : s = [writer[q] EXCEPT !.pc = "publish", !.event = e]  OBVIOUS
<1>6. s = [writer[q] EXCEPT !.pc = "publish", !.event.status = stamped, !.event.at = updatedAt]
  BY <1>2, <1>3, <1>5 DEF Scribes, Events, History!EventsOf
<1>7. /\ History!Become(q, s) /\ writer[q].pc = "reread" /\ UNCHANGED <<bus, losses, clashed>> /\ History!Unsent
      /\ Unwritten
  BY <1>6 DEF History!Reread, History!At, Unwritten
<1>8. s \in Scribes /\ s.pc = "publish" /\ s.event = e
  BY <1>2, <1>4, <1>5 DEF Scribes
<1>9. Turns(q) /\ writer'[q] = s  BY <1>1, <1>7, <1>8, Turning
<1>10. QED  BY <1>4, <1>7, <1>8, <1>9

(* What a published event comes to: the log, or a delivery, or both.       *)
Lands(e) ==
  \/ Appends(e) /\ UNCHANGED <<undelivered, repeats, putOff>>
  \/ /\ undelivered' = undelivered \cup {e} /\ putOff' = TRUE
     /\ UNCHANGED <<log, repeats>> \/ AppendsAgain(e)

LEMMA PublishScribe ==
  ASSUME History!TimelineAssumption, History!TypeOK, NEW q \in Writers, History!Publish(q) \/ History!AppendFails(q)
  PROVE  /\ Turns(q) /\ writer[q].pc = "publish" /\ writer'[q].pc = "idle" /\ writer[q].event \in Events
         /\ Lands(writer[q].event) /\ UNCHANGED <<bus, losses, clashed>> /\ Unwritten
<1>1. /\ writer \in [Writers -> Scribes] /\ History!NoEvent \in Events /\ repeats \in 0 .. MaxRepeats
      /\ MaxRepeats \in Nat
  BY ScribesAre
<1>2. History!Idle \in Scribes  BY <1>1 DEF History!Idle, Scribes
<1>3. History!Idle.pc = "idle"  BY DEF History!Idle
<1>4. PICK e : e = writer[q].event  OBVIOUS
<1>5. /\ History!Become(q, History!Idle) /\ writer[q].pc = "publish"
      /\ UNCHANGED <<bus, losses, clashed>> /\ Unwritten
  BY DEF History!Publish, History!AppendFails, History!At, Unwritten
<1>6. Lands(e)
  <2>1. History!AppendAgain(e) => AppendsAgain(e)
    BY <1>1 DEF History!AppendAgain, History!Append1, AppendsAgain, Appends
  <2>2. QED
    BY <1>4, <2>1 DEF History!Publish, History!AppendFails, History!Append1, History!PutOff, Lands, Appends
<1>7. Turns(q) /\ writer'[q] = History!Idle  BY <1>1, <1>2, <1>5, Turning
<1>8. writer[q].event \in Events  BY <1>1 DEF Scribes
<1>9. QED  BY <1>3, <1>4, <1>5, <1>6, <1>7, <1>8

LEMMA LoseScribe ==
  ASSUME History!TimelineAssumption, History!TypeOK, NEW q \in Writers, History!Lose(q)
  PROVE  /\ Turns(q) /\ writer'[q].pc = "idle" /\ losses' \in 1 .. MaxLosses
         /\ UNCHANGED <<bus, clashed>> /\ History!Unsent /\ Unwritten
<1>1. writer \in [Writers -> Scribes] /\ History!NoEvent \in Events /\ losses \in 0 .. MaxLosses /\ MaxLosses \in Nat
  BY ScribesAre
<1>2. History!Idle \in Scribes  BY <1>1 DEF History!Idle, Scribes
<1>3. History!Idle.pc = "idle"  BY DEF History!Idle
<1>4. /\ History!Become(q, History!Idle) /\ losses' = losses + 1 /\ losses < MaxLosses
      /\ UNCHANGED <<bus, clashed>> /\ History!Unsent /\ Unwritten
  BY DEF History!Lose, History!At, Unwritten
<1>5. losses' \in 1 .. MaxLosses  BY <1>1, <1>4
<1>6. QED  BY <1>1, <1>2, <1>3, <1>4, <1>5, Turning

(* What becomes of an event that is to be delivered.                       *)
Arrives(e) ==
  \/ Appends(e) /\ undelivered' = undelivered \ {e} /\ UNCHANGED <<repeats, losses>>
  \/ AppendsAgain(e) /\ UNCHANGED <<undelivered, losses>>
  \/ undelivered' = undelivered \ {e} /\ UNCHANGED <<log, repeats>> /\ losses' \in 1 .. MaxLosses

LEMMA DeliveryDoes ==
  ASSUME History!TimelineAssumption, History!TypeOK, NEW e \in undelivered,
         History!Deliver(e) \/ History!Redeliver(e) \/ History!Drop(e)
  PROVE  Arrives(e) /\ UNCHANGED <<bus, writer, clashed, putOff>> /\ Unwritten
<1>1. /\ repeats \in 0 .. MaxRepeats /\ MaxRepeats \in Nat /\ losses \in 0 .. MaxLosses /\ MaxLosses \in Nat
  BY ScribesAre
<1>2. UNCHANGED <<bus, writer, clashed, putOff>> /\ Unwritten
  BY DEF History!Deliver, History!Redeliver, History!Drop, Unwritten
<1>3. CASE History!Deliver(e)
  BY <1>2, <1>3 DEF History!Deliver, History!Append1, Arrives, Appends
<1>4. CASE History!Redeliver(e)
  BY <1>1, <1>2, <1>4 DEF History!Redeliver, History!AppendAgain, History!Append1, Arrives, AppendsAgain, Appends
<1>5. CASE History!Drop(e)
  <2>1. losses' \in 1 .. MaxLosses  BY <1>1, <1>5 DEF History!Drop
  <2>2. QED  BY <1>2, <1>5, <2>1 DEF History!Drop, Arrives
<1>6. QED  BY <1>2, <1>3, <1>4, <1>5

LEMMA TimelineSteps ==
  ASSUME [History!Next]_(History!timelineVars)
  PROVE  \/ Unwritten /\ UNCHANGED <<bus, writer, losses, clashed>> /\ History!Unsent
         \/ \E q \in Writers : History!Insert(q) \/ History!Read(q) \/ History!Apply(q)
         \/ \E q \in Writers : \/ History!Reread(q) \/ History!Lose(q)
                               \/ History!Publish(q) \/ History!AppendFails(q)
         \/ \E e \in undelivered : History!Deliver(e) \/ History!Redeliver(e) \/ History!Drop(e)
BY DEF History!Next, History!timelineVars, Unwritten, History!Unsent

LEMMA LogGrows ==
  ASSUME log \in Seq(Events), NEW e \in Events, Appends(e)
  PROVE  /\ log' \in Seq(Events) /\ DOMAIN log' = DOMAIN log \cup {Len(log) + 1} /\ Len(log) + 1 \notin DOMAIN log
         /\ log'[Len(log) + 1] = e /\ \A i \in DOMAIN log : log'[i] = log[i]
         /\ Logged' = Append(Logged, e.status)
<1>1. /\ log' \in Seq(Events) /\ Len(log') = Len(log) + 1 /\ DOMAIN log = 1 .. Len(log) /\ Len(log) \in Nat
      /\ DOMAIN log' = 1 .. Len(log) + 1
  BY DEF Appends
<1>2. log'[Len(log) + 1] = e /\ \A i \in 1 .. Len(log) : log'[i] = log[i]
  BY DEF Appends
<1>3. DOMAIN log' = DOMAIN log \cup {Len(log) + 1} /\ Len(log) + 1 \notin DOMAIN log
  BY <1>1
<1>4. Logged' = Append(Logged, e.status)
  <2> DEFINE S == {x.status : x \in Events}
  <2>1. Logged = [i \in 1 .. Len(log) |-> log[i].status] /\ Logged' = [i \in 1 .. Len(log) + 1 |-> log'[i].status]
    BY <1>1 DEF Logged
  <2>2. \A i \in 1 .. Len(log) : log[i].status \in S  BY <1>1
  <2>3. \A i \in 1 .. Len(log) + 1 : log'[i].status \in S
    BY <1>1
  <2>4. e.status \in S  OBVIOUS
  <2> HIDE DEF S
  <2>5. Logged \in Seq(S) /\ Len(Logged) = Len(log)
    BY <1>1, <2>1, <2>2
  <2>6. Logged' \in Seq(S) /\ Len(Logged') = Len(log) + 1
    BY <1>1, <2>1, <2>3
  <2>7. /\ Append(Logged, e.status) \in Seq(S) /\ Len(Append(Logged, e.status)) = Len(log) + 1
        /\ \A i \in 1 .. Len(log) : Append(Logged, e.status)[i] = Logged[i]
        /\ Append(Logged, e.status)[Len(log) + 1] = e.status
    BY <2>4, <2>5
  <2>8. \A i \in 1 .. Len(log) + 1 : Logged'[i] = Append(Logged, e.status)[i]
    BY <1>1, <1>2, <2>1, <2>7
  <2>9. QED  BY <2>6, <2>7, <2>8
<1>5. QED  BY <1>1, <1>2, <1>3, <1>4

LEMMA TimelineTyped ==
  ASSUME History!TimelineAssumption, History!TypeOK, Marking, Recorded, [History!Next]_(History!timelineVars)
  PROVE  History!TypeOK' /\ Marking'
<1>1. /\ writer \in [Writers -> Scribes] /\ log \in Seq(Events) /\ applied \in Seq(History!Status)
      /\ stamped \in History!Status \cup {None} /\ updatedAt \in 0 .. MaxUpdates /\ losses \in 0 .. MaxLosses
      /\ repeats \in 0 .. MaxRepeats /\ undelivered \subseteq Events /\ putOff \in BOOLEAN
      /\ bus \in {"process", "redis"}
      /\ clashed \in BOOLEAN /\ MaxUpdates \in Nat /\ MaxLosses \in Nat
      /\ Writable \subseteq History!Status /\ None \notin History!Status
  BY ScribesAre
<1>2. SUFFICES /\ bus' \in {"process", "redis"}
               /\ writer' \in [Writers -> Scribes] /\ log' \in Seq(Events) /\ applied' \in Seq(History!Status)
               /\ stamped' \in History!Status \cup {None} /\ updatedAt' \in 0 .. MaxUpdates /\ losses' \in 0 .. MaxLosses
               /\ repeats' \in 0 .. MaxRepeats /\ undelivered' \subseteq Events /\ putOff' \in BOOLEAN
               /\ clashed' \in BOOLEAN /\ Marking'
  BY DEF History!TypeOK, Scribes, Events
<1>3. "pending" \in History!Status  BY DEF History!Status
<1>4. \A v \in History!Status : Append(applied, v) \in Seq(History!Status)
  BY <1>1
<1>5. \A e \in Events : Appends(e) => log' \in Seq(Events)  BY <1>1, LogGrows
<1>6. CASE Unwritten /\ UNCHANGED <<bus, writer, losses, clashed>> /\ History!Unsent
  BY <1>1, <1>6 DEF Unwritten, History!Unsent, Marking
<1>7. ASSUME NEW q \in Writers, History!Insert(q)
      PROVE  <1>2!1
  <2>1. /\ Turns(q) /\ Written("pending") /\ writer'[q].pc = "reread" /\ UNCHANGED <<bus, losses>> /\ History!Unsent
        /\ clashed' \in BOOLEAN
    BY <1>7, InsertScribe DEF Begins1
  <2>2. Marking'  BY <1>1, <2>1 DEF Turns, Written, Marking
  <2>3. QED  BY <1>1, <1>3, <1>4, <2>1, <2>2 DEF Turns, Written, History!Unsent
<1>8. ASSUME NEW q \in Writers, History!Read(q)
      PROVE  <1>2!1
  <2>1. /\ Turns(q) /\ Unwritten /\ stamped # None /\ writer'[q].to \in Writable
        /\ UNCHANGED <<bus, losses>> /\ History!Unsent /\ clashed' \in BOOLEAN
    BY <1>8, ReadScribe DEF Begins1
  <2>2. Marking'
    <3>1. updatedAt > 0  BY <1>1, <2>1 DEF Recorded
    <3>2. QED  BY <2>1, <3>1 DEF Turns, Unwritten, Marking
  <2>3. QED  BY <1>1, <2>1, <2>2 DEF Turns, Unwritten, History!Unsent
<1>9. ASSUME NEW q \in Writers, History!Apply(q)
      PROVE  <1>2!1
  <2>1. /\ Turns(q) /\ Written(writer[q].to) /\ writer[q].to \in Writable /\ writer'[q].pc = "reread"
        /\ UNCHANGED <<bus, losses, clashed>> /\ History!Unsent
    BY <1>9, ApplyScribe
  <2>2. writer[q].to \in History!Status  BY <1>1, <2>1
  <2>3. Marking'  BY <1>1, <2>1 DEF Turns, Written, Marking
  <2>4. QED  BY <1>1, <1>4, <2>1, <2>2, <2>3 DEF Turns, Written, History!Unsent
<1>10. ASSUME NEW q \in Writers, History!Reread(q)
       PROVE  <1>2!1
  <2>1. Turns(q) /\ writer'[q].pc = "publish" /\ UNCHANGED <<bus, losses, clashed>> /\ History!Unsent /\ Unwritten
    BY <1>10, RereadScribe
  <2>2. QED  BY <1>1, <2>1 DEF Turns, Unwritten, Marking, History!Unsent
<1>11. ASSUME NEW q \in Writers, History!Publish(q) \/ History!AppendFails(q)
       PROVE  <1>2!1
  <2>1. /\ Turns(q) /\ writer'[q].pc = "idle" /\ writer[q].event \in Events /\ Lands(writer[q].event)
        /\ UNCHANGED <<bus, losses, clashed>> /\ Unwritten
    BY <1>11, PublishScribe
  <2>2. log' \in Seq(Events) /\ repeats' \in 0 .. MaxRepeats /\ undelivered' \subseteq Events /\ putOff' \in BOOLEAN
    BY <1>1, <1>5, <2>1 DEF Lands, AppendsAgain
  <2>3. QED  BY <1>1, <2>1, <2>2 DEF Turns, Unwritten, Marking
<1>12. ASSUME NEW q \in Writers, History!Lose(q)
       PROVE  <1>2!1
  <2>1. /\ Turns(q) /\ writer'[q].pc = "idle" /\ losses' \in 1 .. MaxLosses /\ UNCHANGED <<bus, clashed>>
        /\ History!Unsent /\ Unwritten
    BY <1>12, LoseScribe
  <2>2. losses' \in 0 .. MaxLosses  BY <1>1, <2>1
  <2>3. QED  BY <1>1, <2>1, <2>2 DEF Turns, Unwritten, Marking, History!Unsent
<1>13. ASSUME NEW e \in undelivered, History!Deliver(e) \/ History!Redeliver(e) \/ History!Drop(e)
       PROVE  <1>2!1
  <2>1. Arrives(e) /\ UNCHANGED <<bus, writer, clashed, putOff>> /\ Unwritten
    BY <1>13, DeliveryDoes
  <2>2. /\ log' \in Seq(Events) /\ repeats' \in 0 .. MaxRepeats /\ undelivered' \subseteq Events
        /\ losses' \in 0 .. MaxLosses
    <3>1. losses' \in 1 .. MaxLosses => losses' \in 0 .. MaxLosses  BY <1>1
    <3>2. QED  BY <1>1, <1>5, <2>1, <3>1 DEF Arrives, AppendsAgain
  <2>3. QED  BY <1>1, <2>1, <2>2 DEF Unwritten, Marking
<1>14. QED  BY <1>6, <1>7, <1>8, <1>9, <1>10, <1>11, <1>12, <1>13, TimelineSteps

(* What is announced is from then on, unless something is lost.            *)
LEMMA AnnouncedTurn ==
  ASSUME NEW q \in Writers, Turns(q), History!Unsent
  PROVE  /\ writer[q].pc # "publish" /\ writer'[q].pc # "publish" => Announced' = Announced
         /\ writer[q].pc # "publish" /\ writer'[q].pc = "publish" => Announced' = Announced \cup {writer'[q].event}
         /\ writer'[q].pc # "publish" => Announced' \subseteq Announced
BY DEF Announced, Turns, History!Unsent

LEMMA AnnouncedBySending ==
  ASSUME log \in Seq(Events), NEW q \in Writers, Turns(q), writer[q].pc = "publish", writer'[q].pc = "idle",
         writer[q].event \in Events, Lands(writer[q].event)
  PROVE  Announced' = Announced
<1>1. PICK e \in Events : e = writer[q].event  OBVIOUS
<1>2. Appends(e) => {log'[i] : i \in DOMAIN log'} = {log[i] : i \in DOMAIN log} \cup {e}
  BY LogGrows
<1>3. \A p \in Writers \ {q} : writer'[p] = writer[p]  BY DEF Turns
<1>4. {writer[p].event : p \in {r \in Writers : writer[r].pc = "publish"}}
        = {writer'[p].event : p \in {r \in Writers : writer'[r].pc = "publish"}} \cup {e}
  BY <1>1, <1>3
<1>5. CASE Appends(e) /\ UNCHANGED undelivered
  BY <1>2, <1>4, <1>5 DEF Announced
<1>6. CASE undelivered' = undelivered \cup {e} /\ (UNCHANGED log \/ Appends(e))
  BY <1>2, <1>4, <1>6 DEF Announced
<1>7. QED  BY <1>1, <1>5, <1>6 DEF Lands, AppendsAgain

LEMMA AnnouncedByDelivery ==
  ASSUME log \in Seq(Events), undelivered \subseteq Events, NEW e \in undelivered, Arrives(e), UNCHANGED writer
  PROVE  Announced' = Announced \/ (Announced' \subseteq Announced /\ losses' \in 1 .. MaxLosses)
<1>1. e \in Events  OBVIOUS
<1>2. Appends(e) => {log'[i] : i \in DOMAIN log'} = {log[i] : i \in DOMAIN log} \cup {e}
  BY <1>1, LogGrows
<1>3. QED  BY <1>2 DEF Announced, Arrives, AppendsAgain

LEMMA AnnouncedStep ==
  ASSUME History!TimelineAssumption, History!TypeOK, Marking, [History!Next]_(History!timelineVars)
  PROVE  \/ Announced' = Announced /\ (losses' = losses \/ losses' \in 1 .. MaxLosses)
         \/ Announced' \subseteq Announced /\ losses' \in 1 .. MaxLosses
         \/ /\ \E q \in Writers : History!Reread(q) /\ Announced' = Announced \cup {writer'[q].event}
            /\ losses' = losses
<1>1. log \in Seq(Events) /\ undelivered \subseteq Events  BY ScribesAre
<1>2. CASE Unwritten /\ UNCHANGED <<bus, writer, losses, clashed>> /\ History!Unsent
  BY <1>2 DEF Announced, History!Unsent
<1>3. ASSUME NEW q \in Writers, History!Insert(q) \/ History!Read(q) \/ History!Apply(q)
      PROVE  Announced' = Announced /\ losses' = losses
  <2>1. /\ Turns(q) /\ History!Unsent /\ losses' = losses
        /\ writer[q].pc \in {"idle", "apply"} /\ writer'[q].pc \in {"apply", "reread"}
    BY <1>3, InsertScribe, ReadScribe, ApplyScribe DEF Begins1
  <2>2. QED  BY <2>1, AnnouncedTurn
<1>4. ASSUME NEW q \in Writers, History!Reread(q)
      PROVE  Announced' = Announced \cup {writer'[q].event} /\ losses' = losses
  <2>1. /\ Turns(q) /\ History!Unsent /\ losses' = losses /\ writer[q].pc = "reread" /\ writer'[q].pc = "publish"
    BY <1>4, RereadScribe
  <2>2. QED  BY <2>1, AnnouncedTurn
<1>5. ASSUME NEW q \in Writers, History!Publish(q) \/ History!AppendFails(q)
      PROVE  Announced' = Announced /\ losses' = losses
  BY <1>1, <1>5, PublishScribe, AnnouncedBySending
<1>6. ASSUME NEW q \in Writers, History!Lose(q)
      PROVE  Announced' \subseteq Announced /\ losses' \in 1 .. MaxLosses
  <2>1. Turns(q) /\ History!Unsent /\ writer'[q].pc = "idle" /\ losses' \in 1 .. MaxLosses
    BY <1>6, LoseScribe
  <2>2. QED  BY <2>1, AnnouncedTurn
<1>7. ASSUME NEW e \in undelivered, History!Deliver(e) \/ History!Redeliver(e) \/ History!Drop(e)
      PROVE  \/ Announced' = Announced /\ (losses' = losses \/ losses' \in 1 .. MaxLosses)
             \/ Announced' \subseteq Announced /\ losses' \in 1 .. MaxLosses
  <2>1. Arrives(e) /\ UNCHANGED writer  BY <1>7, DeliveryDoes
  <2>2. losses' = losses \/ losses' \in 1 .. MaxLosses  BY <2>1 DEF Arrives
  <2>3. QED  BY <1>1, <2>1, <2>2, AnnouncedByDelivery
<1>8. QED  BY <1>2, <1>3, <1>4, <1>5, <1>6, <1>7, TimelineSteps

(* Events stay true when the action is written again.                      *)
LEMMA TellsOn ==
  ASSUME History!TimelineAssumption, History!TypeOK, Recorded, NEW v \in History!Status, Written(v)
  PROVE  /\ \A e : (Whose(e) => Whose(e)') /\ (Tells(e) => Tells(e)')
         /\ Recorded' /\ updatedAt' \in Nat \ {0}
<1>1. /\ applied \in Seq(History!Status) /\ updatedAt \in Nat /\ Len(applied) = updatedAt
      /\ None \notin History!Status
  BY ScribesAre DEF Recorded
<1>2. updatedAt' = updatedAt + 1 /\ applied' = Append(applied, v) /\ stamped' = v  BY DEF Written
<1>3. Len(applied') = updatedAt' /\ applied'[updatedAt'] = v /\ \A n \in 1 .. updatedAt : applied'[n] = applied[n]
  BY <1>1, <1>2
<1>4. Recorded' /\ updatedAt' \in Nat \ {0}  BY <1>1, <1>2, <1>3 DEF Recorded
<1>5. ASSUME NEW n \in 1 .. updatedAt PROVE n \in 1 .. updatedAt'  BY <1>1, <1>2
<1>6. \A e : Whose(e) => Whose(e)'  BY <1>5 DEF Whose
<1>7. \A e : Tells(e) => Tells(e)'  BY <1>3, <1>5, <1>6 DEF Tells
<1>8. QED  BY <1>4, <1>6, <1>7

LEMMA TruthStep ==
  ASSUME History!TimelineAssumption, History!TypeOK, Marking, Truth, [History!Next]_(History!timelineVars)
  PROVE  Truth'
<1>1. Recorded /\ (\A e \in Announced : Tells(e)) /\ (\A q \in Writers : writer[q].pc = "reread" => Whose(writer[q].event))
  BY DEF Truth
<1>2. Unwritten => Recorded' /\ \A e : (Whose(e)' <=> Whose(e)) /\ (Tells(e)' <=> Tells(e))
  BY <1>1 DEF Unwritten, Recorded, Whose, Tells
<1>3. "pending" \in History!Status /\ Writable \subseteq History!Status /\ updatedAt \in Nat
  BY ScribesAre DEF History!Status
<1>4. ASSUME NEW q \in Writers, History!Insert(q) \/ History!Apply(q) PROVE Truth'
  <2>1. PICK v \in History!Status : Written(v)
    BY <1>3, <1>4, InsertScribe, ApplyScribe
  <2>2. /\ Turns(q) /\ History!Unsent /\ writer'[q].pc = "reread" /\ writer[q].pc \in {"idle", "apply"}
        /\ writer'[q].event.of = updatedAt'
        /\ \/ stamped = None /\ writer'[q].event.type = "created"
           \/ updatedAt > 0 /\ writer'[q].event.type = "transition"
    BY <1>4, InsertScribe, ApplyScribe DEF Begins1
  <2>3. /\ \A e : (Whose(e) => Whose(e)') /\ (Tells(e) => Tells(e)')
        /\ Recorded' /\ updatedAt' \in Nat \ {0} /\ updatedAt' = updatedAt + 1
    BY <1>1, <2>1, TellsOn DEF Written
  <2>4. Announced' = Announced  BY <2>2, AnnouncedTurn
  <2>5. PICK d : d = writer'[q].event  OBVIOUS
  <2>6. \A p \in Writers : \A e : writer'[p].pc = "reread" /\ e = writer'[p].event => Whose(e)'
    <3>1. d.of \in 1 .. updatedAt'  BY <2>2, <2>3, <2>5
    <3>2. d.type = "created" <=> d.of = 1
      BY <1>1, <1>3, <2>2, <2>3, <2>5 DEF Recorded
    <3>3. Whose(d)'  BY <3>1, <3>2 DEF Whose
    <3>4. QED  BY <1>1, <2>2, <2>3, <2>5, <3>3 DEF Turns
  <2>7. \A e \in Announced' : Tells(e)'  BY <1>1, <2>3, <2>4
  <2>8. QED  BY <2>3, <2>6, <2>7 DEF Truth, Whose
<1>5. ASSUME NEW q \in Writers, History!Reread(q) PROVE Truth'
  <2>1. /\ Turns(q) /\ Unwritten /\ History!Unsent /\ writer[q].pc = "reread" /\ writer'[q].pc = "publish"
        /\ writer'[q].event.type = writer[q].event.type /\ writer'[q].event.of = writer[q].event.of
        /\ writer'[q].event.status = stamped /\ writer'[q].event.at = updatedAt
    BY <1>5, RereadScribe
  <2>2. Announced' = Announced \cup {writer'[q].event}  BY <2>1, AnnouncedTurn
  <2>3. Tells(writer'[q].event)
    <3>1. Whose(writer[q].event)  BY <1>1, <2>1
    <3>2. Whose(writer'[q].event)  BY <2>1, <3>1 DEF Whose
    <3>3. updatedAt \in 1 .. updatedAt  BY <1>3, <3>1 DEF Whose
    <3>4. QED  BY <1>1, <2>1, <3>2, <3>3 DEF Tells, Recorded
  <2>4. \A p \in Writers : writer'[p].pc = "reread" => Whose(writer'[p].event)
    BY <1>1, <2>1 DEF Turns
  <2>5. QED  BY <1>1, <1>2, <2>1, <2>2, <2>3, <2>4 DEF Truth, Whose
<1>6. ASSUME Unwritten, Announced' \subseteq Announced,
             \A p \in Writers : writer'[p].pc = "reread" => writer'[p] = writer[p]
      PROVE  Truth'
  BY <1>1, <1>2, <1>6 DEF Truth, Whose
<1>7. ASSUME NEW q \in Writers, History!Read(q) \/ History!Lose(q) \/ History!Publish(q) \/ History!AppendFails(q)
      PROVE  Truth'
  <2>1. Turns(q) /\ Unwritten /\ writer'[q].pc \in {"apply", "idle"}
    BY <1>7, ReadScribe, LoseScribe, PublishScribe
  <2>3. Announced' \subseteq Announced
    <3>1. CASE History!Read(q) \/ History!Lose(q)
      <4>1. History!Unsent /\ writer'[q].pc # "publish"  BY <2>1, <3>1, ReadScribe, LoseScribe
      <4>2. QED  BY <2>1, <4>1, AnnouncedTurn
    <3>2. CASE History!Publish(q) \/ History!AppendFails(q)
      <4>1. log \in Seq(Events)  BY ScribesAre
      <4>2. QED  BY <3>2, <4>1, PublishScribe, AnnouncedBySending
    <3>3. QED  BY <1>7, <3>1, <3>2
  <2>4. \A p \in Writers : writer'[p].pc = "reread" => writer'[p] = writer[p]
    BY <2>1 DEF Turns
  <2>5. QED  BY <1>6, <2>1, <2>3, <2>4
<1>8. ASSUME NEW e \in undelivered, History!Deliver(e) \/ History!Redeliver(e) \/ History!Drop(e)
      PROVE  Truth'
  <2>1. Arrives(e) /\ UNCHANGED writer /\ Unwritten  BY <1>8, DeliveryDoes
  <2>2. log \in Seq(Events) /\ undelivered \subseteq Events  BY ScribesAre
  <2>3. Announced' \subseteq Announced  BY <2>1, <2>2, AnnouncedByDelivery
  <2>4. QED  BY <1>6, <2>1, <2>3
<1>9. CASE Unwritten /\ UNCHANGED <<bus, writer, losses, clashed>> /\ History!Unsent
  <2>1. Announced' = Announced  BY <1>9 DEF Announced, History!Unsent
  <2>2. QED  BY <1>6, <1>9, <2>1
<1>10. QED  BY <1>4, <1>5, <1>7, <1>8, <1>9, TimelineSteps

(* A step that loses nothing takes nothing back, and whoever makes an      *)
(* update is going to tell of it.                                          *)
LEMMA TellingOn ==
  ASSUME History!TimelineAssumption, History!TypeOK, Marking, [History!Next]_(History!timelineVars), losses' = 0
  PROVE  /\ losses = 0 /\ \A n : Told(n) => Told(n)'
         /\ \/ updatedAt' = updatedAt + 1 /\ Rereading' /\ (~clashed' /\ OneAtATime => ~Rereading)
            \/ updatedAt' = updatedAt /\ Told(updatedAt)'
            \/ updatedAt' = updatedAt /\ (Rereading => Rereading')
<1>1. losses' \notin 1 .. MaxLosses  OBVIOUS
<1>2. losses = 0 /\ Announced \subseteq Announced'
  BY <1>1, AnnouncedStep
<1>3. \A n : Told(n) => Told(n)'  BY <1>2 DEF Told
<1>4. CASE Unwritten /\ UNCHANGED <<bus, writer, losses, clashed>> /\ History!Unsent
  BY <1>2, <1>3, <1>4 DEF Unwritten, Rereading
<1>5. ASSUME NEW q \in Writers, History!Insert(q) \/ History!Apply(q)
      PROVE  updatedAt' = updatedAt + 1 /\ Rereading' /\ (~clashed' /\ OneAtATime => ~Rereading)
  <2>1. /\ updatedAt' = updatedAt + 1 /\ writer'[q].pc = "reread"
        /\ Alone(q) \/ writer[q].pc = "apply"
    BY <1>5, InsertScribe, ApplyScribe DEF Written, Begins1
  <2>2. Rereading'  BY <2>1 DEF Rereading
  <2>3. ~clashed' /\ OneAtATime => ~Rereading  BY <2>1 DEF Alone, OneAtATime, Rereading
  <2>4. QED  BY <2>1, <2>2, <2>3
<1>6. ASSUME NEW q \in Writers, History!Reread(q)
      PROVE  updatedAt' = updatedAt /\ Told(updatedAt)'
  <2>1. /\ Turns(q) /\ Unwritten /\ writer'[q].pc = "publish" /\ writer'[q].event.at = updatedAt
    BY <1>6, RereadScribe
  <2>2. writer'[q].event \in Announced'  BY <2>1 DEF Announced
  <2>3. QED  BY <2>1, <2>2 DEF Told, Unwritten
<1>7. ASSUME NEW q \in Writers, History!Read(q) \/ History!Publish(q) \/ History!AppendFails(q)
      PROVE  updatedAt' = updatedAt /\ (Rereading => Rereading')
  <2>1. Turns(q) /\ Unwritten /\ writer[q].pc # "reread"
    BY <1>7, ReadScribe, PublishScribe DEF Begins1
  <2>2. QED  BY <2>1 DEF Turns, Unwritten, Rereading
<1>8. ASSUME NEW q \in Writers, History!Lose(q) PROVE FALSE
  BY <1>1, <1>8, LoseScribe
<1>9. ASSUME NEW e \in undelivered, History!Deliver(e) \/ History!Redeliver(e) \/ History!Drop(e)
      PROVE  updatedAt' = updatedAt /\ (Rereading => Rereading')
  BY <1>9, DeliveryDoes DEF Unwritten, Rereading
<1>10. QED  BY <1>2, <1>3, <1>4, <1>5, <1>6, <1>7, <1>8, <1>9, TimelineSteps

LEMMA CaughtUpStep ==
  ASSUME History!TimelineAssumption, History!TypeOK, Marking, CaughtUp, [History!Next]_(History!timelineVars)
  PROVE  CaughtUp'
<1>1. SUFFICES ASSUME losses' = 0, updatedAt' > 0 PROVE Told(updatedAt)' \/ Rereading'
  BY DEF CaughtUp
<1>2. CASE updatedAt' = updatedAt /\ (Rereading => Rereading')
  BY <1>1, <1>2, TellingOn DEF CaughtUp
<1>3. QED  BY <1>1, <1>2, TellingOn

LEMMA OneAtATimeStep ==
  ASSUME History!TimelineAssumption, History!TypeOK, Marking, [History!Next]_(History!timelineVars), ~clashed'
  PROVE  ~clashed /\ (OneAtATime => OneAtATime')
<1>1. CASE Unwritten /\ UNCHANGED <<bus, writer, losses, clashed>> /\ History!Unsent
  BY <1>1 DEF OneAtATime
<1>2. ASSUME NEW q \in Writers, History!Insert(q) \/ History!Read(q)
      PROVE  ~clashed /\ (OneAtATime => OneAtATime')
  <2>1. Turns(q) /\ Alone(q)  BY <1>2, InsertScribe, ReadScribe DEF Begins1
  <2>2. QED  BY <2>1 DEF Turns, Alone, OneAtATime
<1>3. ASSUME NEW q \in Writers,
             \/ History!Apply(q) \/ History!Reread(q) \/ History!Lose(q)
             \/ History!Publish(q) \/ History!AppendFails(q)
      PROVE  ~clashed /\ (OneAtATime => OneAtATime')
  <2>1. Turns(q) /\ clashed' = clashed /\ (writer[q].pc # "idle" \/ writer'[q].pc = "idle")
    BY <1>3, ApplyScribe, RereadScribe, LoseScribe, PublishScribe
  <2>2. QED  BY <2>1 DEF Turns, OneAtATime
<1>4. ASSUME NEW e \in undelivered, History!Deliver(e) \/ History!Redeliver(e) \/ History!Drop(e)
      PROVE  ~clashed /\ (OneAtATime => OneAtATime')
  BY <1>4, DeliveryDoes DEF OneAtATime
<1>5. QED  BY <1>1, <1>2, <1>3, <1>4, TimelineSteps

LEMMA CompleteStep ==
  ASSUME History!TimelineAssumption, History!TypeOK, Marking, Complete, [History!Next]_(History!timelineVars)
  PROVE  Complete'
<1>1. SUFFICES ASSUME ~clashed', losses' = 0
               PROVE  OneAtATime' /\ \A n \in 1 .. updatedAt' : Told(n)' \/ (n = updatedAt' /\ Rereading')
  BY DEF Complete
<1>2. ~clashed /\ losses = 0 /\ updatedAt \in Nat  BY <1>1, OneAtATimeStep, TellingOn, ScribesAre
<1>3. OneAtATime /\ \A n \in 1 .. updatedAt : Told(n) \/ (n = updatedAt /\ Rereading)
  BY <1>2 DEF Complete
<1>4. OneAtATime'  BY <1>1, <1>3, OneAtATimeStep
<1>5. ASSUME NEW n \in 1 .. updatedAt' PROVE Told(n)' \/ (n = updatedAt' /\ Rereading')
  <2>1. \A m : Told(m) => Told(m)'  BY <1>1, TellingOn
  <2>2. CASE updatedAt' = updatedAt + 1 /\ Rereading' /\ (~clashed' /\ OneAtATime => ~Rereading)
    <3>1. n \in 1 .. updatedAt \/ n = updatedAt'  BY <1>2, <2>2
    <3>2. QED  BY <1>1, <1>3, <2>1, <2>2, <3>1
  <2>3. CASE updatedAt' = updatedAt /\ Told(updatedAt)'
    <3>1. n = updatedAt' => Told(n)'  BY <2>3 DEF Told
    <3>2. QED  BY <1>3, <2>1, <2>3, <3>1
  <2>4. CASE updatedAt' = updatedAt /\ (Rereading => Rereading')
    BY <1>3, <2>1, <2>4
  <2>5. QED  BY <1>1, <2>2, <2>3, <2>4, TellingOn
<1>6. QED  BY <1>4, <1>5

(* How often an update is on the log.                                      *)
LEMMA OnsCounted ==
  ASSUME log \in Seq(Events), repeats \in Nat
  PROVE  \A n : IsFiniteSet(Ons(n)) /\ Cardinality(Ons(n)) \in Nat
<1> SUFFICES ASSUME NEW n PROVE IsFiniteSet(Ons(n)) /\ Cardinality(Ons(n)) \in Nat  OBVIOUS
<1>1. Len(log) \in Nat /\ 1 \in Int /\ Len(log) \in Int /\ DOMAIN log = 1 .. Len(log)  OBVIOUS
<1>2. IsFiniteSet(1 .. Len(log))  BY <1>1, FS_Interval
<1>3. Ons(n) \subseteq 1 .. Len(log)  BY <1>1 DEF Ons
<1>4. IsFiniteSet(Ons(n))  BY <1>2, <1>3, FS_Subset
<1>5. QED  BY <1>4, FS_CardinalityType

LEMMA CountGrows ==
  ASSUME log \in Seq(Events), repeats \in Nat, NEW e \in Events, Appends(e)
  PROVE  /\ \A n : n # e.of => Ons(n)' = Ons(n)
         /\ Cardinality(Ons(e.of)') = Cardinality(Ons(e.of)) + 1
<1>1. /\ DOMAIN log' = DOMAIN log \cup {Len(log) + 1} /\ Len(log) + 1 \notin DOMAIN log
      /\ log'[Len(log) + 1] = e /\ \A i \in DOMAIN log : log'[i] = log[i]
  BY LogGrows
<1>2. \A n : n # e.of => Ons(n)' = Ons(n)  BY <1>1 DEF Ons
<1>3. Ons(e.of)' = Ons(e.of) \cup {Len(log) + 1} /\ Len(log) + 1 \notin Ons(e.of)
  BY <1>1 DEF Ons
<1>4. IsFiniteSet(Ons(e.of))  BY OnsCounted
<1>5. Cardinality(Ons(e.of) \cup {Len(log) + 1}) = Cardinality(Ons(e.of)) + 1
  BY <1>3, <1>4, FS_AddElement
<1>6. QED  BY <1>2, <1>3, <1>5

(* Updates on their way, or on the log, are updates that were made.        *)
LEMMA MadeBefore ==
  ASSUME Truth, log \in Seq(Events), repeats \in Nat
  PROVE  /\ \A q \in Carriers : writer[q].event.of \in 1 .. updatedAt
         /\ \A e \in undelivered : e.of \in 1 .. updatedAt
         /\ \A n : n \notin 1 .. updatedAt => Ons(n) = {} /\ Cardinality(Ons(n)) = 0
<1>1. \A e \in Announced : e.of \in 1 .. updatedAt  BY DEF Truth, Tells, Whose
<1>2. \A q \in Carriers : writer[q].event.of \in 1 .. updatedAt
  BY <1>1 DEF Carriers, Announced, Truth, Whose
<1>3. \A e \in undelivered : e.of \in 1 .. updatedAt  BY <1>1 DEF Announced
<1>4. \A i \in DOMAIN log : log[i].of \in 1 .. updatedAt  BY <1>1 DEF Announced
<1>5. \A n : n \notin 1 .. updatedAt => Ons(n) = {}  BY <1>4 DEF Ons
<1>6. Cardinality({}) = 0  BY FS_EmptySet
<1>7. QED  BY <1>2, <1>3, <1>5, <1>6

LEMMA Countable ==
  ASSUME History!TimelineAssumption, History!TypeOK
  PROVE  log \in Seq(Events) /\ repeats \in Nat /\ updatedAt \in Nat /\ undelivered \subseteq Events
BY ScribesAre

(* Where no event gets to the log, or one more does than was promised.     *)
LEMMA NoneSent ==
  ASSUME History!TimelineAssumption, History!TypeOK, OnceEach, UNCHANGED <<log, repeats>>, NEW n \in Nat,
         Coming(n)' => Coming(n)
  PROVE  Cardinality(Ons(n)') <= repeats' + Owed(n)'
<1>1. repeats \in Nat /\ log \in Seq(Events)  BY Countable
<1>2. Cardinality(Ons(n)) \in Nat  BY <1>1, OnsCounted
<1>3. Ons(n)' = Ons(n)  BY DEF Ons
<1>4. Owed(n) \in {0, 1} /\ Owed(n)' \in {0, 1} /\ (Owed(n)' = 0 => Owed(n) = 0)
  BY DEF Owed
<1>5. Cardinality(Ons(n)) <= repeats + Owed(n)  BY DEF OnceEach
<1>6. QED  BY <1>1, <1>2, <1>3, <1>4, <1>5

LEMMA OneSent ==
  ASSUME History!TimelineAssumption, History!TypeOK, OnceEach, NEW e \in Events, NEW n \in Nat,
         \/ Appends(e) /\ UNCHANGED repeats /\ (n = e.of => Coming(n) /\ ~Coming(n)')
         \/ AppendsAgain(e) /\ (n = e.of => Coming(n)),
         n # e.of => (Coming(n)' => Coming(n))
  PROVE  Cardinality(Ons(n)') <= repeats' + Owed(n)'
<1>1. repeats \in Nat /\ log \in Seq(Events)  BY Countable
<1>2. Cardinality(Ons(n)) \in Nat  BY <1>1, OnsCounted
<1>3. Appends(e)  BY DEF AppendsAgain
<1>4. /\ n # e.of => Ons(n)' = Ons(n)
      /\ n = e.of => Cardinality(Ons(n)') = Cardinality(Ons(n)) + 1
  BY <1>1, <1>3, CountGrows
<1>5. Cardinality(Ons(n)) <= repeats + Owed(n)  BY DEF OnceEach
<1>6. Owed(n) \in {0, 1} /\ Owed(n)' \in {0, 1}  BY DEF Owed
<1>7. repeats' = repeats \/ repeats' = repeats + 1  BY DEF AppendsAgain
<1>8. CASE n # e.of
  <2>1. Owed(n)' = 0 => Owed(n) = 0  BY <1>8 DEF Owed
  <2>2. Cardinality(Ons(n)') = Cardinality(Ons(n))  BY <1>4, <1>8
  <2>3. QED  BY <1>1, <1>2, <1>5, <1>6, <1>7, <2>1, <2>2
<1>9. CASE n = e.of
  <2>1. Owed(n) = 0  BY <1>9 DEF Owed
  <2>2. repeats' + Owed(n)' >= repeats + 1
    <3>1. CASE UNCHANGED repeats /\ ~Coming(n)'
      <4>1. Owed(n)' = 1  BY <3>1 DEF Owed
      <4>2. QED  BY <1>1, <3>1, <4>1
    <3>2. CASE repeats' = repeats + 1
      BY <1>1, <1>6, <3>2
    <3>3. QED  BY <1>9, <3>1, <3>2 DEF AppendsAgain
  <2>3. QED  BY <1>1, <1>2, <1>4, <1>5, <1>6, <1>7, <1>9, <2>1, <2>2
<1>10. QED  BY <1>8, <1>9

LEMMA OnceEachStep ==
  ASSUME History!TimelineAssumption, History!TypeOK, Marking, Truth, OnceEach, [History!Next]_(History!timelineVars)
  PROVE  OnceEach'
<1>1. log \in Seq(Events) /\ repeats \in Nat /\ updatedAt \in Nat /\ undelivered \subseteq Events  BY Countable
<1>2. Separate  BY DEF OnceEach
<1>3. ASSUME UNCHANGED <<log, repeats>>, Separate', \A n \in Nat : Coming(n)' => Coming(n)
      PROVE  OnceEach'
  <2>1. \A n \in Nat : Cardinality(Ons(n)') <= repeats' + Owed(n)'  BY <1>3, NoneSent
  <2>2. QED  BY <1>3, <2>1 DEF OnceEach
<1>4. CASE Unwritten /\ UNCHANGED <<bus, writer, losses, clashed>> /\ History!Unsent
  BY <1>2, <1>3, <1>4 DEF History!Unsent, Separate, Carriers, Coming
<1>5. ASSUME NEW q \in Writers, History!Insert(q) \/ History!Apply(q) PROVE OnceEach'
  <2>1. /\ Turns(q) /\ UNCHANGED <<log, repeats, undelivered>> /\ updatedAt' = updatedAt + 1
        /\ writer'[q].event.of = updatedAt'
    BY <1>5, InsertScribe, ApplyScribe DEF History!Unsent, Written
  <2>2. updatedAt' \notin 1 .. updatedAt  BY <1>1, <2>1
  <2>3. Carriers' \subseteq Carriers \cup {q} /\ \A p \in Carriers' : p = q \/ (p \in Carriers /\ writer'[p] = writer[p])
    BY <2>1 DEF Carriers, Turns
  <2>4. /\ \A p \in Carriers : writer[p].event.of # updatedAt'
        /\ \A e \in undelivered : e.of # updatedAt'
        /\ Cardinality(Ons(updatedAt')) = 0
    BY <1>1, <2>2, MadeBefore
  <2>5. Separate'  BY <1>2, <2>1, <2>3, <2>4 DEF Separate
  <2>6. ASSUME NEW n \in Nat PROVE Cardinality(Ons(n)') <= repeats' + Owed(n)'
    <3>1. CASE n # updatedAt'
      <4>1. Coming(n)' => Coming(n)  BY <2>1, <2>3, <3>1 DEF Coming
      <4>2. QED  BY <2>1, <4>1, NoneSent
    <3>2. CASE n = updatedAt'
      <4>1. Ons(n)' = Ons(n)  BY <2>1 DEF Ons
      <4>2. Owed(n)' \in {0, 1}  BY DEF Owed
      <4>3. QED  BY <1>1, <2>1, <2>4, <3>2, <4>1, <4>2
    <3>3. QED  BY <3>1, <3>2
  <2>7. QED  BY <2>5, <2>6 DEF OnceEach
<1>6. ASSUME NEW q \in Writers, History!Read(q) \/ History!Reread(q) \/ History!Lose(q) PROVE OnceEach'
  <2>1. /\ Turns(q) /\ UNCHANGED <<log, repeats, undelivered>>
        /\ \/ writer'[q].pc \in {"apply", "idle"}
           \/ writer[q].pc = "reread" /\ writer'[q].event.of = writer[q].event.of
    BY <1>6, ReadScribe, RereadScribe, LoseScribe DEF History!Unsent
  <2>2. \A p \in Carriers' : p \in Carriers /\ writer'[p].event.of = writer[p].event.of
    BY <2>1 DEF Carriers, Turns
  <2>3. Separate'  BY <1>2, <2>1, <2>2 DEF Separate
  <2>4. \A n \in Nat : Coming(n)' => Coming(n)  BY <2>1, <2>2 DEF Coming
  <2>5. QED  BY <1>3, <2>1, <2>3, <2>4
<1>7. ASSUME NEW q \in Writers, History!Publish(q) \/ History!AppendFails(q) PROVE OnceEach'
  <2>1. /\ Turns(q) /\ writer[q].pc = "publish" /\ writer'[q].pc = "idle" /\ writer[q].event \in Events
        /\ Lands(writer[q].event)
    BY <1>7, PublishScribe
  <2>2. PICK e \in Events : e = writer[q].event  BY <2>1
  <2>3. q \in Carriers /\ Carriers' = Carriers \ {q} /\ \A p \in Carriers' : writer'[p] = writer[p]
    BY <2>1 DEF Carriers, Turns
  <2>4. undelivered' \subseteq undelivered \cup {e}  BY <2>1, <2>2 DEF Lands
  <2>5. Separate'  BY <1>2, <2>2, <2>3, <2>4 DEF Separate
  <2>6. \A n : Coming(n)' => Coming(n)  BY <2>2, <2>3, <2>4 DEF Coming
  <2>7. Coming(e.of)  BY <2>2, <2>3 DEF Coming
  <2>8. CASE UNCHANGED <<log, repeats>>
    BY <1>3, <2>5, <2>6, <2>8
  <2>9. CASE Appends(e) /\ UNCHANGED <<undelivered, repeats>>
    <3>1. ~Coming(e.of)'  BY <1>2, <2>2, <2>3, <2>9 DEF Coming, Separate
    <3>2. \A n \in Nat : Cardinality(Ons(n)') <= repeats' + Owed(n)'
      BY <2>6, <2>7, <2>9, <3>1, OneSent
    <3>3. QED  BY <2>5, <3>2 DEF OnceEach
  <2>10. CASE AppendsAgain(e)
    <3>1. \A n \in Nat : Cardinality(Ons(n)') <= repeats' + Owed(n)'
      BY <2>6, <2>7, <2>10, OneSent
    <3>2. QED  BY <2>5, <3>1 DEF OnceEach
  <2>11. QED  BY <2>1, <2>2, <2>8, <2>9, <2>10 DEF Lands
<1>8. ASSUME NEW e \in undelivered, History!Deliver(e) \/ History!Redeliver(e) \/ History!Drop(e)
      PROVE  OnceEach'
  <2>1. Arrives(e) /\ UNCHANGED writer /\ e \in Events  BY <1>1, <1>8, DeliveryDoes
  <2>2. undelivered' \subseteq undelivered /\ Carriers' = Carriers  BY <2>1 DEF Arrives, Carriers
  <2>3. Separate'  BY <1>2, <2>1, <2>2 DEF Separate
  <2>4. \A n : Coming(n)' => Coming(n)  BY <2>1, <2>2 DEF Coming
  <2>5. Coming(e.of)  BY DEF Coming
  <2>6. CASE UNCHANGED <<log, repeats>>
    BY <1>3, <2>3, <2>4, <2>6
  <2>7. CASE Appends(e) /\ undelivered' = undelivered \ {e} /\ UNCHANGED repeats
    <3>1. ~Coming(e.of)'  BY <1>2, <2>1, <2>2, <2>7 DEF Coming, Separate
    <3>2. \A n \in Nat : Cardinality(Ons(n)') <= repeats' + Owed(n)'
      BY <2>1, <2>4, <2>5, <2>7, <3>1, OneSent
    <3>3. QED  BY <2>3, <3>2 DEF OnceEach
  <2>8. CASE AppendsAgain(e)
    <3>1. \A n \in Nat : Cardinality(Ons(n)') <= repeats' + Owed(n)'
      BY <2>1, <2>4, <2>5, <2>8, OneSent
    <3>2. QED  BY <2>3, <3>1 DEF OnceEach
  <2>9. QED  BY <2>1, <2>6, <2>7, <2>8 DEF Arrives
<1>9. QED  BY <1>4, <1>5, <1>6, <1>7, <1>8, TimelineSteps

LEMMA ExactStep ==
  ASSUME History!TimelineAssumption, History!TypeOK, Marking, Complete, Exact, [History!Next]_(History!timelineVars)
  PROVE  Exact'
<1>1. log \in Seq(Events) /\ losses \in Nat /\ writer \in [Writers -> Scribes]
  BY ScribesAre
<1>2. ~clashed /\ losses = 0 => OneAtATime  BY DEF Complete
<1>3. CASE Unwritten /\ UNCHANGED <<bus, writer, losses, clashed>> /\ History!Unsent
  BY <1>3 DEF Unwritten, Exact, Logged, History!Unsent
<1>4. ASSUME NEW q \in Writers, History!Insert(q) PROVE Exact'
  <2>1. /\ Turns(q) /\ Written("pending") /\ writer'[q].pc = "reread" /\ UNCHANGED <<log, losses, undelivered, putOff>>
        /\ Alone(q)
    BY <1>4, InsertScribe DEF History!Unsent, Begins1
  <2>2. Logged' = Logged  BY <2>1 DEF Logged
  <2>3. QED  BY <2>1, <2>2 DEF Exact, Turns, Written, Alone
<1>5. ASSUME NEW q \in Writers, History!Read(q) PROVE Exact'
  <2>1. /\ Turns(q) /\ writer'[q].pc = "apply" /\ UNCHANGED <<log, losses, undelivered, putOff>> /\ Unwritten
        /\ Alone(q)
    BY <1>5, ReadScribe DEF History!Unsent, Begins1
  <2>2. Logged' = Logged  BY <2>1 DEF Logged
  <2>3. QED  BY <2>1, <2>2 DEF Exact, Turns, Unwritten, Alone
<1>6. ASSUME NEW q \in Writers, History!Apply(q) PROVE Exact'
  <2>1. /\ Turns(q) /\ Written(writer[q].to) /\ writer[q].pc = "apply" /\ writer'[q].pc = "reread"
        /\ UNCHANGED <<log, losses, clashed, undelivered, putOff>>
    BY <1>6, ApplyScribe DEF History!Unsent
  <2>2. Logged' = Logged  BY <2>1 DEF Logged
  <2>3. SUFFICES ASSUME ~clashed, losses = 0, ~putOff
                 PROVE  Exact'
    BY <2>1 DEF Exact
  <2>4. (\A p \in Writers \ {q} : writer[p].pc = "idle") /\ undelivered = {}
    BY <1>2, <2>1, <2>3 DEF OneAtATime, Exact
  <2>5. applied = Logged  BY <2>1, <2>3, <2>4 DEF Exact
  <2>6. \A p \in Writers \ {q} : writer'[p].pc = "idle"  BY <2>1, <2>4 DEF Turns
  <2>7. applied' = Append(Logged', stamped')  BY <2>1, <2>2, <2>5 DEF Written
  <2>8. QED  BY <2>1, <2>4, <2>6, <2>7 DEF Exact
<1>7. ASSUME NEW q \in Writers, History!Reread(q) PROVE Exact'
  <2>1. /\ Turns(q) /\ writer[q].pc = "reread" /\ writer'[q].pc = "publish" /\ writer'[q].event.status = stamped
        /\ UNCHANGED <<log, losses, clashed, undelivered, putOff>> /\ Unwritten
    BY <1>7, RereadScribe DEF History!Unsent
  <2>2. Logged' = Logged  BY <2>1 DEF Logged
  <2>3. SUFFICES ASSUME ~clashed, losses = 0, ~putOff
                 PROVE  Exact'
    BY <2>1 DEF Exact
  <2>4. (\A p \in Writers \ {q} : writer[p].pc = "idle") /\ undelivered = {} /\ applied = Append(Logged, stamped)
    BY <1>2, <2>1, <2>3 DEF OneAtATime, Exact
  <2>5. \A p \in Writers \ {q} : writer'[p].pc = "idle"  BY <2>1, <2>4 DEF Turns
  <2>6. applied' = Append(Logged', writer'[q].event.status)  BY <2>1, <2>2, <2>4 DEF Unwritten
  <2>7. QED  BY <2>1, <2>4, <2>5, <2>6 DEF Exact
<1>8. ASSUME NEW q \in Writers, History!Publish(q) \/ History!AppendFails(q) PROVE Exact'
  <2>1. /\ Turns(q) /\ writer[q].pc = "publish" /\ writer'[q].pc = "idle" /\ writer[q].event \in Events
        /\ Lands(writer[q].event) /\ UNCHANGED <<losses, clashed>> /\ Unwritten
    BY <1>8, PublishScribe
  <2>2. SUFFICES ASSUME ~putOff' PROVE Exact'
    BY DEF Exact
  <2>3. Appends(writer[q].event) /\ UNCHANGED <<undelivered, putOff>>
    BY <2>1, <2>2 DEF Lands
  <2>4. Logged' = Append(Logged, writer[q].event.status)  BY <1>1, <2>1, <2>3, LogGrows
  <2>5. undelivered' = {}  BY <2>2, <2>3 DEF Exact
  <2>6. SUFFICES ASSUME ~clashed, losses = 0
                 PROVE  Exact'
    BY <2>1, <2>5 DEF Exact
  <2>7. applied = Append(Logged, writer[q].event.status) /\ \A p \in Writers \ {q} : writer[p].pc = "idle"
    BY <1>2, <2>1, <2>2, <2>3, <2>6 DEF Exact, OneAtATime
  <2>8. \A p \in Writers : writer'[p].pc = "idle"  BY <2>1, <2>7 DEF Turns
  <2>9. applied' = Logged'  BY <2>1, <2>4, <2>7 DEF Unwritten
  <2>10. QED  BY <2>5, <2>8, <2>9 DEF Exact
<1>9. ASSUME NEW q \in Writers, History!Lose(q) PROVE Exact'
  <2>1. losses' \in 1 .. MaxLosses /\ UNCHANGED <<undelivered, putOff>>
    BY <1>9, LoseScribe DEF History!Unsent
  <2>2. losses' # 0  BY <2>1
  <2>3. QED  BY <2>1, <2>2 DEF Exact
<1>10. ASSUME NEW e \in undelivered, History!Deliver(e) \/ History!Redeliver(e) \/ History!Drop(e)
       PROVE  Exact'
  <2>1. putOff' = putOff  BY <1>10, DeliveryDoes
  <2>2. putOff  BY DEF Exact
  <2>3. QED  BY <2>1, <2>2 DEF Exact
<1>11. QED  BY <1>3, <1>4, <1>5, <1>6, <1>7, <1>8, <1>9, <1>10, TimelineSteps

LEMMA TimelineInit ==
  ASSUME History!TimelineAssumption, History!Init
  PROVE  TimelineInv
<1>1. MaxUpdates \in Nat /\ MaxLosses \in Nat /\ MaxRepeats \in Nat
      /\ 0 \in 0 .. MaxUpdates /\ 0 \in 0 .. MaxLosses /\ 0 \in 0 .. MaxRepeats
  BY DEF History!TimelineAssumption
<1>2. log = <<>> /\ applied = <<>> /\ stamped = None /\ updatedAt = 0 /\ losses = 0 /\ repeats = 0 /\ clashed = FALSE
      /\ undelivered = {} /\ putOff = FALSE /\ bus \in {"process", "redis"}
      /\ \A q \in Writers : writer[q].pc = "idle"
  BY DEF History!Init, History!Idle
<1>3. History!Idle \in Scribes
  BY <1>1 DEF History!Idle, Scribes, Events, History!EventsOf, History!NoEvent
<1>4. writer \in [Writers -> Scribes]
  BY <1>3 DEF History!Init
<1>5. log \in Seq(Events) /\ applied \in Seq(History!Status)
  BY <1>2
<1>6. History!TypeOK
  BY <1>1, <1>2, <1>4, <1>5 DEF History!TypeOK, Scribes, Events
<1>7. DOMAIN log = {} /\ Logged = <<>>
  BY <1>2 DEF Logged
<1>8. Announced = {} /\ Carriers = {}  BY <1>2, <1>7 DEF Announced, Carriers
<1>9. Truth  BY <1>2, <1>8 DEF Truth, Recorded
<1>10. Marking /\ CaughtUp  BY <1>2 DEF Marking, CaughtUp
<1>11. Complete  BY <1>2 DEF Complete, OneAtATime
<1>12. OnceEach
  <2>1. Separate  BY <1>2, <1>8 DEF Separate
  <2>2. Cardinality({}) = 0  BY FS_EmptySet
  <2>3. ASSUME NEW n \in Nat PROVE Cardinality(Ons(n)) <= repeats + Owed(n)
    <3>1. Ons(n) = {}  BY <1>7 DEF Ons
    <3>2. ~Coming(n)  BY <1>2, <1>8 DEF Coming
    <3>3. Owed(n) = 1  BY <3>2 DEF Owed
    <3>4. QED  BY <1>2, <2>2, <3>1, <3>3
  <2>4. QED  BY <2>1, <2>3 DEF OnceEach
<1>13. Exact  BY <1>2, <1>7 DEF Exact
<1>14. QED  BY <1>6, <1>9, <1>10, <1>11, <1>12, <1>13 DEF TimelineInv

(* Bridges to the operators of the instance.                               *)
LEMMA TimelineCounts == \A S : History!Cardinality(S) = Cardinality(S)
BY DEF History!Cardinality, Cardinality, History!IsFiniteSet, IsFiniteSet

LEMMA TimelineImplies ==
  ASSUME History!TimelineAssumption, TimelineInv
  PROVE  TimelineTells
<1>1. /\ History!TypeOK /\ Truth /\ CaughtUp /\ Complete /\ OnceEach /\ Exact
      /\ log \in Seq(Events) /\ repeats \in Nat /\ updatedAt \in Nat /\ applied \in Seq(History!Status)
      /\ MaxUpdates \in Nat
  BY ScribesAre DEF TimelineInv
<1>2. DOMAIN applied = 1 .. updatedAt /\ (stamped = None <=> updatedAt = 0) /\ (updatedAt # 0 => stamped = applied[updatedAt])
  BY <1>1 DEF Truth, Recorded
<1>3. \A e \in Announced : Tells(e)  BY <1>1 DEF Truth
<1>4. \A i \in DOMAIN log : log[i] \in Announced  BY DEF Announced
<1>5. ASSUME History!Quiet
      PROVE  /\ losses = 0 /\ (\A q \in Writers : writer[q].pc = "idle") /\ ~Rereading
             /\ Announced = {log[i] : i \in DOMAIN log}
  <2>1. losses = 0 /\ undelivered = {} /\ \A q \in Writers : writer[q].pc = "idle"
    BY <1>5 DEF History!Quiet, History!Busy, History!At
  <2>2. QED  BY <2>1 DEF Announced, Rereading
<1>6. History!CatchesUp
  <2>1. SUFFICES ASSUME History!Quiet, stamped # None
                 PROVE  \E i \in DOMAIN log : log[i].status = stamped /\ log[i].at = updatedAt
    BY DEF History!CatchesUp
  <2>2. updatedAt > 0  BY <1>1, <1>2, <2>1
  <2>3. Told(updatedAt)  BY <1>1, <1>5, <2>1, <2>2 DEF CaughtUp
  <2>4. PICK i \in DOMAIN log : log[i].at = updatedAt  BY <1>5, <2>1, <2>3 DEF Told
  <2>5. log[i].status = applied[updatedAt]  BY <1>3, <1>4, <2>4 DEF Tells
  <2>6. QED  BY <1>2, <2>2, <2>4, <2>5
<1>7. History!NothingButTrue
  <2>1. \A i \in DOMAIN log : log[i].at \in DOMAIN applied /\ log[i].status = applied[log[i].at]
    BY <1>2, <1>3, <1>4 DEF Tells
  <2>2. \A i \in DOMAIN log : log[i].type = "created" <=> log[i].of = 1
    BY <1>3, <1>4 DEF Tells, Whose
  <2>3. ASSUME NEW n \in 0 .. MaxUpdates
        PROVE  History!Cardinality({i \in DOMAIN log : log[i].of = n})
                 <= IF n \in DOMAIN applied THEN 1 + repeats ELSE 0
    <3>1. History!Cardinality({i \in DOMAIN log : log[i].of = n}) = Cardinality(Ons(n))
      BY TimelineCounts DEF Ons
    <3>2. CASE n \in DOMAIN applied
      <4>1. n \in Nat  OBVIOUS
      <4>2. Cardinality(Ons(n)) <= repeats + Owed(n)  BY <1>1, <4>1 DEF OnceEach
      <4>3. Owed(n) \in {0, 1} /\ Cardinality(Ons(n)) \in Nat  BY <1>1, OnsCounted DEF Owed
      <4>4. Cardinality(Ons(n)) <= 1 + repeats  BY <1>1, <4>2, <4>3
      <4>5. QED  BY <3>1, <3>2, <4>4
    <3>3. CASE n \notin DOMAIN applied
      <4>1. Cardinality(Ons(n)) = 0  BY <1>1, <1>2, <3>3, MadeBefore
      <4>2. QED  BY <3>1, <3>3, <4>1
    <3>4. QED  BY <3>2, <3>3
  <2>4. QED  BY <2>1, <2>2, <2>3 DEF History!NothingButTrue
<1>8. ASSUME History!Quiet, ~clashed PROVE DOMAIN applied = {log[i].at : i \in DOMAIN log}
  <2>1. \A n \in 1 .. updatedAt : Told(n)
    BY <1>1, <1>5, <1>8 DEF Complete
  <2>2. \A n \in 1 .. updatedAt : \E i \in DOMAIN log : log[i].at = n
    BY <1>5, <1>8, <2>1 DEF Told
  <2>3. \A i \in DOMAIN log : log[i].at \in 1 .. updatedAt
    BY <1>3, <1>4 DEF Tells
  <2>4. QED  BY <1>2, <2>2, <2>3
<1>9. ASSUME History!Quiet, ~clashed, ~putOff PROVE [i \in DOMAIN log |-> log[i].status] = applied
  BY <1>1, <1>5, <1>9 DEF Exact, Logged
<1>10. QED  BY <1>1, <1>6, <1>7, <1>8, <1>9 DEF TimelineTells, History!TimelineTells, History!Faithful

(* What is on the timeline is true, every update once and once more for a  *)
(* delivery that is repeated; it catches up with the action, and holds the *)
(* whole history of requests that come one at a time, in order unless      *)
(* events were put off: on either bus (wiring.ts), for every number of     *)
(* requests, updates, losses and repetitions.                              *)
THEOREM TimelineHolds ==
  ASSUME History!TimelineAssumption
  PROVE  History!Spec => []TimelineTells
<1>1. History!Init => TimelineInv  BY TimelineInit
<1>2. TimelineInv /\ [History!Next]_(History!timelineVars) => TimelineInv'
  BY TimelineTyped, TruthStep, CaughtUpStep, CompleteStep, OnceEachStep, ExactStep DEF TimelineInv, Truth
<1>3. TimelineInv => TimelineTells  BY TimelineImplies
<1>4. QED  BY <1>1, <1>2, <1>3, PTL DEF History!Spec

-----------------------------------------------------------------------------
(* ToolLoop.  What agents and messages are.                                *)
Size(a) == Len(BatchOf[a])
CallIds == UNION {{Loop!CallsOf[a][i].callId : i \in DOMAIN BatchOf[a]} : a \in Agents}
Notes ==
  [id : CallIds, kind : {"error", "result", "pending", "denied", "threw"},
   key : Loop!ActionKeys \cup {Loop!NoKey}, isError : BOOLEAN]
AgentStates == [pc : {"ready", "working", "delivered"}, messages : Seq(Notes)]
LoopTyped ==
  /\ ledger \in [Loop!ActionKeys -> DOMAIN Loop!EndOf \cup {"none", "failed", "approved"}]
  /\ worked \in [Loop!ActionKeys -> Nat] /\ agent \in [Agents -> AgentStates]
  /\ failures \in 0 .. MaxFailures /\ rounds \in 0 .. MaxRounds
  /\ \A a \in Agents : /\ Len(agent[a].messages) <= Size(a)
                       /\ agent[a].pc \in {"ready", "working"} => Len(agent[a].messages) < Size(a)

(* Work under way has the ledger's entry to itself.                        *)
Working ==
  /\ \A a \in Agents : agent[a].pc = "working" => ledger[Loop!CurrentKey(a)] = "running"
  /\ \A a, b \in Agents : agent[a].pc = "working" /\ agent[b].pc = "working" /\ a # b =>
                            Loop!CurrentKey(a) # Loop!CurrentKey(b)
  /\ \A k \in Loop!ActionKeys : ledger[k] = "succeeded" => worked[k] > 0

(* Work that needs no approval and does not throw.                         *)
Straight(k) == k.tool \notin FlakyTools /\ PolicyOf[k.tool] = "allow"
WorkedOnce ==
  \A k \in Loop!ActionKeys : Straight(k) =>
    /\ ledger[k] \in {"none", "running", "succeeded"}
    /\ worked[k] = IF ledger[k] = "succeeded" THEN 1 ELSE 0

LoopInv == LoopTyped /\ Working /\ WorkedOnce /\ Loop!MessagesMatch

LEMMA Batches ==
  ASSUME Loop!ToolLoopAssumption, NEW a \in Agents
  PROVE  /\ Size(a) \in Nat \ {0} /\ DOMAIN BatchOf[a] = 1 .. Size(a)
         /\ Loop!CallsOf[a] = [i \in 1 .. Size(a) |-> Loop!NormalizeToolCall(BatchOf[a][i])]
         /\ Loop!KeysOf[a] = [i \in 1 .. Size(a) |-> Loop!Key(a, Loop!CallsOf[a][i])]
         /\ Len(Loop!CallsOf[a]) = Size(a)
         /\ \A i \in 1 .. Size(a) : /\ Loop!KeysOf[a][i] \in Loop!ActionKeys
                                    /\ Loop!KeysOf[a][i].tool = Loop!CallsOf[a][i].name
                                    /\ Loop!CallsOf[a][i].callId \in CallIds
<1>1. Size(a) \in Nat \ {0} /\ DOMAIN BatchOf[a] = 1 .. Size(a)
  BY DEF Loop!ToolLoopAssumption, Size
<1>2. /\ Loop!CallsOf[a] = [i \in 1 .. Size(a) |-> Loop!NormalizeToolCall(BatchOf[a][i])]
      /\ Loop!KeysOf[a] = [i \in 1 .. Size(a) |-> Loop!Key(a, Loop!CallsOf[a][i])]
  BY <1>1 DEF Loop!CallsOf, Loop!KeysOf
<1>3. Len(Loop!CallsOf[a]) = Size(a)
  <2> DEFINE S == {Loop!NormalizeToolCall(BatchOf[a][i]) : i \in 1 .. Size(a)}
  <2>1. \A i \in 1 .. Size(a) : Loop!NormalizeToolCall(BatchOf[a][i]) \in S  OBVIOUS
  <2> HIDE DEF S
  <2>2. Loop!CallsOf[a] \in [1 .. Size(a) -> S]  BY <1>2, <2>1
  <2>3. QED  BY <1>1, <2>2
<1>4. ASSUME NEW i \in 1 .. Size(a)
      PROVE  /\ Loop!KeysOf[a][i] \in Loop!ActionKeys
             /\ Loop!KeysOf[a][i].tool = Loop!CallsOf[a][i].name
             /\ Loop!CallsOf[a][i].callId \in CallIds
  <2>1. Loop!KeysOf[a][i] \in Loop!ToSet(Loop!KeysOf[a])
    BY <1>2 DEF Loop!ToSet
  <2>2. Loop!KeysOf[a][i] \in Loop!ActionKeys
    BY <2>1 DEF Loop!ActionKeys
  <2>3. Loop!KeysOf[a][i] = Loop!Key(a, Loop!CallsOf[a][i])  BY <1>2
  <2>4. Loop!KeysOf[a][i].tool = Loop!CallsOf[a][i].name  BY <2>3 DEF Loop!Key
  <2>5. Loop!CallsOf[a][i].callId \in CallIds  BY <1>1 DEF CallIds
  <2>6. QED  BY <2>2, <2>4, <2>5
<1>5. QED  BY <1>1, <1>2, <1>3, <1>4

(* The call an agent is at.                                                *)
LEMMA Currently ==
  ASSUME Loop!ToolLoopAssumption, LoopTyped, NEW a \in Agents, agent[a].pc \in {"ready", "working"}
  PROVE  /\ agent[a] \in AgentStates /\ agent[a].messages \in Seq(Notes) /\ Size(a) \in Nat
         /\ Loop!Place(a) = Len(agent[a].messages) + 1 /\ Loop!Place(a) \in 1 .. Size(a)
         /\ Loop!CurrentKey(a) = Loop!KeysOf[a][Loop!Place(a)] /\ Loop!CurrentKey(a) \in Loop!ActionKeys
         /\ Loop!CurrentKey(a) = Loop!Key(a, Loop!Current(a)) /\ Loop!CurrentKey(a).tool = Loop!Current(a).name
         /\ Loop!Current(a) = Loop!CallsOf[a][Loop!Place(a)] /\ Loop!Current(a).callId \in CallIds
<1>1. agent[a] \in AgentStates /\ agent[a].messages \in Seq(Notes) /\ Len(agent[a].messages) < Size(a)
  BY DEF LoopTyped, AgentStates
<1>2. Size(a) \in Nat  BY Batches
<1>3. Loop!Place(a) = Len(agent[a].messages) + 1 /\ Loop!Place(a) \in 1 .. Size(a)
  <2>1. Len(agent[a].messages) \in Nat  BY <1>1
  <2>2. QED  BY <1>1, <1>2, <2>1 DEF Loop!Place
<1>4. Loop!CurrentKey(a) = Loop!KeysOf[a][Loop!Place(a)] /\ Loop!Current(a) = Loop!CallsOf[a][Loop!Place(a)]
  BY DEF Loop!CurrentKey, Loop!Current
<1>5. \A i \in 1 .. Size(a) : /\ Loop!KeysOf[a][i] \in Loop!ActionKeys
                              /\ Loop!KeysOf[a][i].tool = Loop!CallsOf[a][i].name
                              /\ Loop!CallsOf[a][i].callId \in CallIds
  BY Batches
<1>6. \A i \in 1 .. Size(a) : Loop!KeysOf[a][i] = Loop!Key(a, Loop!CallsOf[a][i])
  BY Batches
<1>7. /\ Loop!CurrentKey(a) \in Loop!ActionKeys /\ Loop!CurrentKey(a).tool = Loop!Current(a).name
      /\ Loop!Current(a).callId \in CallIds
  BY <1>3, <1>4, <1>5
<1>8. Loop!CurrentKey(a) = Loop!Key(a, Loop!Current(a))
  BY <1>3, <1>4, <1>6
<1>9. QED  BY <1>1, <1>2, <1>3, <1>4, <1>7, <1>8

(* What a surface makes of the end of a call.                              *)
Ends == {"unknown", "result", "pending", "denied", "threw"}
Fits(a, m, end) ==
  /\ m.id = Loop!Current(a).callId
  /\ m.kind = "result" => end = "result"
  /\ m.kind = "pending" => m.key = Loop!CurrentKey(a)
  /\ m.kind = "denied" => end = "denied"

LEMMA AnswerIs ==
  ASSUME Loop!ToolLoopAssumption, LoopTyped, NEW a \in Agents, agent[a].pc \in {"ready", "working"}, NEW end \in Ends
  PROVE  \/ Loop!Answer(a, Loop!Current(a), end) = Loop!Throw
         \/ \E m \in Notes : /\ Loop!Answer(a, Loop!Current(a), end) = <<m>>
                             /\ m.kind # "threw" /\ Fits(a, m, end)
<1> DEFINE asked == Loop!Current(a)
           mine == Loop!Key(a, asked)
           Good(x) == x = Loop!Throw \/ \E m \in Notes : x = <<m>> /\ m.kind # "threw" /\ Fits(a, m, end)
<1>1. /\ mine = Loop!CurrentKey(a) /\ mine \in Loop!ActionKeys /\ asked.callId \in CallIds
  BY Currently
<1>2. ASSUME NEW kind \in {"error", "result", "pending", "denied"}, NEW l \in Loop!ActionKeys \cup {Loop!NoKey},
             NEW e \in BOOLEAN, kind = "result" => end = "result", kind = "pending" => l = mine,
             kind = "denied" => end = "denied"
      PROVE  Good(<<Loop!Message(asked, kind, l, e)>>)
  <2> DEFINE m == Loop!Message(asked, kind, l, e)
  <2>1. m \in Notes /\ m.kind = kind /\ m.key = l /\ m.id = asked.callId
    BY <1>1 DEF Loop!Message, Notes
  <2>2. m.kind # "threw" /\ Fits(a, m, end)
    BY <1>1, <1>2, <2>1 DEF Fits
  <2>3. QED  BY <2>1, <2>2
<1>3. Good(Loop!Throw)  OBVIOUS
<1> DEFINE unknown == <<Loop!Message(asked, "error", Loop!NoKey, FALSE)>>
           shown == <<Loop!Message(asked, "error", Loop!NoKey, TRUE)>>
           result == <<Loop!Message(asked, "result", mine, FALSE)>>
           pending == <<Loop!Message(asked, "pending", mine, FALSE)>>
           denied == <<Loop!Message(asked, "denied", Loop!NoKey, FALSE)>>
           refused == <<Loop!Message(asked, "denied", Loop!NoKey, TRUE)>>
<1>4. /\ Good(unknown) /\ Good(shown) /\ (end = "result" => Good(result)) /\ Good(pending)
      /\ (end = "denied" => Good(denied) /\ Good(refused))
  BY <1>1, <1>2
<1> HIDE DEF Good
<1>5. Good(Loop!RunToolCall(a, asked, end))
  <2>1. /\ end = "unknown" => Loop!RunToolCall(a, asked, end) = unknown
        /\ end = "result" => Loop!RunToolCall(a, asked, end) = result
        /\ end = "pending" => Loop!RunToolCall(a, asked, end) = pending
        /\ end = "denied" => Loop!RunToolCall(a, asked, end) = denied
        /\ end = "threw" => Loop!RunToolCall(a, asked, end) = Loop!Throw
    BY DEF Loop!RunToolCall, Loop!DefaultPendingResult, Loop!DefaultDeniedResult, Loop!ResolvePendingKey
  <2> HIDE DEF unknown, result, pending, denied
  <2>2. QED  BY <1>3, <1>4, <2>1 DEF Ends
<1>6. Good(Loop!RunGraphCall(a, asked, end))
  BY <1>4, <1>5 DEF Loop!RunGraphCall
<1>7. Good(Loop!WrappedExecute(a, asked, end)) /\ Good(Loop!WrappedTool(a, asked, end))
  BY <1>3, <1>5 DEF Loop!WrappedExecute, Loop!WrappedTool
<1>8. Good(Loop!Guard(a, asked, end))
  <2>1. /\ end = "denied" => Loop!Guard(a, asked, end) = refused
        /\ end = "unknown" => Loop!Guard(a, asked, end) = Loop!Throw
        /\ end \notin {"denied", "unknown"} => Loop!Guard(a, asked, end) = Loop!RunToolCall(a, asked, end)
    BY DEF Loop!Guard
  <2> HIDE DEF refused
  <2>2. QED  BY <1>3, <1>4, <1>5, <2>1
<1>9. SurfaceOf[a] \in {"functions", "graph", "agents", "tools", "mcp"}
  BY DEF Loop!ToolLoopAssumption, Loop!Runners, Loop!Wrapped
<1>10. Good(Loop!Answer(a, asked, end))
  <2>1. /\ SurfaceOf[a] = "functions" => Loop!Answer(a, asked, end) = Loop!RunToolCall(a, asked, end)
        /\ SurfaceOf[a] = "graph" => Loop!Answer(a, asked, end) = Loop!RunGraphCall(a, asked, end)
        /\ SurfaceOf[a] = "agents" => Loop!Answer(a, asked, end) = Loop!WrappedExecute(a, asked, end)
        /\ SurfaceOf[a] = "tools" => Loop!Answer(a, asked, end) = Loop!WrappedTool(a, asked, end)
        /\ SurfaceOf[a] = "mcp" => Loop!Answer(a, asked, end) = Loop!Guard(a, asked, end)
    BY DEF Loop!Answer
  <2>2. QED  BY <1>5, <1>6, <1>7, <1>8, <1>9, <2>1
<1>11. QED  BY <1>10 DEF Good

(* An agent after a call.                                                  *)
Spoke(a, s, end) ==
  /\ s \in AgentStates /\ s.pc # "working" /\ Len(s.messages) <= Size(a)
  /\ s.pc = "ready" => Len(s.messages) < Size(a)
  /\ \/ s.messages = <<>>
     \/ \E m \in Notes : /\ s.messages = Append(agent[a].messages, m) /\ Fits(a, m, end)
                         /\ m.kind = "threw" => SurfaceOf[a] \in Loop!Wrapped

LEMMA EndedDoes ==
  ASSUME Loop!ToolLoopAssumption, LoopTyped, NEW a \in Agents, agent[a].pc \in {"ready", "working"},
         NEW end \in Ends, Loop!Ended(a, end)
  PROVE  \E s : agent' = [agent EXCEPT ![a] = s] /\ Spoke(a, s, end)
<1>1. /\ agent[a].messages \in Seq(Notes) /\ Size(a) \in Nat /\ Loop!Current(a).callId \in CallIds
      /\ Loop!Place(a) = Len(agent[a].messages) + 1 /\ Loop!Place(a) \in 1 .. Size(a)
  BY Currently
<1>2. Len(Loop!CallsOf[a]) = Size(a) /\ Size(a) > 0
  <2>1. Size(a) \in Nat \ {0} /\ Len(Loop!CallsOf[a]) = Size(a)  BY Batches
  <2>2. QED  BY <2>1
<1>3. PICK answer : answer = Loop!Answer(a, Loop!Current(a), end)  OBVIOUS
<1>4. PICK threw : threw = Loop!Message(Loop!Current(a), "threw", Loop!NoKey, TRUE)  OBVIOUS
<1>5. threw \in Notes /\ threw.kind = "threw" /\ threw.id = Loop!Current(a).callId
  BY <1>1, <1>4 DEF Loop!Message, Notes
<1>6. PICK some : some = agent[a].messages \o IF answer = Loop!Throw THEN <<threw>> ELSE answer  OBVIOUS
<1>7. PICK s : s = IF answer = Loop!Throw /\ SurfaceOf[a] \in Loop!Runners THEN Loop!Fresh
                   ELSE [pc |-> IF Len(some) = Len(Loop!CallsOf[a]) THEN "delivered" ELSE "ready", messages |-> some]
  OBVIOUS
<1>8. agent' = [agent EXCEPT ![a] = s]
  BY <1>3, <1>4, <1>6, <1>7 DEF Loop!Ended
<1>9. \E m \in Notes : /\ some = Append(agent[a].messages, m) /\ Fits(a, m, end)
                       /\ m.kind = "threw" => answer = Loop!Throw
  <2>1. CASE answer = Loop!Throw
    <3>1. some = agent[a].messages \o <<threw>>  BY <1>6, <2>1
    <3>2. some = Append(agent[a].messages, threw)  BY <1>1, <1>5, <3>1
    <3>3. Fits(a, threw, end)  BY <1>5 DEF Fits
    <3>4. QED  BY <1>5, <2>1, <3>2, <3>3
  <2>2. CASE answer # Loop!Throw
    <3>1. PICK m \in Notes : answer = <<m>> /\ m.kind # "threw" /\ Fits(a, m, end)
      BY <1>3, <2>2, AnswerIs
    <3>2. some = agent[a].messages \o <<m>>  BY <1>6, <2>2, <3>1
    <3>3. some = Append(agent[a].messages, m)  BY <1>1, <3>1, <3>2
    <3>4. QED  BY <3>1, <3>3
  <2>3. QED  BY <2>1, <2>2
<1>10. some \in Seq(Notes) /\ Len(some) = Len(agent[a].messages) + 1
  BY <1>1, <1>9
<1>11. Len(some) \in 1 .. Size(a)
  BY <1>1, <1>10
<1>12. CASE answer = Loop!Throw /\ SurfaceOf[a] \in Loop!Runners
  <2>1. s = [pc |-> "ready", messages |-> <<>>]  BY <1>7, <1>12 DEF Loop!Fresh
  <2>2. s \in AgentStates /\ s.pc = "ready" /\ s.messages = <<>> /\ Len(s.messages) = 0
    BY <2>1 DEF AgentStates
  <2>3. Len(s.messages) < Size(a) /\ Len(s.messages) <= Size(a)  BY <1>1, <1>2, <2>2
  <2>4. Spoke(a, s, end)  BY <2>2, <2>3 DEF Spoke
  <2>5. QED  BY <1>8, <2>4
<1>13. CASE ~ (answer = Loop!Throw /\ SurfaceOf[a] \in Loop!Runners)
  <2>1. s = [pc |-> IF Len(some) = Size(a) THEN "delivered" ELSE "ready", messages |-> some]
    BY <1>2, <1>7, <1>13
  <2>2. s \in AgentStates /\ s.pc # "working" /\ s.messages = some /\ (s.pc = "ready" => Len(some) # Size(a))
    BY <1>10, <2>1 DEF AgentStates
  <2>3. Len(s.messages) <= Size(a) /\ (s.pc = "ready" => Len(s.messages) < Size(a))
    BY <1>1, <1>11, <2>2
  <2>4. answer = Loop!Throw => SurfaceOf[a] \in Loop!Wrapped
    BY <1>13 DEF Loop!ToolLoopAssumption
  <2>5. QED  BY <1>8, <1>9, <2>2, <2>3, <2>4 DEF Spoke
<1>14. QED  BY <1>12, <1>13

(* What a call does, but to begin its work: to its agent, to the ledger's  *)
(* entry and to how often its work was done.                               *)
Called(a, s, v, w, end) ==
  /\ agent' = [agent EXCEPT ![a] = s] /\ Spoke(a, s, end)
  /\ ledger' = [ledger EXCEPT ![Loop!CurrentKey(a)] = v] /\ v \in DOMAIN Loop!EndOf \cup {"none", "failed", "approved"}
  /\ worked' = [worked EXCEPT ![Loop!CurrentKey(a)] = w] /\ w \in Nat
Fair(a, v, w, end) ==
  LET k == Loop!CurrentKey(a)
  IN /\ w >= worked[k] /\ (end = "result" => w > 0) /\ (v = "succeeded" => w > 0)
     /\ end = "denied" => v = "denied"
     /\ ledger[k] = "denied" => v = "denied"
     /\ v = ledger[k] \/ ledger[k] # "running" \/ agent[a].pc = "working"
     /\ Straight(k) => v \in {"none", "running", "succeeded"} /\ w = IF v = "succeeded" THEN 1 ELSE 0
Starts(a) ==
  /\ agent[a].pc = "ready" /\ ledger[Loop!CurrentKey(a)] \in {"none", "failed", "approved"}
  /\ ledger' = [ledger EXCEPT ![Loop!CurrentKey(a)] = "running"]
  /\ agent' = [agent EXCEPT ![a].pc = "working"] /\ UNCHANGED worked

LEMMA EndOfIs ==
  /\ DOMAIN Loop!EndOf = {"succeeded", "awaiting_approval", "denied", "rejected", "running"}
  /\ \A v \in DOMAIN Loop!EndOf :
       /\ Loop!EndOf[v] \in Ends /\ (Loop!EndOf[v] = "result" => v = "succeeded")
       /\ Loop!EndOf[v] = "denied" => v = "denied"
BY DEF Loop!EndOf, Ends

LEMMA BeginDoes ==
  ASSUME Loop!ToolLoopAssumption, LoopInv, NEW a \in Agents, Loop!Begin(a)
  PROVE  (Starts(a) \/ \E s, v, w : \E end \in Ends : Called(a, s, v, w, end) /\ Fair(a, v, w, end))
         /\ UNCHANGED <<failures, rounds>>
<1> DEFINE k == Loop!CurrentKey(a)
           asked == Loop!Current(a)
<1>1. agent[a].pc = "ready" /\ UNCHANGED <<failures, rounds, worked>>
  BY DEF Loop!Begin, Loop!At
<1>2. LoopTyped /\ Working /\ WorkedOnce  BY DEF LoopInv
<1>3. k \in Loop!ActionKeys /\ k.tool = asked.name  BY <1>1, <1>2, Currently
<1>4. /\ ledger \in [Loop!ActionKeys -> DOMAIN Loop!EndOf \cup {"none", "failed", "approved"}]
      /\ worked \in [Loop!ActionKeys -> Nat]
  BY <1>2 DEF LoopTyped
<1>5. worked' = [worked EXCEPT ![k] = worked[k]] /\ worked[k] \in Nat
  BY <1>1, <1>3, <1>4
<1>6. /\ ledger[k] = "succeeded" => worked[k] > 0
      /\ Straight(k) => /\ ledger[k] \in {"none", "running", "succeeded"}
                        /\ worked[k] = IF ledger[k] = "succeeded" THEN 1 ELSE 0
  BY <1>2, <1>3 DEF Working, WorkedOnce
<1>7. ASSUME NEW end \in Ends, Loop!Ended(a, end), UNCHANGED ledger,
             end = "result" => ledger[k] = "succeeded", end = "denied" => ledger[k] = "denied"
      PROVE  \E s, v, w : Called(a, s, v, w, end) /\ Fair(a, v, w, end)
  <2>1. PICK s : agent' = [agent EXCEPT ![a] = s] /\ Spoke(a, s, end)
    BY <1>1, <1>2, <1>7, EndedDoes
  <2>2. ledger' = [ledger EXCEPT ![k] = ledger[k]] /\ ledger[k] \in DOMAIN Loop!EndOf \cup {"none", "failed", "approved"}
    BY <1>3, <1>4, <1>7
  <2>3. Called(a, s, ledger[k], worked[k], end)
    BY <1>5, <2>1, <2>2 DEF Called
  <2>4. Fair(a, ledger[k], worked[k], end)
    BY <1>5, <1>6, <1>7 DEF Fair
  <2>5. QED  BY <2>3, <2>4
<1>8. ASSUME NEW v \in {"denied", "awaiting_approval"}, NEW end \in {"denied", "pending"}, Loop!Ended(a, end),
             ledger' = [ledger EXCEPT ![k] = v], ledger[k] \notin DOMAIN Loop!EndOf,
             end = "denied" => v = "denied", ~ Straight(k)
      PROVE  \E s, w : Called(a, s, v, w, end) /\ Fair(a, v, w, end)
  <2>1. PICK s : agent' = [agent EXCEPT ![a] = s] /\ Spoke(a, s, end)
    BY <1>1, <1>2, <1>8, EndedDoes DEF Ends
  <2>2. Called(a, s, v, worked[k], end)
    BY <1>5, <1>8, <2>1, EndOfIs DEF Called
  <2>3. Fair(a, v, worked[k], end)
    BY <1>5, <1>8, EndOfIs DEF Fair
  <2>4. QED  BY <2>2, <2>3
<1>9. CASE asked.name \notin Handlers
  <2>1. Loop!Ended(a, "unknown") /\ UNCHANGED ledger  BY <1>9 DEF Loop!Begin
  <2>2. "unknown" \in Ends  BY DEF Ends
  <2>3. QED  BY <1>1, <1>7, <2>1, <2>2
<1>10. CASE asked.name \in Handlers /\ ledger[k] \in DOMAIN Loop!EndOf
  <2>1. Loop!Ended(a, Loop!EndOf[ledger[k]]) /\ UNCHANGED ledger  BY <1>10 DEF Loop!Begin
  <2>2. /\ Loop!EndOf[ledger[k]] \in Ends /\ (Loop!EndOf[ledger[k]] = "result" => ledger[k] = "succeeded")
        /\ Loop!EndOf[ledger[k]] = "denied" => ledger[k] = "denied"
    BY <1>10, EndOfIs
  <2>3. QED  BY <1>1, <1>7, <2>1, <2>2
<1>11. CASE asked.name \in Handlers /\ ledger[k] \notin DOMAIN Loop!EndOf
  <2> DEFINE verdict == IF ledger[k] = "approved" THEN "allow" ELSE PolicyOf[asked.name]
  <2>1. verdict \in {"allow", "deny", "require_approval"}
    <3>1. PolicyOf[asked.name] \in {"allow", "deny", "require_approval"}
      BY <1>11 DEF Loop!ToolLoopAssumption
    <3>2. QED  BY <3>1
  <2>2. ledger[k] \in {"none", "failed", "approved"}  BY <1>3, <1>4, <1>11
  <2>3. /\ verdict = "allow" => /\ ledger' = [ledger EXCEPT ![k] = "running"]
                                /\ agent' = [agent EXCEPT ![a].pc = "working"]
        /\ verdict = "deny" => ledger' = [ledger EXCEPT ![k] = "denied"] /\ Loop!Ended(a, "denied")
        /\ verdict = "require_approval" => /\ ledger' = [ledger EXCEPT ![k] = "awaiting_approval"]
                                           /\ Loop!Ended(a, "pending")
    BY <1>11 DEF Loop!Begin
  <2>4. Straight(k) => verdict = "allow"
    BY <1>3 DEF Straight
  <2> HIDE DEF verdict
  <2>5. CASE verdict = "allow"  BY <1>1, <2>2, <2>3, <2>5 DEF Starts
  <2>6. CASE verdict = "deny"
    <3>1. \E s, w : Called(a, s, "denied", w, "denied") /\ Fair(a, "denied", w, "denied")
      BY <1>8, <1>11, <2>3, <2>4, <2>6
    <3>2. QED  BY <1>1, <3>1 DEF Ends
  <2>7. CASE verdict = "require_approval"
    <3>1. \E s, w : Called(a, s, "awaiting_approval", w, "pending") /\ Fair(a, "awaiting_approval", w, "pending")
      BY <1>8, <1>11, <2>3, <2>4, <2>7
    <3>2. QED  BY <1>1, <3>1 DEF Ends
  <2>8. QED  BY <2>1, <2>5, <2>6, <2>7
<1>12. QED  BY <1>9, <1>10, <1>11

LEMMA LoopWorkDoes ==
  ASSUME Loop!ToolLoopAssumption, LoopInv, NEW a \in Agents, Loop!Work(a)
  PROVE  /\ \E s, v, w : \E end \in Ends : Called(a, s, v, w, end) /\ Fair(a, v, w, end)
         /\ UNCHANGED <<failures, rounds>>
<1> DEFINE k == Loop!CurrentKey(a)
<1>1. /\ agent[a].pc = "working" /\ UNCHANGED <<failures, rounds>>
      /\ worked' = [worked EXCEPT ![k] = @ + 1] /\ ledger' = [ledger EXCEPT ![k] = "succeeded"]
      /\ Loop!Ended(a, "result")
  BY DEF Loop!Work, Loop!At
<1>2. LoopTyped /\ Working /\ WorkedOnce  BY DEF LoopInv
<1>3. k \in Loop!ActionKeys  BY <1>1, <1>2, Currently
<1>4. worked[k] \in Nat /\ ledger[k] = "running"
  BY <1>1, <1>2, <1>3 DEF LoopTyped, Working
<1>5. PICK s : agent' = [agent EXCEPT ![a] = s] /\ Spoke(a, s, "result")
  BY <1>1, <1>2, EndedDoes DEF Ends
<1>6. Called(a, s, "succeeded", worked[k] + 1, "result")
  BY <1>1, <1>4, <1>5, EndOfIs DEF Called
<1>7. Straight(k) => worked[k] = 0
  BY <1>2, <1>3, <1>4 DEF WorkedOnce
<1>8. Fair(a, "succeeded", worked[k] + 1, "result")
  BY <1>1, <1>4, <1>7 DEF Fair
<1>9. QED  BY <1>1, <1>6, <1>8 DEF Ends

LEMMA ThrowDoes ==
  ASSUME Loop!ToolLoopAssumption, LoopInv, NEW a \in Agents, Loop!WorkThrows(a)
  PROVE  /\ \E s, v, w : \E end \in Ends : Called(a, s, v, w, end) /\ Fair(a, v, w, end)
         /\ failures' \in 0 .. MaxFailures /\ UNCHANGED rounds
<1> DEFINE k == Loop!CurrentKey(a)
<1>1. /\ agent[a].pc = "working" /\ Loop!Current(a).name \in FlakyTools
      /\ failures < MaxFailures /\ failures' = failures + 1 /\ UNCHANGED <<rounds, worked>>
      /\ ledger' = [ledger EXCEPT ![k] = "failed"]
      /\ Loop!Ended(a, "threw")
  BY DEF Loop!WorkThrows, Loop!At
<1>2. LoopTyped /\ Working /\ WorkedOnce  BY DEF LoopInv
<1>3. k \in Loop!ActionKeys /\ k.tool = Loop!Current(a).name  BY <1>1, <1>2, Currently
<1>4. worked[k] \in Nat /\ ledger[k] = "running" /\ worked' = [worked EXCEPT ![k] = worked[k]]
  BY <1>1, <1>2, <1>3 DEF LoopTyped, Working
<1>5. PICK s : agent' = [agent EXCEPT ![a] = s] /\ Spoke(a, s, "threw")
  BY <1>1, <1>2, EndedDoes DEF Ends
<1>6. Called(a, s, "failed", worked[k], "threw")
  BY <1>1, <1>4, <1>5 DEF Called
<1>7. ~ Straight(k)
  BY <1>1, <1>3 DEF Straight
<1>8. Fair(a, "failed", worked[k], "threw")
  BY <1>1, <1>4, <1>7 DEF Fair
<1>9. failures' \in 0 .. MaxFailures
  BY <1>1, <1>2 DEF LoopTyped, Loop!ToolLoopAssumption
<1>10. QED  BY <1>1, <1>6, <1>8, <1>9 DEF Ends

(* A call keeps all of it.                                                 *)
LEMMA CalledTyped ==
  ASSUME Loop!ToolLoopAssumption, LoopTyped, NEW a \in Agents, agent[a].pc \in {"ready", "working"},
         NEW s, NEW v, NEW w, NEW end, Called(a, s, v, w, end),
         failures' \in 0 .. MaxFailures, rounds' \in 0 .. MaxRounds
  PROVE  LoopTyped'
<1>1. /\ ledger \in [Loop!ActionKeys -> DOMAIN Loop!EndOf \cup {"none", "failed", "approved"}]
      /\ worked \in [Loop!ActionKeys -> Nat] /\ agent \in [Agents -> AgentStates]
  BY DEF LoopTyped
<1>2. ledger' \in [Loop!ActionKeys -> DOMAIN Loop!EndOf \cup {"none", "failed", "approved"}]
  BY <1>1 DEF Called
<1>3. worked' \in [Loop!ActionKeys -> Nat]
  BY <1>1 DEF Called
<1>4. agent' \in [Agents -> AgentStates]
  BY <1>1 DEF Called, Spoke
<1>5. ASSUME NEW b \in Agents
      PROVE  /\ Len(agent'[b].messages) <= Size(b)
             /\ agent'[b].pc \in {"ready", "working"} => Len(agent'[b].messages) < Size(b)
  <2>1. CASE b = a
    <3>1. agent'[b] = s  BY <1>1, <2>1 DEF Called
    <3>2. s.pc \in {"ready", "delivered"}  BY DEF Called, Spoke, AgentStates
    <3>3. QED  BY <2>1, <3>1, <3>2 DEF Called, Spoke
  <2>2. CASE b # a
    <3>1. agent'[b] = agent[b]  BY <1>1, <2>2 DEF Called
    <3>2. QED  BY <3>1 DEF LoopTyped
  <2>3. QED  BY <2>1, <2>2
<1>6. QED  BY <1>2, <1>3, <1>4, <1>5 DEF LoopTyped

LEMMA SamePlace ==
  ASSUME NEW b, agent'[b].messages = agent[b].messages
  PROVE  Loop!CurrentKey(b)' = Loop!CurrentKey(b)
BY DEF Loop!CurrentKey, Loop!Place

LEMMA CalledWorking ==
  ASSUME Loop!ToolLoopAssumption, LoopTyped, Working, NEW a \in Agents, agent[a].pc \in {"ready", "working"},
         NEW s, NEW v, NEW w, NEW end, Called(a, s, v, w, end), Fair(a, v, w, end)
  PROVE  Working'
<1>1. PICK k \in Loop!ActionKeys : k = Loop!CurrentKey(a)  BY Currently
<1>2. /\ ledger \in [Loop!ActionKeys -> DOMAIN Loop!EndOf \cup {"none", "failed", "approved"}]
      /\ worked \in [Loop!ActionKeys -> Nat] /\ agent \in [Agents -> AgentStates]
  BY DEF LoopTyped
<1>3. ASSUME NEW b \in Agents, agent'[b].pc = "working"
      PROVE  /\ agent[b].pc = "working" /\ Loop!CurrentKey(b)' = Loop!CurrentKey(b)
             /\ ledger'[Loop!CurrentKey(b)] = "running"
  <2>1. b # a /\ agent'[b] = agent[b]  BY <1>2, <1>3 DEF Called, Spoke
  <2>2. agent[b].pc = "working" /\ ledger[Loop!CurrentKey(b)] = "running" /\ Loop!CurrentKey(b) \in Loop!ActionKeys
    BY <1>3, <2>1, Currently DEF Working
  <2>3. Loop!CurrentKey(b)' = Loop!CurrentKey(b)  BY <2>1, SamePlace
  <2>4. Loop!CurrentKey(b) = k => v = ledger[k]
    BY <1>1, <2>1, <2>2 DEF Fair, Working
  <2>5. ledger' = [ledger EXCEPT ![k] = v]  BY <1>1 DEF Called
  <2>6. ledger'[Loop!CurrentKey(b)] = "running"
    BY <1>2, <2>2, <2>4, <2>5
  <2>7. QED  BY <2>2, <2>3, <2>6
<1>4. ASSUME NEW l \in Loop!ActionKeys, ledger'[l] = "succeeded"
      PROVE  worked'[l] > 0
  <2>1. ledger' = [ledger EXCEPT ![k] = v] /\ worked' = [worked EXCEPT ![k] = w]  BY <1>1 DEF Called
  <2>2. CASE l = k  BY <1>1, <1>2, <1>4, <2>1, <2>2 DEF Fair
  <2>3. CASE l # k  BY <1>2, <1>4, <2>1, <2>3 DEF Working
  <2>4. QED  BY <2>2, <2>3
<1>5. \A b \in Agents : agent'[b].pc = "working" => ledger'[Loop!CurrentKey(b)'] = "running"
  BY <1>3
<1>6. \A b, c \in Agents : agent'[b].pc = "working" /\ agent'[c].pc = "working" /\ b # c =>
                             Loop!CurrentKey(b)' # Loop!CurrentKey(c)'
  BY <1>3 DEF Working
<1>7. QED  BY <1>4, <1>5, <1>6 DEF Working

LEMMA CalledOnce ==
  ASSUME Loop!ToolLoopAssumption, LoopTyped, WorkedOnce, NEW a \in Agents, agent[a].pc \in {"ready", "working"},
         NEW s, NEW v, NEW w, NEW end, Called(a, s, v, w, end), Fair(a, v, w, end)
  PROVE  WorkedOnce'
<1>1. PICK k \in Loop!ActionKeys : k = Loop!CurrentKey(a)  BY Currently
<1>2. /\ ledger \in [Loop!ActionKeys -> DOMAIN Loop!EndOf \cup {"none", "failed", "approved"}]
      /\ worked \in [Loop!ActionKeys -> Nat]
  BY DEF LoopTyped
<1>3. ledger' = [ledger EXCEPT ![k] = v] /\ worked' = [worked EXCEPT ![k] = w]  BY <1>1 DEF Called
<1>4. Straight(k) => v \in {"none", "running", "succeeded"} /\ w = IF v = "succeeded" THEN 1 ELSE 0
  BY <1>1 DEF Fair
<1>5. ASSUME NEW l \in Loop!ActionKeys, Straight(l)
      PROVE  /\ ledger'[l] \in {"none", "running", "succeeded"}
             /\ worked'[l] = IF ledger'[l] = "succeeded" THEN 1 ELSE 0
  <2>1. CASE l = k  BY <1>2, <1>3, <1>4, <1>5, <2>1
  <2>2. CASE l # k  BY <1>2, <1>3, <1>5, <2>2 DEF WorkedOnce
  <2>3. QED  BY <2>1, <2>2
<1>6. QED  BY <1>5 DEF WorkedOnce, Straight

LEMMA CalledMatch ==
  ASSUME Loop!ToolLoopAssumption, LoopTyped, Loop!MessagesMatch, NEW a \in Agents, agent[a].pc \in {"ready", "working"},
         NEW s, NEW v, NEW w, NEW end, Called(a, s, v, w, end), Fair(a, v, w, end)
  PROVE  Loop!MessagesMatch'
<1>1. PICK k \in Loop!ActionKeys : k = Loop!CurrentKey(a)  BY Currently
<1>2. /\ ledger \in [Loop!ActionKeys -> DOMAIN Loop!EndOf \cup {"none", "failed", "approved"}]
      /\ worked \in [Loop!ActionKeys -> Nat] /\ agent \in [Agents -> AgentStates]
  BY DEF LoopTyped
<1>3. ledger' = [ledger EXCEPT ![k] = v] /\ worked' = [worked EXCEPT ![k] = w] /\ w \in Nat /\ w >= worked[k]
  BY <1>1 DEF Called, Fair
<1>4. \A l \in Loop!ActionKeys : /\ worked[l] > 0 => worked'[l] > 0
                                 /\ ledger[l] = "denied" => ledger'[l] = "denied"
  <2>1. TAKE l \in Loop!ActionKeys
  <2>2. worked[l] \in Nat /\ worked[k] \in Nat  BY <1>2
  <2>3. CASE l = k
    <3>1. worked'[l] = w /\ ledger'[l] = v  BY <1>2, <1>3, <2>3
    <3>2. QED  BY <1>1, <1>3, <2>2, <2>3, <3>1 DEF Fair
  <2>4. CASE l # k  BY <1>2, <1>3, <2>4
  <2>5. QED  BY <2>3, <2>4
<1> DEFINE Matches(b, i, m) ==
      /\ m.id = Loop!CallsOf[b][i].callId
      /\ m.kind = "result" => worked'[Loop!KeysOf[b][i]] > 0
      /\ m.kind = "pending" => m.key = Loop!KeysOf[b][i]
      /\ m.kind = "denied" => ledger'[Loop!KeysOf[b][i]] = "denied"
      /\ m.kind = "threw" => SurfaceOf[b] \in Loop!Wrapped
<1>5. ASSUME NEW b \in Agents, NEW i \in DOMAIN agent[b].messages
      PROVE  Matches(b, i, agent[b].messages[i])
  <2>1. agent[b].messages \in Seq(Notes) /\ Len(agent[b].messages) <= Size(b) /\ Size(b) \in Nat
    BY <1>2, Batches DEF LoopTyped, AgentStates
  <2>2. i \in 1 .. Size(b)  BY <2>1
  <2>3. Loop!KeysOf[b][i] \in Loop!ActionKeys  BY <2>2, Batches
  <2>4. QED  BY <1>4, <2>3 DEF Loop!MessagesMatch
<1>6. ASSUME NEW b \in Agents, NEW i \in DOMAIN agent'[b].messages
      PROVE  Matches(b, i, agent'[b].messages[i])
  <2>1. CASE b # a
    <3>1. agent'[b] = agent[b]  BY <1>2, <2>1 DEF Called
    <3> HIDE DEF Matches
    <3>2. QED  BY <1>5, <1>6, <3>1
  <2>2. CASE b = a
    <3>1. agent'[a] = s  BY <1>2 DEF Called
    <3>2. s.messages # <<>>  BY <1>6, <2>2, <3>1
    <3>3. PICK m \in Notes : /\ s.messages = Append(agent[a].messages, m) /\ Fits(a, m, end)
                             /\ m.kind = "threw" => SurfaceOf[a] \in Loop!Wrapped
      BY <3>2 DEF Called, Spoke
    <3>4. agent[a].messages \in Seq(Notes) /\ Loop!Place(a) = Len(agent[a].messages) + 1
      BY Currently
    <3>5. CASE i \in DOMAIN agent[a].messages
      <4>1. s.messages[i] = agent[a].messages[i]  BY <3>3, <3>4, <3>5
      <4> HIDE DEF Matches
      <4>2. QED  BY <1>5, <2>2, <3>1, <3>5, <4>1
    <3>6. CASE i \notin DOMAIN agent[a].messages
      <4>1. i = Loop!Place(a) /\ s.messages[i] = m  BY <1>6, <2>2, <3>1, <3>3, <3>4, <3>6
      <4>2. Loop!Current(a) = Loop!CallsOf[a][i] /\ k = Loop!KeysOf[a][i]
        BY <1>1, <4>1, Currently
      <4>3. worked'[k] = w /\ ledger'[k] = v  BY <1>2, <1>3
      <4>4. (end = "result" => w > 0) /\ (end = "denied" => v = "denied")  BY <1>1 DEF Fair
      <4>5. Matches(a, i, m)
        BY <1>1, <3>3, <4>2, <4>3, <4>4 DEF Fits
      <4> HIDE DEF Matches
      <4>6. QED  BY <2>2, <3>1, <4>1, <4>5
    <3>7. QED  BY <3>5, <3>6
  <2>3. QED  BY <2>1, <2>2
<1>7. QED  BY <1>6 DEF Loop!MessagesMatch

(* What leaves messages as they are, or forgets them.                      *)
LEMMA MatchKept ==
  ASSUME Loop!ToolLoopAssumption, LoopTyped, Loop!MessagesMatch, UNCHANGED worked,
         \A b \in Agents : agent'[b].messages \in {<<>>, agent[b].messages},
         \A l \in Loop!ActionKeys : ledger[l] = "denied" => ledger'[l] = "denied"
  PROVE  Loop!MessagesMatch'
<1>1. ASSUME NEW b \in Agents, NEW i \in DOMAIN agent'[b].messages
      PROVE  LET m == agent'[b].messages[i]
             IN /\ m.id = Loop!CallsOf[b][i].callId
                /\ m.kind = "result" => worked'[Loop!KeysOf[b][i]] > 0
                /\ m.kind = "pending" => m.key = Loop!KeysOf[b][i]
                /\ m.kind = "denied" => ledger'[Loop!KeysOf[b][i]] = "denied"
                /\ m.kind = "threw" => SurfaceOf[b] \in Loop!Wrapped
  <2>1. agent'[b].messages = agent[b].messages  BY <1>1
  <2>2. agent[b].messages \in Seq(Notes) /\ Len(agent[b].messages) <= Size(b) /\ Size(b) \in Nat
    BY Batches DEF LoopTyped, AgentStates
  <2>3. i \in 1 .. Size(b)  BY <1>1, <2>1, <2>2
  <2>4. Loop!KeysOf[b][i] \in Loop!ActionKeys  BY <2>3, Batches
  <2>5. QED  BY <1>1, <2>1, <2>4 DEF Loop!MessagesMatch
<1>2. QED  BY <1>1 DEF Loop!MessagesMatch

LEMMA StartsKeeps ==
  ASSUME Loop!ToolLoopAssumption, LoopInv, NEW a \in Agents, Starts(a), UNCHANGED <<failures, rounds>>
  PROVE  LoopInv'
<1>1. LoopTyped /\ Working /\ WorkedOnce /\ Loop!MessagesMatch  BY DEF LoopInv
<1>2. PICK k \in Loop!ActionKeys : k = Loop!CurrentKey(a)  BY <1>1, Currently DEF Starts
<1>3. /\ ledger \in [Loop!ActionKeys -> DOMAIN Loop!EndOf \cup {"none", "failed", "approved"}]
      /\ worked \in [Loop!ActionKeys -> Nat] /\ agent \in [Agents -> AgentStates]
  BY <1>1 DEF LoopTyped
<1>4. /\ agent[a].pc = "ready" /\ ledger[k] \in {"none", "failed", "approved"} /\ UNCHANGED worked
      /\ ledger' = [ledger EXCEPT ![k] = "running"] /\ agent' = [agent EXCEPT ![a].pc = "working"]
  BY <1>2 DEF Starts
<1>5. \A b \in Agents : /\ agent'[b] \in AgentStates /\ agent'[b].messages = agent[b].messages
                        /\ b # a => agent'[b] = agent[b]
  <2>1. TAKE b \in Agents
  <2>2. CASE b = a  BY <1>3, <1>4, <2>2 DEF AgentStates
  <2>3. CASE b # a  BY <1>3, <1>4, <2>3
  <2>4. QED  BY <2>2, <2>3
<1>6. LoopTyped'
  <2>1. ledger' \in [Loop!ActionKeys -> DOMAIN Loop!EndOf \cup {"none", "failed", "approved"}]
    BY <1>3, <1>4, EndOfIs
  <2>2. agent' \in [Agents -> AgentStates]  BY <1>3, <1>4, <1>5
  <2>3. ASSUME NEW b \in Agents
        PROVE  /\ Len(agent'[b].messages) <= Size(b)
               /\ agent'[b].pc \in {"ready", "working"} => Len(agent'[b].messages) < Size(b)
    <3>1. agent'[b].pc \in {"ready", "working"} => agent[b].pc \in {"ready", "working"}
      BY <1>4, <1>5
    <3>2. QED  BY <1>1, <1>5, <3>1 DEF LoopTyped
  <2>4. QED  BY <1>1, <1>4, <2>1, <2>2, <2>3 DEF LoopTyped
<1>7. Working'
  <2>1. \A b \in Agents : Loop!CurrentKey(b)' = Loop!CurrentKey(b)  BY <1>5, SamePlace
  <2>2. ASSUME NEW b \in Agents, agent'[b].pc = "working", b # a
        PROVE  /\ agent[b].pc = "working" /\ Loop!CurrentKey(b) # k
               /\ ledger'[Loop!CurrentKey(b)] = "running"
    <3>1. agent[b].pc = "working" /\ ledger[Loop!CurrentKey(b)] = "running"
      BY <1>1, <1>5, <2>2 DEF Working
    <3>2. Loop!CurrentKey(b) \in Loop!ActionKeys  BY <1>1, <3>1, Currently
    <3>3. QED  BY <1>3, <1>4, <3>1, <3>2
  <2>3. ledger'[k] = "running"  BY <1>3, <1>4
  <2>4. \A b \in Agents : agent'[b].pc = "working" => ledger'[Loop!CurrentKey(b)'] = "running"
    BY <1>2, <2>1, <2>2, <2>3
  <2>5. \A b, c \in Agents : agent'[b].pc = "working" /\ agent'[c].pc = "working" /\ b # c =>
                               Loop!CurrentKey(b)' # Loop!CurrentKey(c)'
    BY <1>1, <1>2, <2>1, <2>2 DEF Working
  <2>6. \A l \in Loop!ActionKeys : ledger'[l] = "succeeded" => worked'[l] > 0
    BY <1>1, <1>3, <1>4 DEF Working
  <2>7. QED  BY <2>4, <2>5, <2>6 DEF Working
<1>8. WorkedOnce'
  BY <1>1, <1>3, <1>4 DEF WorkedOnce, Straight
<1>9. Loop!MessagesMatch'
  BY <1>1, <1>3, <1>4, <1>5, MatchKept
<1>10. QED  BY <1>6, <1>7, <1>8, <1>9 DEF LoopInv

LEMMA DecideKeeps ==
  ASSUME Loop!ToolLoopAssumption, LoopInv, NEW k \in DOMAIN ledger, Loop!Decide(k)
  PROVE  LoopInv'
<1>1. LoopTyped /\ Working /\ WorkedOnce /\ Loop!MessagesMatch  BY DEF LoopInv
<1>2. /\ ledger \in [Loop!ActionKeys -> DOMAIN Loop!EndOf \cup {"none", "failed", "approved"}]
      /\ worked \in [Loop!ActionKeys -> Nat] /\ k \in Loop!ActionKeys
  BY <1>1 DEF LoopTyped
<1>3. PICK decision \in {"approved", "rejected"} : ledger' = [ledger EXCEPT ![k] = decision]
  BY DEF Loop!Decide
<1>4. ledger[k] = "awaiting_approval" /\ UNCHANGED <<agent, failures, rounds, worked>>
  BY DEF Loop!Decide
<1>5. LoopTyped'
  <2>1. ledger' \in [Loop!ActionKeys -> DOMAIN Loop!EndOf \cup {"none", "failed", "approved"}]
    BY <1>2, <1>3, EndOfIs
  <2>2. QED  BY <1>1, <1>4, <2>1 DEF LoopTyped
<1>6. Working'
  <2>1. \A b \in Agents : Loop!CurrentKey(b)' = Loop!CurrentKey(b)  BY <1>4, SamePlace
  <2>2. ASSUME NEW b \in Agents, agent[b].pc = "working"
        PROVE  ledger'[Loop!CurrentKey(b)] = "running"
    <3>1. ledger[Loop!CurrentKey(b)] = "running" /\ Loop!CurrentKey(b) \in Loop!ActionKeys
      BY <1>1, <2>2, Currently DEF Working
    <3>2. QED  BY <1>2, <1>3, <1>4, <3>1
  <2>3. \A l \in Loop!ActionKeys : ledger'[l] = "succeeded" => worked'[l] > 0
    BY <1>1, <1>2, <1>3, <1>4 DEF Working
  <2>4. QED  BY <1>1, <1>4, <2>1, <2>2, <2>3 DEF Working
<1>7. WorkedOnce'
  BY <1>1, <1>2, <1>3, <1>4 DEF WorkedOnce, Straight
<1>8. Loop!MessagesMatch'
  <2>1. \A l \in Loop!ActionKeys : ledger[l] = "denied" => ledger'[l] = "denied"
    BY <1>2, <1>3, <1>4
  <2>2. QED  BY <1>1, <1>4, <2>1, MatchKept
<1>9. QED  BY <1>5, <1>6, <1>7, <1>8 DEF LoopInv

LEMMA AgainKeeps ==
  ASSUME Loop!ToolLoopAssumption, LoopInv, NEW a \in Agents, Loop!Again(a)
  PROVE  LoopInv'
<1>1. LoopTyped /\ Working /\ WorkedOnce /\ Loop!MessagesMatch  BY DEF LoopInv
<1>2. agent \in [Agents -> AgentStates]  BY <1>1 DEF LoopTyped
<1>3. PICK s : s = Loop!Fresh  OBVIOUS
<1>4. s \in AgentStates /\ s.pc = "ready" /\ s.messages = <<>> /\ Len(s.messages) = 0
  BY <1>3 DEF Loop!Fresh, AgentStates
<1>5. /\ agent' = [agent EXCEPT ![a] = s] /\ UNCHANGED <<ledger, failures, worked>>
      /\ rounds < MaxRounds /\ rounds' = rounds + 1
  BY <1>3 DEF Loop!Again
<1>6. \A b \in Agents : /\ b = a => agent'[b] = s
                        /\ b # a => agent'[b] = agent[b]
  BY <1>2, <1>5
<1>7. LoopTyped'
  <2>1. agent' \in [Agents -> AgentStates]  BY <1>2, <1>4, <1>5
  <2>2. ASSUME NEW b \in Agents
        PROVE  /\ Len(agent'[b].messages) <= Size(b)
               /\ agent'[b].pc \in {"ready", "working"} => Len(agent'[b].messages) < Size(b)
    <3>1. Size(b) \in Nat \ {0}  BY Batches
    <3>2. CASE b = a  BY <1>4, <1>6, <3>1, <3>2
    <3>3. CASE b # a  BY <1>1, <1>6, <3>3 DEF LoopTyped
    <3>4. QED  BY <3>2, <3>3
  <2>3. rounds' \in 0 .. MaxRounds  BY <1>1, <1>5 DEF LoopTyped, Loop!ToolLoopAssumption
  <2>4. QED  BY <1>1, <1>5, <2>1, <2>2, <2>3 DEF LoopTyped
<1>8. Working'
  <2>1. \A b \in Agents : agent'[b].pc = "working" => /\ b # a /\ agent[b].pc = "working"
                                                      /\ Loop!CurrentKey(b)' = Loop!CurrentKey(b)
    BY <1>4, <1>6, SamePlace
  <2>2. QED  BY <1>1, <1>5, <2>1 DEF Working
<1>9. WorkedOnce'
  BY <1>1, <1>5 DEF WorkedOnce, Straight
<1>10. Loop!MessagesMatch'
  BY <1>1, <1>4, <1>5, <1>6, MatchKept
<1>11. QED  BY <1>7, <1>8, <1>9, <1>10 DEF LoopInv

LEMMA LoopStep ==
  ASSUME Loop!ToolLoopAssumption, LoopInv, [Loop!Next]_(Loop!loopVars)
  PROVE  LoopInv'
<1>1. LoopTyped /\ Working /\ WorkedOnce /\ Loop!MessagesMatch  BY DEF LoopInv
<1>2. rounds \in 0 .. MaxRounds /\ failures \in 0 .. MaxFailures  BY <1>1 DEF LoopTyped
<1>3. ASSUME NEW a \in Agents, agent[a].pc \in {"ready", "working"},
             failures' \in 0 .. MaxFailures, rounds' \in 0 .. MaxRounds,
             \E s, v, w : \E end \in Ends : Called(a, s, v, w, end) /\ Fair(a, v, w, end)
      PROVE  LoopInv'
  <2>1. PICK s, v, w, end : Called(a, s, v, w, end) /\ Fair(a, v, w, end)  BY <1>3
  <2>2. QED  BY <1>1, <1>3, <2>1, CalledTyped, CalledWorking, CalledOnce, CalledMatch DEF LoopInv
<1>4. ASSUME NEW a \in Agents, Loop!Begin(a)
      PROVE  LoopInv'
  <2>1. agent[a].pc = "ready" /\ UNCHANGED <<failures, rounds>>  BY <1>4 DEF Loop!Begin, Loop!At
  <2>2. CASE Starts(a)  BY <2>1, <2>2, StartsKeeps
  <2>3. CASE ~ Starts(a)  BY <1>2, <1>3, <1>4, <2>1, <2>3, BeginDoes
  <2>4. QED  BY <2>2, <2>3
<1>5. ASSUME NEW a \in Agents, Loop!Work(a)
      PROVE  LoopInv'
  <2>1. agent[a].pc = "working" /\ UNCHANGED <<failures, rounds>>  BY <1>5 DEF Loop!Work, Loop!At
  <2>2. QED  BY <1>2, <1>3, <1>5, <2>1, LoopWorkDoes
<1>6. ASSUME NEW a \in Agents, Loop!WorkThrows(a)
      PROVE  LoopInv'
  <2>1. agent[a].pc = "working"  BY <1>6 DEF Loop!WorkThrows, Loop!At
  <2>2. QED  BY <1>2, <1>3, <1>6, <2>1, ThrowDoes
<1>7. CASE UNCHANGED Loop!loopVars
  <2>1. UNCHANGED <<ledger, agent, failures, rounds, worked>>  BY <1>7 DEF Loop!loopVars
  <2>2. LoopTyped' /\ WorkedOnce'  BY <1>1, <2>1 DEF LoopTyped, WorkedOnce, Straight
  <2>3. \A b \in Agents : Loop!CurrentKey(b)' = Loop!CurrentKey(b)  BY <2>1, SamePlace
  <2>4. Working'  BY <1>1, <2>1, <2>3 DEF Working
  <2>5. Loop!MessagesMatch'  BY <1>1, <2>1, MatchKept
  <2>6. QED  BY <2>2, <2>4, <2>5 DEF LoopInv
<1>8. QED  BY <1>4, <1>5, <1>6, <1>7, AgainKeeps, DecideKeeps DEF Loop!Next

LEMMA LoopStart ==
  ASSUME Loop!ToolLoopAssumption, Loop!Init
  PROVE  LoopInv
<1>1. PICK s : s = Loop!Fresh  OBVIOUS
<1>2. s \in AgentStates /\ s.pc = "ready" /\ s.messages = <<>> /\ Len(s.messages) = 0
  BY <1>1 DEF Loop!Fresh, AgentStates
<1>3. /\ ledger = [l \in Loop!ActionKeys |-> "none"] /\ agent = [a \in Agents |-> s]
      /\ failures = 0 /\ rounds = 0 /\ worked = [l \in Loop!ActionKeys |-> 0]
  BY <1>1 DEF Loop!Init
<1>4. LoopTyped
  <2>1. /\ ledger \in [Loop!ActionKeys -> DOMAIN Loop!EndOf \cup {"none", "failed", "approved"}]
        /\ worked \in [Loop!ActionKeys -> Nat] /\ agent \in [Agents -> AgentStates]
    BY <1>2, <1>3
  <2>2. failures \in 0 .. MaxFailures /\ rounds \in 0 .. MaxRounds
    BY <1>3 DEF Loop!ToolLoopAssumption
  <2>3. \A a \in Agents : Size(a) \in Nat \ {0} /\ Len(agent[a].messages) = 0
    BY <1>2, <1>3, Batches
  <2>4. QED  BY <2>1, <2>2, <2>3 DEF LoopTyped
<1>5. Working /\ WorkedOnce  BY <1>2, <1>3 DEF Working, WorkedOnce
<1>6. Loop!MessagesMatch  BY <1>2, <1>3 DEF Loop!MessagesMatch
<1>7. QED  BY <1>4, <1>5, <1>6 DEF LoopInv

(* Calls that ask for the same are the same action, in whichever shape and *)
(* over whichever surface they are made.                                   *)
LEMMA SameAsksSameKey ==
  ASSUME Loop!ToolLoopAssumption, NEW a \in Agents, NEW i \in DOMAIN Loop!CallsOf[a],
         NEW b \in Agents, NEW j \in DOMAIN Loop!CallsOf[b], Loop!Asks(b, j) = Loop!Asks(a, i)
  PROVE  Loop!KeysOf[b][j] = Loop!KeysOf[a][i]
<1>1. ASSUME NEW c \in Agents, NEW n \in DOMAIN Loop!CallsOf[c]
      PROVE  Loop!KeysOf[c][n] = Loop!Key(c, Loop!CallsOf[c][n])
  <2>1. n \in 1 .. Size(c)  BY Batches
  <2>2. Loop!KeysOf[c] = [l \in 1 .. Size(c) |-> Loop!Key(c, Loop!CallsOf[c][l])]  BY Batches
  <2>3. QED  BY <2>1, <2>2
<1>2. /\ Loop!KeysOf[a][i] = Loop!Key(a, Loop!CallsOf[a][i])
      /\ Loop!KeysOf[b][j] = Loop!Key(b, Loop!CallsOf[b][j])
  BY <1>1
<1>3. QED  BY <1>2 DEF Loop!Asks, Loop!Key, Loop!Canonicalize, Loop!ParseArgs

LEMMA LoopImplies ==
  ASSUME Loop!ToolLoopAssumption, LoopInv
  PROVE  BatchesSafe
<1>1. LoopTyped /\ WorkedOnce /\ Loop!MessagesMatch  BY DEF LoopInv
<1>2. ledger \in [Loop!ActionKeys -> DOMAIN Loop!EndOf \cup {"none", "failed", "approved"}]
      /\ worked \in [Loop!ActionKeys -> Nat]
  BY <1>1 DEF LoopTyped
<1>3. Loop!TypeOK
  <2>1. \A a \in Agents : Len(agent[a].messages) <= Len(Loop!CallsOf[a])
    BY <1>1, Batches DEF LoopTyped
  <2>2. DOMAIN ledger = Loop!ActionKeys /\ DOMAIN worked = Loop!ActionKeys  BY <1>2
  <2>3. QED  BY <1>1, <1>2, <2>1, <2>2 DEF Loop!TypeOK, LoopTyped
<1>4. Loop!OnceHoweverCalled
  <2>1. ASSUME NEW k \in Loop!ActionKeys, worked[k] > 0, Straight(k)
        PROVE  worked[k] = 1
    BY <1>1, <1>2, <2>1 DEF WorkedOnce
  <2>2. QED  BY <1>2, <2>1, SameAsksSameKey DEF Loop!OnceHoweverCalled, Straight
<1>5. QED  BY <1>1, <1>3, <1>4 DEF BatchesSafe, Loop!BatchesSafe

(* However many agents call however many tools: each message answers its   *)
(* own call, and what needs no approval and does not throw is done once    *)
(* for all calls that ask for the same.                                    *)
THEOREM BatchesHold ==
  ASSUME Loop!ToolLoopAssumption
  PROVE  Loop!Spec => []BatchesSafe
<1>1. Loop!Init => LoopInv  BY LoopStart
<1>2. LoopInv /\ [Loop!Next]_(Loop!loopVars) => LoopInv'  BY LoopStep
<1>3. LoopInv => BatchesSafe  BY LoopImplies
<1>4. QED  BY <1>1, <1>2, <1>3, PTL DEF Loop!Spec

-----------------------------------------------------------------------------
(* VercelAdapter.  What records and calls are.                             *)
Limit == Adapter!Attempts
Entries(n) == [status : Adapter!Statuses, attempts : 0 .. n, approval : Adapter!Ids \cup {None}]
Invoked(n) ==
  [pc : {"idle", "gate", "wait", "budget", "attempt", "fn", "persist", "put"}, key : ToolKeys \cup {None},
   prior : Entries(n), attempt : 0 .. n, waits : Adapter!Ids \cup {None}, patch : Entries(n),
   then : {"idle", "wait", "fn"}]

(* A call on its way to record something: how it ended, or not yet.        *)
Recording(r) == r.pc \in {"persist", "put"}
Ending(r) == Recording(r) /\ r.then = "idle"
Active(r) == r.pc # "idle" /\ ~Ending(r)
Parked(r) == r.pc = "wait" \/ (Recording(r) /\ r.then = "wait")
Orderly(r, n) ==
  /\ IF r.pc = "idle" THEN r = Adapter!Idle ELSE r.key \in ToolKeys
  /\ r.pc \in {"gate", "budget"} \/ Parked(r) => r.attempt = 0
  /\ r.pc = "attempt" => r.attempt < n
  /\ Parked(r) => r.waits \in Adapter!Ids
  /\ Recording(r) /\ r.then = "wait" => r.patch.status = "awaiting_approval"
  /\ Recording(r) => (r.patch.status = "running" <=> r.then = "fn")

AdapterTyped ==
  /\ setup \in Setups /\ action \in [ToolKeys -> Entries(Limit)]
  /\ approval \in [Adapter!Ids -> {"none", "pending", "approved", "rejected"}]
  /\ call \in [Calls -> Invoked(Limit)] /\ \A c \in Calls : Orderly(call[c], Limit)
  /\ strays \in [ToolKeys -> Nat] /\ toolEffects \in [ToolKeys -> Nat] /\ excuses \in [ToolKeys -> Nat]

(* Work of a key that was done, that was given up and that may yet be done *)
(* by its calls; when nothing is left over, its success is on record or    *)
(* about to be.                                                            *)
Doing(k) == {c \in Adapter!Busy(k) : Active(call[c])}
Excused(k) ==
  LET n == toolEffects[k] + strays[k] + Cardinality(Doing(k))
  IN /\ n <= 1 + excuses[k]
     /\ n = 1 + excuses[k] =>
          /\ \A c \in Adapter!Busy(k) : Active(call[c]) \/ call[c].patch.status = "succeeded"
          /\ Adapter!Busy(k) = {} => action[k].status = "succeeded"

(* Keys that have succeeded, and those of calls that the budget let past.  *)
Past(r) ==
  \/ r.pc \in {"attempt", "fn"}
  \/ Recording(r) /\ (r.then = "fn" \/ r.patch.status = "succeeded")
Bought == Adapter!Succeeded \cup {call[c].key : c \in {d \in Calls : Past(call[d])}}
Afforded ==
  /\ Cardinality(Bought) <= Adapter!BudgetCalls + Adapter!Others
  /\ SumFunctionOnSet(Adapter!Cost, Bought) <= Adapter!BudgetCents + Adapter!Others * Adapter!Dearest

AdapterInv == AdapterTyped /\ (\A k \in ToolKeys : Excused(k)) /\ Afforded

LEMMA AdapterSum == \A f, S : Adapter!SumFunctionOnSet(f, S) = SumFunctionOnSet(f, S)
BY DEF Adapter!SumFunctionOnSet, SumFunctionOnSet, Adapter!FoldFunctionOnSet, FoldFunctionOnSet,
       Adapter!MapThenFoldSet, MapThenFoldSet

LEMMA AdapterMax == \A S : Adapter!Max(S) = Max(S)
BY DEF Adapter!Max, Max

LEMMA AdapterFinite ==
  \A S : Adapter!Cardinality(S) = Cardinality(S) /\ (Adapter!IsFiniteSet(S) <=> IsFiniteSet(S))
BY DEF Adapter!Cardinality, Cardinality, Adapter!IsFiniteSet, IsFiniteSet

(* What the setup promises.                                                *)
LEMMA SetupGiven ==
  ASSUME Adapter!VercelAssumption, setup \in Setups
  PROVE  /\ IsFiniteSet(Calls) /\ Calls # {} /\ IsFiniteSet(ToolKeys) /\ ToolKeys # {} /\ None \notin ToolKeys
         /\ Adapter!Cost \in [ToolKeys -> Nat] /\ Adapter!BudgetCalls \in Nat /\ Adapter!BudgetCents \in Nat
         /\ Limit \in Nat \ {0}
<1>1. /\ setup.cost \in [ToolKeys -> Nat] /\ {setup.maxCalls, setup.maxCents} \subseteq Nat
      /\ setup.attempts \in Nat \ {0}
  BY DEF Adapter!VercelAssumption
<1>2. QED
  BY <1>1, AdapterFinite
  DEF Adapter!VercelAssumption, Adapter!Cost, Adapter!BudgetCalls, Adapter!BudgetCents, Limit, Adapter!Attempts

LEMMA EntriesMade ==
  ASSUME NEW n \in Nat, NEW v \in Adapter!Statuses
  PROVE  /\ Adapter!NoRecord \in Entries(n) /\ Adapter!Marked(v) \in Entries(n) /\ Adapter!Marked(v).status = v
         /\ \A i \in 0 .. n : Adapter!Tried(v, i) \in Entries(n) /\ Adapter!Tried(v, i).status = v
         /\ \A id \in Adapter!Ids : LET e == [Adapter!Marked(v) EXCEPT !.approval = id]
                                    IN e \in Entries(n) /\ e.status = v
         /\ \A p, q \in Entries(n) : Adapter!Patched(p, q) \in Entries(n) /\ Adapter!Patched(p, q).status = q.status
<1>1. Adapter!NoRecord = [status |-> "none", attempts |-> 0, approval |-> None] /\ Adapter!NoRecord \in Entries(n)
  BY DEF Adapter!NoRecord, Entries, Adapter!Statuses
<1>2. /\ Adapter!Marked(v) = [status |-> v, attempts |-> 0, approval |-> None]
      /\ Adapter!Marked(v) \in Entries(n) /\ Adapter!Marked(v).status = v
  BY <1>1 DEF Adapter!Marked, Entries
<1>3. \A i \in 0 .. n : Adapter!Tried(v, i) \in Entries(n) /\ Adapter!Tried(v, i).status = v
  BY <1>2 DEF Adapter!Tried, Entries
<1>4. \A id \in Adapter!Ids : LET e == [Adapter!Marked(v) EXCEPT !.approval = id]
                              IN e \in Entries(n) /\ e.status = v
  BY <1>2 DEF Entries
<1>5. \A p, q \in Entries(n) : Adapter!Patched(p, q) \in Entries(n) /\ Adapter!Patched(p, q).status = q.status
  BY DEF Adapter!Patched, Entries
<1>6. QED  BY <1>1, <1>2, <1>3, <1>4, <1>5

(* One call changes.                                                       *)
Becomes(c, s) == call' = [d \in Calls |-> IF d = c THEN s ELSE call[d]]

ReadAs(r, p) == [r EXCEPT !.pc = "put", !.prior = p]
SetsOut(r, p, t) == [r EXCEPT !.pc = "persist", !.patch = p, !.then = t]

LEMMA GoesTo ==
  ASSUME AdapterTyped, NEW c \in Calls
  PROVE  /\ \A pc : Adapter!Goto(c, pc) => Becomes(c, [call[c] EXCEPT !.pc = pc])
         /\ Adapter!Return(c) => Becomes(c, Adapter!Idle)
         /\ \A p, t : Adapter!Persist(c, p, t) => Becomes(c, SetsOut(call[c], p, t))
<1>1. call \in [Calls -> Invoked(Limit)]  BY DEF AdapterTyped
<1>2. ASSUME NEW pc, Adapter!Goto(c, pc) PROVE Becomes(c, [call[c] EXCEPT !.pc = pc])
  BY <1>1, <1>2 DEF Adapter!Goto, Becomes
<1>3. ASSUME Adapter!Return(c) PROVE Becomes(c, Adapter!Idle)
  BY <1>1, <1>3 DEF Adapter!Return, Becomes
<1>4. ASSUME NEW p, NEW t, Adapter!Persist(c, p, t)
      PROVE  Becomes(c, SetsOut(call[c], p, t))
  BY <1>1, <1>4 DEF Adapter!Persist, Becomes, SetsOut
<1>5. QED  BY <1>2, <1>3, <1>4

(* Where a call may go from where it is.                                   *)
Lawful(s) == s \in Invoked(Limit) /\ Orderly(s, Limit)
LEMMA LawfulCall ==
  ASSUME Adapter!VercelAssumption, AdapterTyped, NEW r, Lawful(r), r.pc # "idle"
  PROVE  Limit \in Nat \ {0} /\ r \in Invoked(Limit) /\ Orderly(r, Limit) /\ r.key \in ToolKeys
BY SetupGiven DEF AdapterTyped, Lawful, Orderly

LEMMA LawfulIdle ==
  ASSUME Adapter!VercelAssumption, AdapterTyped
  PROVE  Lawful(Adapter!Idle) /\ Adapter!Idle.pc = "idle" /\ ~Past(Adapter!Idle)
<1>1. Limit \in Nat \ {0}  BY SetupGiven DEF AdapterTyped
<1>2. Adapter!NoRecord \in Entries(Limit)  BY <1>1, EntriesMade DEF Adapter!Statuses
<1> HIDE DEF Limit
<1>3. Adapter!Idle \in Invoked(Limit) /\ Adapter!Idle.pc = "idle"
  BY <1>1, <1>2 DEF Adapter!Idle, Invoked
<1>4. QED  BY <1>3 DEF Lawful, Orderly, Parked, Recording, Past

LEMMA LawfulGo ==
  ASSUME Adapter!VercelAssumption, AdapterTyped, NEW r, Lawful(r), r.pc # "idle",
         NEW pc \in {"budget", "wait", "attempt", "fn"}, pc = "budget" => Parked(r) \/ r.pc = "gate",
         pc = "wait" => Parked(r), pc = "attempt" => r.attempt < Limit,
         NEW s, s = [r EXCEPT !.pc = pc]
  PROVE  Lawful(s) /\ s.pc = pc /\ s.key = r.key
<1>1. r \in Invoked(Limit) /\ Orderly(r, Limit) /\ r.key \in ToolKeys  BY LawfulCall
<1>2. /\ s \in Invoked(Limit) /\ s.pc = pc /\ s.key = r.key /\ s.attempt = r.attempt
      /\ s.waits = r.waits /\ s.then = r.then
  BY <1>1 DEF Invoked
<1>3. Orderly(s, Limit)  BY <1>1, <1>2 DEF Orderly, Parked, Recording
<1>4. QED  BY <1>2, <1>3 DEF Lawful

LEMMA LawfulPut ==
  ASSUME Adapter!VercelAssumption, AdapterTyped, NEW r, Lawful(r), r.pc = "persist", NEW p \in Entries(Limit),
         NEW s, s = ReadAs(r, p)
  PROVE  Lawful(s) /\ s.pc = "put" /\ s.key = r.key /\ s.patch = r.patch /\ s.then = r.then
<1>1. r \in Invoked(Limit) /\ Orderly(r, Limit) /\ r.key \in ToolKeys  BY LawfulCall
<1>2. /\ s \in Invoked(Limit) /\ s.pc = "put" /\ s.key = r.key /\ s.attempt = r.attempt
      /\ s.waits = r.waits /\ s.then = r.then /\ s.patch = r.patch
  BY <1>1 DEF Invoked, ReadAs
<1>3. Orderly(s, Limit)  BY <1>1, <1>2 DEF Orderly, Parked, Recording
<1>4. QED  BY <1>2, <1>3 DEF Lawful

LEMMA LawfulPersist ==
  ASSUME Adapter!VercelAssumption, AdapterTyped, NEW r, Lawful(r), r.pc # "idle", NEW p \in Entries(Limit),
         NEW t \in {"idle", "fn"}, p.status = "running" <=> t = "fn", NEW s, s = SetsOut(r, p, t)
  PROVE  Lawful(s) /\ s.pc = "persist" /\ s.key = r.key /\ s.patch = p /\ s.then = t
<1>1. r \in Invoked(Limit) /\ Orderly(r, Limit) /\ r.key \in ToolKeys  BY LawfulCall
<1>2. s \in Invoked(Limit) /\ s.pc = "persist" /\ s.key = r.key /\ s.then = t /\ s.patch = p
  BY <1>1 DEF Invoked, SetsOut
<1>3. Orderly(s, Limit)  BY <1>1, <1>2 DEF Orderly, Parked, Recording
<1>4. QED  BY <1>2, <1>3 DEF Lawful

(* What a step of a call does.                                             *)
Quiet(r, s) ==
  /\ UNCHANGED <<action, strays, toolEffects, excuses>>
  /\ \/ Active(r) /\ (s.pc = "idle" \/ Active(s) \/ Ending(s))
     \/ Ending(r) /\ Ending(s) /\ s.patch = r.patch
Records(r, s) ==
  /\ \E e \in Entries(Limit) : /\ action' = [action EXCEPT ![r.key] = e] /\ e.status = r.patch.status
                               /\ e.status = "succeeded" => Past(r)
  /\ (Ending(r) /\ s.pc = "idle") \/ (Active(r) /\ Active(s))
  /\ UNCHANGED <<strays, toolEffects, excuses>>
Works(r, s) ==
  /\ toolEffects' = [toolEffects EXCEPT ![r.key] = @ + 1]
  /\ Active(r) /\ Ending(s) /\ s.patch.status = "succeeded"
  /\ UNCHANGED <<action, strays, excuses>>
Stands(s) == s.pc = "idle" \/ Active(s) \/ Ending(s)
GivesUp(r, s) ==
  /\ strays' = [strays EXCEPT ![r.key] = @ + 1] /\ excuses' = [excuses EXCEPT ![r.key] = @ + 1]
  /\ Active(r) /\ Stands(s)
  /\ UNCHANGED <<action, toolEffects>>
MayRecord(r) ==
  \/ UNCHANGED action
  \/ \E e \in Entries(Limit) : /\ action' = [action EXCEPT ![r.key] = e]
                               /\ e.status = "succeeded" => Past(r)
Fails(r, s) ==
  /\ MayRecord(r) /\ Stands(s)
  /\ \/ UNCHANGED excuses /\ (Active(r) \/ (Ending(r) /\ r.patch.status # "succeeded" /\ s.pc = "idle"))
     \/ Ending(r) /\ excuses' = [excuses EXCEPT ![r.key] = @ + 1]
  /\ UNCHANGED <<strays, toolEffects>>
CallMoves(c, s) ==
  /\ Becomes(c, s) /\ Lawful(s) /\ call[c].pc # "idle" /\ (s.pc # "idle" => s.key = call[c].key)
  /\ approval' \in [Adapter!Ids -> {"none", "pending", "approved", "rejected"}]
  /\ \/ Quiet(call[c], s) \/ Records(call[c], s) \/ Works(call[c], s)
     \/ GivesUp(call[c], s) \/ Fails(call[c], s)
  /\ Past(s) => \/ Past(call[c])
                \/ call[c].pc = "budget" /\ Adapter!WithinBudget(call[c].key) /\ UNCHANGED action

LEMMA OneCall ==
  ASSUME Adapter!VercelAssumption, AdapterTyped, NEW c \in Calls
  PROVE  /\ Lawful(call[c]) /\ Limit \in Nat /\ action \in [ToolKeys -> Entries(Limit)]
         /\ approval \in [Adapter!Ids -> {"none", "pending", "approved", "rejected"}]
         /\ call[c].pc # "idle" => call[c].key \in ToolKeys /\ action[call[c].key] \in Entries(Limit)
<1>1. call[c] \in Invoked(Limit) /\ Orderly(call[c], Limit)  BY DEF AdapterTyped
<1>2. Limit \in Nat  BY SetupGiven DEF AdapterTyped
<1>3. action \in [ToolKeys -> Entries(Limit)]  BY DEF AdapterTyped
<1>4. call[c].pc # "idle" => call[c].key \in ToolKeys  BY <1>1 DEF Orderly
<1>5. QED  BY <1>1, <1>2, <1>3, <1>4 DEF Lawful, AdapterTyped

LEMMA ReadBackDoes ==
  ASSUME Adapter!VercelAssumption, AdapterTyped, NEW c \in Calls, Adapter!ReadBack(c)
  PROVE  \E s : CallMoves(c, s)
<1>1. PICK r : r = call[c]  OBVIOUS
<1>2. r.pc = "persist" /\ UNCHANGED <<action, approval, strays, toolEffects, excuses>>
  BY <1>1 DEF Adapter!ReadBack, Adapter!At
<1>3. Lawful(r) /\ action[r.key] \in Entries(Limit)  BY <1>1, <1>2, OneCall
<1>4. PICK s : s = ReadAs(r, action[r.key])  OBVIOUS
<1>5. Becomes(c, s)
  <2>1. call \in [Calls -> Invoked(Limit)]  BY DEF AdapterTyped
  <2>2. QED  BY <1>1, <1>4, <2>1 DEF Adapter!ReadBack, Becomes, ReadAs
<1>6. Lawful(s) /\ s.pc = "put" /\ s.key = r.key /\ s.patch = r.patch /\ s.then = r.then
  BY <1>2, <1>3, <1>4, LawfulPut
<1>7. Quiet(r, s) /\ (Past(s) => Past(r))
  BY <1>2, <1>6 DEF Quiet, Active, Ending, Recording, Past
<1>8. QED  BY <1>1, <1>2, <1>5, <1>6, <1>7, OneCall DEF CallMoves

LEMMA PutDoes ==
  ASSUME Adapter!VercelAssumption, AdapterTyped, NEW c \in Calls, Adapter!Put(c)
  PROVE  \E s : CallMoves(c, s)
<1>1. PICK r : r = call[c]  OBVIOUS
<1>2. /\ r.pc = "put" /\ UNCHANGED <<approval, strays, toolEffects, excuses>>
      /\ action' = [action EXCEPT ![r.key] = Adapter!Patched(r.prior, r.patch)]
  BY <1>1 DEF Adapter!Put, Adapter!At
<1>3. Lawful(r) /\ Limit \in Nat  BY <1>1, OneCall
<1>4. r.prior \in Entries(Limit) /\ r.patch \in Entries(Limit) /\ r.then \in {"idle", "wait", "fn"}
  BY <1>3 DEF Lawful, Invoked
<1>5. PICK e : e = Adapter!Patched(r.prior, r.patch)  OBVIOUS
<1>6. e \in Entries(Limit) /\ e.status = r.patch.status
  <2>1. "none" \in Adapter!Statuses  BY DEF Adapter!Statuses
  <2>2. QED  BY <1>3, <1>4, <1>5, <2>1, EntriesMade
<1>7. action' = [action EXCEPT ![r.key] = e] /\ (e.status = "succeeded" => Past(r))
  BY <1>2, <1>3, <1>4, <1>5, <1>6 DEF Past, Recording, Lawful, Orderly
<1>8. CASE r.then = "idle"
  <2>1. Becomes(c, Adapter!Idle)  BY <1>1, <1>8, GoesTo DEF Adapter!Put
  <2>2. Lawful(Adapter!Idle)  BY LawfulIdle
  <2>3. Adapter!Idle.pc = "idle"  BY LawfulIdle
  <2>4. Records(r, Adapter!Idle) /\ ~Past(Adapter!Idle)
    BY <1>2, <1>6, <1>7, <1>8, <2>3 DEF Records, Ending, Recording, Past
  <2>5. QED  BY <1>1, <1>2, <2>1, <2>2, <2>3, <2>4, OneCall DEF CallMoves
<1>9. CASE r.then \in {"wait", "fn"}
  <2>1. PICK s : s = [r EXCEPT !.pc = r.then]  OBVIOUS
  <2>2. Becomes(c, s)  BY <1>1, <1>9, <2>1, GoesTo DEF Adapter!Put
  <2>3. Lawful(s) /\ s.pc = r.then /\ s.key = r.key
    <3>1. r.then = "wait" => Parked(r)  BY <1>2 DEF Parked, Recording
    <3>2. CASE r.then = "wait"  BY <1>2, <1>3, <2>1, <3>1, <3>2, LawfulGo
    <3>3. CASE r.then = "fn"  BY <1>2, <1>3, <2>1, <3>3, LawfulGo
    <3>4. QED  BY <1>9, <3>2, <3>3
  <2>4. Records(r, s) /\ (Past(s) => Past(r))
    BY <1>2, <1>6, <1>7, <1>9, <2>3 DEF Records, Active, Ending, Recording, Past
  <2>5. QED  BY <1>1, <1>2, <2>2, <2>3, <2>4, OneCall DEF CallMoves
<1>10. QED  BY <1>4, <1>8, <1>9

(* A step that records nothing and does no work.                           *)
LEMMA QuietStep ==
  ASSUME Adapter!VercelAssumption, AdapterTyped, NEW c \in Calls, NEW r, r = call[c], Active(r),
         NEW s, Becomes(c, s), Lawful(s), s.pc = "idle" \/ s.key = r.key, s.pc = "idle" \/ Active(s) \/ Ending(s),
         approval' \in [Adapter!Ids -> {"none", "pending", "approved", "rejected"}],
         UNCHANGED <<action, strays, toolEffects, excuses>>,
         Past(s) => Past(r) \/ (r.pc = "budget" /\ Adapter!WithinBudget(r.key))
  PROVE  CallMoves(c, s)
<1>1. Quiet(r, s) /\ r.pc # "idle"  BY DEF Quiet, Active
<1>2. QED  BY <1>1 DEF CallMoves

LEMMA IdleStep ==
  ASSUME Adapter!VercelAssumption, AdapterTyped, NEW c \in Calls, Active(call[c]), Adapter!Return(c),
         UNCHANGED <<action, approval, strays, toolEffects, excuses>>
  PROVE  \E s : CallMoves(c, s)
<1>1. PICK r : r = call[c]  OBVIOUS
<1>2. Becomes(c, Adapter!Idle)  BY GoesTo
<1>3. approval' \in [Adapter!Ids -> {"none", "pending", "approved", "rejected"}]  BY OneCall
<1>4. QED  BY <1>1, <1>2, <1>3, LawfulIdle, QuietStep

LEMMA PersistStep ==
  ASSUME Adapter!VercelAssumption, AdapterTyped, NEW c \in Calls, Active(call[c]), NEW p \in Entries(Limit),
         p.status \notin {"succeeded", "running"}, Adapter!Persist(c, p, "idle"),
         UNCHANGED <<action, approval, strays, toolEffects, excuses>>
  PROVE  \E s : CallMoves(c, s)
<1>1. PICK r : r = call[c]  OBVIOUS
<1>2. PICK s : s = SetsOut(r, p, "idle")  OBVIOUS
<1>3. Becomes(c, s)  BY <1>1, <1>2, GoesTo
<1>4. Lawful(r) /\ r.pc # "idle"  BY <1>1, OneCall DEF Active
<1>5. Lawful(s) /\ s.pc = "persist" /\ s.key = r.key /\ s.patch = p /\ s.then = "idle"
  BY <1>2, <1>4, LawfulPersist
<1>6. Ending(s) /\ ~Past(s)  BY <1>5 DEF Ending, Past, Recording
<1>7. approval' \in [Adapter!Ids -> {"none", "pending", "approved", "rejected"}]  BY OneCall
<1>8. QED  BY <1>1, <1>3, <1>5, <1>6, <1>7, QuietStep

LEMMA DecidedStep ==
  ASSUME Adapter!VercelAssumption, AdapterTyped, NEW c \in Calls, call[c].pc \in {"gate", "wait"},
         NEW decision, Adapter!Decided(c, decision),
         UNCHANGED <<action, approval, strays, toolEffects, excuses>>
  PROVE  \E s : CallMoves(c, s)
<1>1. PICK r : r = call[c]  OBVIOUS
<1>2. Lawful(r) /\ Active(r) /\ r.pc # "idle" /\ (Parked(r) \/ r.pc = "gate")
  BY <1>1, OneCall DEF Active, Ending, Recording, Parked
<1>3. CASE decision = "approved"
  <2>1. PICK s : s = [r EXCEPT !.pc = "budget"]  OBVIOUS
  <2>2. Becomes(c, s)  BY <1>1, <1>3, <2>1, GoesTo DEF Adapter!Decided
  <2>3. Lawful(s) /\ s.pc = "budget" /\ s.key = r.key  BY <1>2, <2>1, LawfulGo
  <2>4. Active(s) /\ ~Past(s)  BY <2>3 DEF Active, Ending, Recording, Past
  <2>5. approval' \in [Adapter!Ids -> {"none", "pending", "approved", "rejected"}]  BY OneCall
  <2>6. QED  BY <1>1, <1>2, <2>2, <2>3, <2>4, <2>5, QuietStep
<1>4. CASE decision # "approved"
  <2>1. PICK p : p = Adapter!Marked("rejected")  OBVIOUS
  <2>2. p \in Entries(Limit) /\ p.status = "rejected"
    BY <2>1, OneCall, EntriesMade DEF Adapter!Statuses
  <2>3. Adapter!Persist(c, p, "idle")  BY <1>4, <2>1 DEF Adapter!Decided
  <2>4. QED  BY <1>1, <1>2, <2>2, <2>3, PersistStep
<1>5. QED  BY <1>3, <1>4

LEMMA EnsureApprovalDoes ==
  ASSUME Adapter!VercelAssumption, AdapterTyped, NEW c \in Calls, Adapter!EnsureApproval(c)
  PROVE  \E s : CallMoves(c, s)
<1>1. PICK r : r = call[c]  OBVIOUS
<1>2. PICK id : id = Adapter!AskedFor(c)  OBVIOUS
<1>3. r.pc = "gate" /\ UNCHANGED <<action, strays, toolEffects, excuses>>
  BY <1>1 DEF Adapter!EnsureApproval, Adapter!At
<1>4. Lawful(r) /\ r \in Invoked(Limit) /\ Orderly(r, Limit) /\ r.key \in ToolKeys /\ Limit \in Nat
  BY <1>1, <1>3, OneCall, LawfulCall
<1>5. id \in Adapter!Ids
  <2>1. r.prior.approval \in Adapter!Ids \cup {None}  BY <1>4 DEF Invoked, Entries
  <2>2. <<r.key, c>> \in Adapter!Ids  BY <1>4 DEF Adapter!Ids
  <2>3. QED  BY <1>1, <1>2, <2>1, <2>2 DEF Adapter!AskedFor
<1>6. CASE Adapter!Answered(c)
  <2>1. Adapter!Decided(c, approval[id]) /\ UNCHANGED approval
    BY <1>2, <1>6 DEF Adapter!EnsureApproval
  <2>2. QED  BY <1>1, <1>3, <2>1, DecidedStep
<1>7. CASE ~Adapter!Answered(c)
  <2>1. PICK p : p = [Adapter!Marked("awaiting_approval") EXCEPT !.approval = id]  OBVIOUS
  <2>2. p \in Entries(Limit) /\ p.status = "awaiting_approval"
    BY <1>4, <1>5, <2>1, EntriesMade DEF Adapter!Statuses
  <2>3. PICK t \in {"wait", "idle"} : t = IF Adapter!Mode = "wait" THEN "wait" ELSE "idle"  OBVIOUS
  <2>4. PICK s : s = [r EXCEPT !.pc = "persist", !.waits = id, !.patch = p, !.then = t]  OBVIOUS
  <2>5. /\ approval' = [approval EXCEPT ![id] = "pending"]
        /\ call' = [call EXCEPT ![c].pc = "persist", ![c].waits = id, ![c].patch = p, ![c].then = t]
    BY <1>2, <1>7, <2>1, <2>3 DEF Adapter!EnsureApproval
  <2>6. Becomes(c, s)
    <3>1. call \in [Calls -> Invoked(Limit)]  BY DEF AdapterTyped
    <3>2. QED  BY <1>1, <2>4, <2>5, <3>1 DEF Becomes
  <2>7. /\ s \in Invoked(Limit) /\ s.pc = "persist" /\ s.key = r.key /\ s.patch = p /\ s.then = t
        /\ s.waits = id /\ s.attempt = r.attempt
    BY <1>4, <1>5, <2>2, <2>4 DEF Invoked
  <2>8. Orderly(s, Limit)
    BY <1>3, <1>4, <1>5, <2>2, <2>7 DEF Orderly, Parked, Recording
  <2>9. Active(r) /\ (Active(s) \/ Ending(s)) /\ ~Past(s)
    BY <1>3, <2>2, <2>7 DEF Active, Ending, Recording, Past
  <2>10. approval' \in [Adapter!Ids -> {"none", "pending", "approved", "rejected"}]
    BY <1>5, <2>5, OneCall
  <2>11. QED  BY <1>1, <1>3, <2>6, <2>7, <2>8, <2>9, <2>10, QuietStep DEF Lawful
<1>8. QED  BY <1>6, <1>7

LEMMA WaitDoes ==
  ASSUME Adapter!VercelAssumption, AdapterTyped, NEW c \in Calls, Adapter!Wait(c) \/ Adapter!WaitFails(c)
  PROVE  \E s : CallMoves(c, s)
<1>1. call[c].pc = "wait" /\ UNCHANGED <<action, approval, strays, toolEffects, excuses>>
  BY DEF Adapter!Wait, Adapter!WaitFails, Adapter!At
<1>2. Active(call[c])  BY <1>1 DEF Active, Ending, Recording
<1>3. CASE Adapter!Wait(c)
  <2>1. Adapter!Decided(c, approval[call[c].waits])  BY <1>3 DEF Adapter!Wait
  <2>2. QED  BY <1>1, <2>1, DecidedStep
<1>4. CASE Adapter!WaitFails(c)
  <2>1. Adapter!Return(c)  BY <1>4 DEF Adapter!WaitFails
  <2>2. QED  BY <1>1, <1>2, <2>1, IdleStep
<1>5. QED  BY <1>3, <1>4

LEMMA CheckBudgetDoes ==
  ASSUME Adapter!VercelAssumption, AdapterTyped, NEW c \in Calls, Adapter!CheckBudget(c)
  PROVE  \E s : CallMoves(c, s)
<1>1. PICK r : r = call[c]  OBVIOUS
<1>2. r.pc = "budget" /\ UNCHANGED <<action, approval, strays, toolEffects, excuses>>
  BY <1>1 DEF Adapter!CheckBudget, Adapter!At
<1>3. Lawful(r) /\ Orderly(r, Limit) /\ Limit \in Nat \ {0} /\ Active(r) /\ r.pc # "idle"
  BY <1>1, <1>2, OneCall, LawfulCall DEF Active, Ending, Recording
<1>4. CASE Adapter!WithinBudget(r.key)
  <2>1. PICK s : s = [r EXCEPT !.pc = "attempt"]  OBVIOUS
  <2>2. Becomes(c, s)  BY <1>1, <1>4, <2>1, GoesTo DEF Adapter!CheckBudget
  <2>3. r.attempt < Limit
    <3>1. r.attempt = 0  BY <1>2, <1>3 DEF Orderly
    <3>2. QED  BY <1>3, <3>1
  <2>4. Lawful(s) /\ s.pc = "attempt" /\ s.key = r.key  BY <1>3, <2>1, <2>3, LawfulGo
  <2>5. Active(s)  BY <2>4 DEF Active, Ending, Recording
  <2>6. approval' \in [Adapter!Ids -> {"none", "pending", "approved", "rejected"}]  BY <1>2, OneCall
  <2>7. QED  BY <1>1, <1>2, <1>3, <1>4, <2>2, <2>4, <2>5, <2>6, QuietStep
<1>5. CASE ~Adapter!WithinBudget(r.key)
  <2>1. Adapter!Return(c)  BY <1>1, <1>5 DEF Adapter!CheckBudget
  <2>2. QED  BY <1>1, <1>2, <1>3, <2>1, IdleStep
<1>6. QED  BY <1>4, <1>5

LEMMA AttemptDoes ==
  ASSUME Adapter!VercelAssumption, AdapterTyped, NEW c \in Calls, Adapter!Attempt(c)
  PROVE  \E s : CallMoves(c, s)
<1>1. PICK r : r = call[c]  OBVIOUS
<1>2. r.pc = "attempt" /\ UNCHANGED <<action, approval, strays, toolEffects, excuses>>
  BY <1>1 DEF Adapter!Attempt, Adapter!At
<1>3. r \in Invoked(Limit) /\ Orderly(r, Limit) /\ Limit \in Nat /\ Active(r) /\ r.key \in ToolKeys
  BY <1>1, <1>2, OneCall, LawfulCall DEF Active, Ending, Recording
<1>4. r.attempt \in Nat /\ r.attempt + 1 \in 0 .. Limit
  <2>1. r.attempt \in 0 .. Limit /\ r.attempt < Limit  BY <1>2, <1>3 DEF Invoked, Orderly
  <2>2. QED  BY <1>3, <2>1
<1>5. PICK p : p = Adapter!Tried("running", r.attempt + 1)  OBVIOUS
<1>6. p \in Entries(Limit) /\ p.status = "running"
  BY <1>3, <1>4, <1>5, EntriesMade DEF Adapter!Statuses
<1>7. PICK s : s = [r EXCEPT !.pc = "persist", !.attempt = r.attempt + 1, !.then = "fn", !.patch = p]  OBVIOUS
<1>8. call' = [call EXCEPT ![c].pc = "persist", ![c].attempt = @ + 1, ![c].then = "fn", ![c].patch = p]
  BY <1>1, <1>5 DEF Adapter!Attempt
<1>9. Becomes(c, s)
  <2>1. call \in [Calls -> Invoked(Limit)]  BY DEF AdapterTyped
  <2>2. call[c].attempt = r.attempt  BY <1>1
  <2>3. QED  BY <1>1, <1>7, <1>8, <2>1, <2>2 DEF Becomes, Invoked
<1>10. s \in Invoked(Limit) /\ s.pc = "persist" /\ s.key = r.key /\ s.patch = p /\ s.then = "fn"
  BY <1>3, <1>4, <1>6, <1>7 DEF Invoked
<1>11. Orderly(s, Limit)
  BY <1>3, <1>6, <1>10 DEF Orderly, Parked, Recording
<1>12. Active(s) /\ Past(r)
  BY <1>2, <1>10 DEF Active, Ending, Recording, Past
<1>13. approval' \in [Adapter!Ids -> {"none", "pending", "approved", "rejected"}]  BY <1>2, OneCall
<1>14. QED  BY <1>1, <1>2, <1>3, <1>9, <1>10, <1>11, <1>12, <1>13, QuietStep DEF Lawful

LEMMA FnReturnsDoes ==
  ASSUME Adapter!VercelAssumption, AdapterTyped, NEW c \in Calls, Adapter!FnReturns(c)
  PROVE  \E s : CallMoves(c, s)
<1>1. PICK r : r = call[c]  OBVIOUS
<1>2. PICK p : p = Adapter!Tried("succeeded", r.attempt)  OBVIOUS
<1>3. /\ r.pc = "fn" /\ UNCHANGED <<action, approval, strays, excuses>>
      /\ toolEffects' = [toolEffects EXCEPT ![r.key] = @ + 1] /\ Adapter!Persist(c, p, "idle")
  BY <1>1, <1>2 DEF Adapter!FnReturns, Adapter!At
<1>4. Lawful(r) /\ r \in Invoked(Limit) /\ Limit \in Nat /\ Active(r) /\ Past(r) /\ r.pc # "idle"
  BY <1>1, <1>3, OneCall, LawfulCall DEF Active, Ending, Recording, Past
<1>5. p \in Entries(Limit) /\ p.status = "succeeded"
  <2>1. r.attempt \in 0 .. Limit  BY <1>4 DEF Invoked
  <2>2. QED  BY <1>2, <1>4, <2>1, EntriesMade DEF Adapter!Statuses
<1>6. PICK s : s = SetsOut(r, p, "idle")  OBVIOUS
<1>7. Becomes(c, s)  BY <1>1, <1>3, <1>6, GoesTo
<1>8. Lawful(s) /\ s.pc = "persist" /\ s.key = r.key /\ s.patch = p /\ s.then = "idle"
  BY <1>4, <1>5, <1>6, LawfulPersist
<1>9. Works(r, s)
  BY <1>3, <1>4, <1>5, <1>8 DEF Works, Ending, Recording
<1>10. QED  BY <1>1, <1>3, <1>4, <1>7, <1>8, <1>9, OneCall DEF CallMoves

(* What was caught.                                                        *)
LEMMA CaughtGoes ==
  ASSUME Adapter!VercelAssumption, AdapterTyped, NEW c \in Calls, call[c].pc # "idle",
         NEW retryable, Adapter!Caught(c, retryable)
  PROVE  \E s : Becomes(c, s) /\ Lawful(s) /\ s.key = call[c].key /\ (Active(s) \/ Ending(s)) /\ s.pc # "idle"
<1>1. PICK r : r = call[c]  OBVIOUS
<1>2. Lawful(r) /\ r \in Invoked(Limit) /\ Limit \in Nat /\ r.pc # "idle"
  BY <1>1, OneCall, LawfulCall
<1>3. CASE retryable /\ call[c].attempt < Limit
  <2>1. PICK s : s = [r EXCEPT !.pc = "attempt"]  OBVIOUS
  <2>2. Becomes(c, s)  BY <1>1, <1>3, <2>1, GoesTo DEF Adapter!Caught, Limit
  <2>3. Lawful(s) /\ s.pc = "attempt" /\ s.key = r.key  BY <1>1, <1>2, <1>3, <2>1, LawfulGo
  <2>4. QED  BY <1>1, <2>2, <2>3 DEF Active, Ending, Recording
<1>4. CASE ~(retryable /\ call[c].attempt < Limit)
  <2>1. PICK p : p = Adapter!Tried("failed", r.attempt)  OBVIOUS
  <2>2. p \in Entries(Limit) /\ p.status = "failed"
    <3>1. r.attempt \in 0 .. Limit  BY <1>2 DEF Invoked
    <3>2. QED  BY <1>2, <2>1, <3>1, EntriesMade DEF Adapter!Statuses
  <2>3. PICK s : s = SetsOut(r, p, "idle")  OBVIOUS
  <2>4. Becomes(c, s)  BY <1>1, <1>4, <2>1, <2>3, GoesTo DEF Adapter!Caught, Limit
  <2>5. Lawful(s) /\ s.pc = "persist" /\ s.key = r.key /\ s.then = "idle"
    BY <1>1, <1>2, <2>2, <2>3, LawfulPersist
  <2>6. QED  BY <1>1, <2>4, <2>5 DEF Ending, Recording
<1>5. QED  BY <1>3, <1>4

LEMMA FnFailsDoes ==
  ASSUME Adapter!VercelAssumption, AdapterTyped, NEW c \in Calls, Adapter!FnThrows(c) \/ Adapter!TimesOut(c)
  PROVE  \E s : CallMoves(c, s)
<1>1. PICK r : r = call[c]  OBVIOUS
<1>2. r.pc = "fn" /\ UNCHANGED <<action, approval, toolEffects>>
  BY <1>1 DEF Adapter!FnThrows, Adapter!TimesOut, Adapter!At
<1>3. Active(r) /\ Past(r) /\ r.pc # "idle"
  BY <1>2 DEF Active, Ending, Recording, Past
<1>4. approval' \in [Adapter!Ids -> {"none", "pending", "approved", "rejected"}]  BY <1>2, OneCall
<1>5. CASE Adapter!FnThrows(c)
  <2>1. PICK retryable : Adapter!Caught(c, retryable)  BY <1>5 DEF Adapter!FnThrows
  <2>2. PICK s : Becomes(c, s) /\ Lawful(s) /\ s.key = r.key /\ (Active(s) \/ Ending(s))
    BY <1>1, <1>2, <2>1, CaughtGoes
  <2>3. UNCHANGED <<strays, excuses>>  BY <1>5 DEF Adapter!FnThrows
  <2>4. QED  BY <1>1, <1>2, <1>3, <1>4, <2>2, <2>3, QuietStep
<1>6. CASE Adapter!TimesOut(c)
  <2>1. Adapter!Caught(c, TRUE)  BY <1>6 DEF Adapter!TimesOut
  <2>2. PICK s : Becomes(c, s) /\ Lawful(s) /\ s.key = r.key /\ (Active(s) \/ Ending(s))
    BY <1>1, <1>2, <2>1, CaughtGoes
  <2>3. strays' = [strays EXCEPT ![r.key] = @ + 1] /\ excuses' = [excuses EXCEPT ![r.key] = @ + 1]
    BY <1>1, <1>6 DEF Adapter!TimesOut
  <2>4. GivesUp(r, s)  BY <1>2, <1>3, <2>2, <2>3 DEF GivesUp, Stands
  <2>5. QED  BY <1>1, <1>3, <1>4, <2>2, <2>4 DEF CallMoves
<1>7. QED  BY <1>5, <1>6

(* A query fails, or the call dies.                                        *)
LEMMA PutLeaves ==
  ASSUME Adapter!VercelAssumption, AdapterTyped, NEW c \in Calls, NEW r, r = call[c], r.pc = "put",
         action' = [action EXCEPT ![r.key] = Adapter!Patched(r.prior, r.patch)]
  PROVE  MayRecord(r)
<1>1. Lawful(r) /\ Limit \in Nat  BY OneCall
<1>2. r.prior \in Entries(Limit) /\ r.patch \in Entries(Limit) /\ r.then \in {"idle", "wait", "fn"}
  BY <1>1 DEF Lawful, Invoked
<1>3. PICK e : e = Adapter!Patched(r.prior, r.patch)  OBVIOUS
<1>4. e \in Entries(Limit) /\ e.status = r.patch.status
  <2>1. "none" \in Adapter!Statuses  BY DEF Adapter!Statuses
  <2>2. QED  BY <1>1, <1>2, <1>3, <2>1, EntriesMade
<1>5. e.status = "succeeded" => Past(r)
  BY <1>1, <1>2, <1>4 DEF Past, Recording, Lawful, Orderly
<1>6. QED  BY <1>3, <1>4, <1>5 DEF MayRecord

LEMMA QueryFailsDoes ==
  ASSUME Adapter!VercelAssumption, AdapterTyped, NEW c \in Calls, Adapter!QueryFails(c)
  PROVE  \E s : CallMoves(c, s)
<1>1. PICK r : r = call[c]  OBVIOUS
<1>2. /\ r.pc \in {"gate", "wait", "budget", "persist", "put"}
      /\ \/ UNCHANGED action
         \/ r.pc = "put" /\ action' = [action EXCEPT ![r.key] = Adapter!Patched(r.prior, r.patch)]
      /\ \/ UNCHANGED approval
         \/ r.pc = "gate" /\ approval' = [approval EXCEPT ![Adapter!AskedFor(c)] = "pending"]
      /\ IF Adapter!InTry(c) THEN \E retryable \in BOOLEAN : Adapter!Caught(c, retryable) ELSE Adapter!Return(c)
      /\ IF Adapter!RecordsSuccess(c) THEN Adapter!Excuse(r.key) ELSE UNCHANGED excuses
      /\ UNCHANGED <<strays, toolEffects>>
  BY <1>1 DEF Adapter!QueryFails, Adapter!At
<1>3. r.pc # "idle" /\ Lawful(r) /\ r \in Invoked(Limit) /\ Orderly(r, Limit) /\ r.key \in ToolKeys
  BY <1>1, <1>2, OneCall, LawfulCall
<1>4. approval' \in [Adapter!Ids -> {"none", "pending", "approved", "rejected"}]  BY <1>2, OneCall
<1>5. MayRecord(r)
  <2>1. CASE UNCHANGED action  BY <2>1 DEF MayRecord
  <2>2. CASE r.pc = "put" /\ action' = [action EXCEPT ![r.key] = Adapter!Patched(r.prior, r.patch)]
    BY <1>1, <2>2, PutLeaves
  <2>3. QED  BY <1>2, <2>1, <2>2
<1>6. /\ Adapter!RecordsSuccess(c) <=> Recording(r) /\ r.patch.status = "succeeded"
      /\ Adapter!InTry(c) <=> Recording(r) /\ r.patch.status \in {"succeeded", "running"}
  BY <1>1 DEF Adapter!InTry, Adapter!RecordsSuccess, Adapter!Writing, Recording
<1>7. \/ Active(r) /\ UNCHANGED excuses
      \/ Ending(r) /\ r.patch.status # "succeeded" /\ UNCHANGED excuses
      \/ Ending(r) /\ excuses' = [excuses EXCEPT ![r.key] = @ + 1]
  <2>1. r.then \in {"idle", "wait", "fn"}  BY <1>3 DEF Invoked
  <2>2. Recording(r) /\ r.patch.status = "succeeded" => Ending(r)
    BY <1>3, <2>1 DEF Ending, Orderly
  <2>3. Active(r) \/ Ending(r)  BY <1>3 DEF Active
  <2>4. Ending(r) => Recording(r)  BY DEF Ending
  <2>5. QED  BY <1>2, <1>6, <2>2, <2>3, <2>4 DEF Adapter!Excuse
<1>8. CASE Adapter!InTry(c)
  <2>1. Past(r)  BY <1>3, <1>6, <1>8 DEF Past, Orderly
  <2>2. PICK retryable : Adapter!Caught(c, retryable)  BY <1>2, <1>8
  <2>3. PICK s : Becomes(c, s) /\ Lawful(s) /\ s.key = r.key /\ (Active(s) \/ Ending(s))
    BY <1>1, <1>3, <2>2, CaughtGoes
  <2>4. Ending(r) => r.patch.status = "succeeded"
    BY <1>3, <1>6, <1>8 DEF Ending, Orderly
  <2>5. Fails(r, s)  BY <1>2, <1>5, <1>7, <2>3, <2>4 DEF Fails, Stands
  <2>6. QED  BY <1>1, <1>3, <1>4, <2>1, <2>3, <2>5 DEF CallMoves
<1>9. CASE ~Adapter!InTry(c)
  <2>1. Becomes(c, Adapter!Idle)  BY <1>2, <1>9, GoesTo
  <2>2. PICK s : s = Adapter!Idle  OBVIOUS
  <2>3. Becomes(c, s) /\ Lawful(s) /\ s.pc = "idle" /\ ~Past(s)  BY <2>1, <2>2, LawfulIdle
  <2>4. Fails(r, s)  BY <1>2, <1>5, <1>7, <2>3 DEF Fails, Stands
  <2>5. QED  BY <1>1, <1>3, <1>4, <2>3, <2>4 DEF CallMoves
<1>10. QED  BY <1>8, <1>9

LEMMA DieDoes ==
  ASSUME Adapter!VercelAssumption, AdapterTyped, NEW c \in Calls, Adapter!Die(c)
  PROVE  \E s : CallMoves(c, s)
<1>1. PICK r : r = call[c]  OBVIOUS
<1>2. /\ r.pc # "idle" /\ Adapter!Return(c) /\ UNCHANGED <<action, approval, toolEffects>>
      /\ strays' = IF r.pc = "fn" THEN [strays EXCEPT ![r.key] = @ + 1] ELSE strays
      /\ IF r.pc = "fn" \/ Adapter!RecordsSuccess(c) THEN Adapter!Excuse(r.key) ELSE UNCHANGED excuses
  BY <1>1 DEF Adapter!Die, Adapter!At
<1>3. Lawful(r) /\ r \in Invoked(Limit) /\ Orderly(r, Limit) /\ r.key \in ToolKeys
  BY <1>1, <1>2, OneCall, LawfulCall
<1>4. approval' \in [Adapter!Ids -> {"none", "pending", "approved", "rejected"}]  BY <1>2, OneCall
<1>5. Adapter!RecordsSuccess(c) <=> Recording(r) /\ r.patch.status = "succeeded"
  BY <1>1 DEF Adapter!RecordsSuccess, Adapter!Writing, Recording
<1>6. PICK s : s = Adapter!Idle  OBVIOUS
<1>7. Becomes(c, s) /\ Lawful(s) /\ s.pc = "idle" /\ ~Past(s)  BY <1>2, <1>6, GoesTo, LawfulIdle
<1>8. CASE r.pc = "fn"
  <2>1. GivesUp(r, s)
    BY <1>2, <1>7, <1>8 DEF GivesUp, Stands, Active, Ending, Recording, Adapter!Excuse
  <2>2. QED  BY <1>1, <1>2, <1>4, <1>7, <2>1 DEF CallMoves
<1>9. CASE r.pc # "fn"
  <2>1. \/ Active(r) /\ UNCHANGED excuses
        \/ Ending(r) /\ r.patch.status # "succeeded" /\ UNCHANGED excuses
        \/ Ending(r) /\ excuses' = [excuses EXCEPT ![r.key] = @ + 1]
    <3>1. r.then \in {"idle", "wait", "fn"}  BY <1>3 DEF Invoked
    <3>2. Recording(r) /\ r.patch.status = "succeeded" => Ending(r)
      BY <1>3, <3>1 DEF Ending, Orderly
    <3>3. Active(r) \/ Ending(r)  BY <1>2 DEF Active
    <3>4. Ending(r) => Recording(r)  BY DEF Ending
    <3>5. QED  BY <1>2, <1>5, <1>9, <3>2, <3>3, <3>4 DEF Adapter!Excuse
  <2>2. Fails(r, s)  BY <1>2, <1>7, <1>9, <2>1 DEF Fails, Stands, MayRecord
  <2>3. QED  BY <1>1, <1>2, <1>4, <1>7, <2>2 DEF CallMoves
<1>10. QED  BY <1>8, <1>9

LEMMA StepDoes ==
  ASSUME Adapter!VercelAssumption, AdapterTyped, NEW c \in Calls, Adapter!Step(c)
  PROVE  \E s : CallMoves(c, s)
BY ReadBackDoes, PutDoes, EnsureApprovalDoes, WaitDoes, CheckBudgetDoes, AttemptDoes, FnReturnsDoes, FnFailsDoes,
   QueryFailsDoes, DieDoes
DEF Adapter!Step

LEMMA SetupStays ==
  ASSUME setup' = setup
  PROVE  /\ Limit' = Limit /\ Adapter!Cost' = Adapter!Cost /\ Adapter!BudgetCalls' = Adapter!BudgetCalls
         /\ Adapter!BudgetCents' = Adapter!BudgetCents /\ Adapter!Dearest' = Adapter!Dearest
BY DEF Limit, Adapter!Attempts, Adapter!Cost, Adapter!BudgetCalls, Adapter!BudgetCents, Adapter!Dearest

(* Calls that go where they may go stay well formed.                       *)
LEMMA TypedAfter ==
  ASSUME Adapter!VercelAssumption, AdapterTyped, setup' = setup, NEW c \in Calls, NEW s, Becomes(c, s), Lawful(s),
         action' \in [ToolKeys -> Entries(Limit)], strays' \in [ToolKeys -> Nat],
         approval' \in [Adapter!Ids -> {"none", "pending", "approved", "rejected"}],
         toolEffects' \in [ToolKeys -> Nat], excuses' \in [ToolKeys -> Nat]
  PROVE  AdapterTyped'
<1>1. Limit' = Limit  BY SetupStays
<1>2. call \in [Calls -> Invoked(Limit)] /\ \A d \in Calls : Orderly(call[d], Limit)  BY DEF AdapterTyped
<1>3. call' \in [Calls -> Invoked(Limit)]
  BY <1>2 DEF Becomes, Lawful
<1>4. \A d \in Calls : Orderly(call'[d], Limit)
  <2>1. TAKE d \in Calls
  <2>2. CASE d = c  BY <2>2 DEF Becomes, Lawful
  <2>3. CASE d # c
    <3>1. call'[d] = call[d]  BY <2>3 DEF Becomes
    <3>2. QED  BY <1>2, <3>1
  <2>4. QED  BY <2>2, <2>3
<1>5. setup' \in Setups  BY DEF AdapterTyped
<1>6. QED  BY <1>1, <1>3, <1>4, <1>5 DEF AdapterTyped

LEMMA StepTyped ==
  ASSUME Adapter!VercelAssumption, AdapterTyped, setup' = setup, NEW c \in Calls, NEW s, CallMoves(c, s)
  PROVE  AdapterTyped'
<1>1. /\ action \in [ToolKeys -> Entries(Limit)] /\ strays \in [ToolKeys -> Nat]
      /\ toolEffects \in [ToolKeys -> Nat] /\ excuses \in [ToolKeys -> Nat]
  BY DEF AdapterTyped
<1>2. PICK r : r = call[c]  OBVIOUS
<1>3. r.key \in ToolKeys  BY <1>2, OneCall DEF CallMoves
<1>4. action' \in [ToolKeys -> Entries(Limit)]
  <2>1. UNCHANGED action \/ \E e \in Entries(Limit) : action' = [action EXCEPT ![r.key] = e]
    BY <1>2 DEF CallMoves, Quiet, Records, Works, GivesUp, Fails, MayRecord
  <2>2. QED  BY <1>1, <2>1
<1>5. strays' \in [ToolKeys -> Nat]
  <2>1. UNCHANGED strays \/ strays' = [strays EXCEPT ![r.key] = @ + 1]
    BY <1>2 DEF CallMoves, Quiet, Records, Works, GivesUp, Fails, MayRecord
  <2>2. QED  BY <1>1, <1>3, <2>1
<1>6. toolEffects' \in [ToolKeys -> Nat]
  <2>1. UNCHANGED toolEffects \/ toolEffects' = [toolEffects EXCEPT ![r.key] = @ + 1]
    BY <1>2 DEF CallMoves, Quiet, Records, Works, GivesUp, Fails, MayRecord
  <2>2. QED  BY <1>1, <1>3, <2>1
<1>7. excuses' \in [ToolKeys -> Nat]
  <2>1. UNCHANGED excuses \/ excuses' = [excuses EXCEPT ![r.key] = @ + 1]
    BY <1>2 DEF CallMoves, Quiet, Records, Works, GivesUp, Fails, MayRecord
  <2>2. QED  BY <1>1, <1>3, <2>1
<1>8. QED  BY <1>4, <1>5, <1>6, <1>7, TypedAfter DEF CallMoves

(* What becomes of the calls of a key when one call changes.               *)
LEMMA CallsOfKey ==
  ASSUME Adapter!VercelAssumption, AdapterTyped, NEW c \in Calls, NEW s, Becomes(c, s), NEW k \in ToolKeys
  PROVE  /\ \A d \in Calls \ {c} : d \in Adapter!Busy(k)' <=> d \in Adapter!Busy(k)
         /\ \A d \in Calls \ {c} : call'[d] = call[d]
         /\ call'[c] = s /\ (c \in Adapter!Busy(k)' <=> s.key = k) /\ (c \in Adapter!Busy(k) <=> call[c].key = k)
         /\ Adapter!Busy(k) \subseteq Calls /\ Adapter!Busy(k)' \subseteq Calls
         /\ Cardinality(Doing(k)) \in Nat /\ Cardinality(Doing(k)') \in Nat
         /\ Cardinality(Doing(k)') + (IF call[c].key = k /\ Active(call[c]) THEN 1 ELSE 0)
              = Cardinality(Doing(k)) + (IF s.key = k /\ Active(s) THEN 1 ELSE 0)
<1>1. \A d \in Calls \ {c} : call'[d] = call[d]  BY DEF Becomes
<1>2. call'[c] = s  BY DEF Becomes
<1>3. Adapter!Busy(k) = {d \in Calls : call[d].key = k} /\ Adapter!Busy(k)' = {d \in Calls : call'[d].key = k}
  BY DEF Adapter!Busy
<1>4. PICK old : old = Doing(k)  OBVIOUS
<1>5. PICK new : new = Doing(k)'  OBVIOUS
<1>6. /\ old = {d \in Calls : call[d].key = k /\ Active(call[d])}
      /\ new = {d \in Calls : call'[d].key = k /\ Active(call'[d])}
  BY <1>3, <1>4, <1>5 DEF Doing
<1>7. IsFiniteSet(old)
  <2>1. IsFiniteSet(Calls)  BY SetupGiven DEF AdapterTyped
  <2>2. QED  BY <1>6, <2>1, FS_Subset
<1>8. old \ {c} = new \ {c}  BY <1>1, <1>6
<1>9. /\ IsFiniteSet(new) /\ Cardinality(old) \in Nat /\ Cardinality(new) \in Nat
      /\ Cardinality(new) + (IF c \in old THEN 1 ELSE 0) = Cardinality(old) + (IF c \in new THEN 1 ELSE 0)
  BY <1>7, <1>8, OneMoves
<1>10. (c \in old <=> call[c].key = k /\ Active(call[c])) /\ (c \in new <=> s.key = k /\ Active(s))
  BY <1>2, <1>6
<1>11. QED  BY <1>1, <1>2, <1>3, <1>4, <1>5, <1>9, <1>10

(* How much was done and may be done for a key.                            *)
Weight(k) == toolEffects[k] + strays[k] + Cardinality(Doing(k))
LEMMA ExcusedIs ==
  ASSUME NEW k
  PROVE  Excused(k) <=>
           /\ Weight(k) <= 1 + excuses[k]
           /\ Weight(k) = 1 + excuses[k] =>
                /\ \A c \in Adapter!Busy(k) : Active(call[c]) \/ call[c].patch.status = "succeeded"
                /\ Adapter!Busy(k) = {} => action[k].status = "succeeded"
BY DEF Excused, Weight

LEMMA ExcusedAfter ==
  ASSUME Adapter!VercelAssumption, AdapterTyped, NEW c \in Calls, NEW s, Becomes(c, s), NEW k \in ToolKeys, Excused(k),
         Weight(k)' <= 1 + excuses'[k],
         Weight(k)' = 1 + excuses'[k] => /\ Weight(k) = 1 + excuses[k]
                                         /\ s.key = k => Active(s) \/ s.patch.status = "succeeded"
                                         /\ Adapter!Busy(k)' = {} => action'[k].status = "succeeded"
  PROVE  Excused(k)'
<1>1. ASSUME Weight(k)' = 1 + excuses'[k], NEW d \in Adapter!Busy(k)'
      PROVE  Active(call'[d]) \/ call'[d].patch.status = "succeeded"
  <2>1. Weight(k) = 1 + excuses[k]  BY <1>1
  <2>2. CASE d = c
    <3>1. call'[d] = s /\ s.key = k  BY <1>1, <2>2, CallsOfKey
    <3>2. QED  BY <1>1, <3>1
  <2>3. CASE d # c
    <3>1. d \in Calls /\ d \in Adapter!Busy(k) /\ call'[d] = call[d]  BY <1>1, <2>3, CallsOfKey
    <3>2. Active(call[d]) \/ call[d].patch.status = "succeeded"  BY <2>1, <3>1, ExcusedIs
    <3>3. QED  BY <3>1, <3>2
  <2>4. QED  BY <2>2, <2>3
<1>2. QED  BY <1>1 DEF Excused, Weight

LEMMA WeightType ==
  ASSUME Adapter!VercelAssumption, AdapterTyped, NEW k \in ToolKeys
  PROVE  /\ toolEffects[k] \in Nat /\ strays[k] \in Nat /\ excuses[k] \in Nat /\ Cardinality(Doing(k)) \in Nat
         /\ Weight(k) \in Nat
<1>1. toolEffects[k] \in Nat /\ strays[k] \in Nat /\ excuses[k] \in Nat  BY DEF AdapterTyped
<1>2. IsFiniteSet(Calls)  BY SetupGiven DEF AdapterTyped
<1>3. Doing(k) \subseteq Calls  BY DEF Doing, Adapter!Busy
<1>4. Cardinality(Doing(k)) \in Nat  BY <1>2, <1>3, FS_Subset, FS_CardinalityType
<1>5. QED  BY <1>1, <1>4 DEF Weight

LEMMA ExcusedStep ==
  ASSUME Adapter!VercelAssumption, AdapterTyped, NEW c \in Calls, NEW s, CallMoves(c, s), NEW k \in ToolKeys, Excused(k)
  PROVE  Excused(k)'
<1>1. PICK r : r = call[c]  OBVIOUS
<1>2. Becomes(c, s) /\ Lawful(s) /\ r.pc # "idle" /\ r.key \in ToolKeys /\ (s.pc # "idle" => s.key = r.key)
  BY <1>1, OneCall DEF CallMoves
<1>3. s.pc = "idle" => s.key \notin ToolKeys
  <2>1. None \notin ToolKeys  BY SetupGiven DEF AdapterTyped
  <2>2. s.pc = "idle" => s = Adapter!Idle  BY <1>2 DEF Lawful, Orderly
  <2>3. Adapter!Idle.key = None  BY DEF Adapter!Idle
  <2>4. QED  BY <2>1, <2>2, <2>3
<1>4. PICK e, g, x, n, w : /\ e = toolEffects[k]
                           /\ g = strays[k]
                           /\ x = excuses[k]
                           /\ n = Cardinality(Doing(k)) /\ w = Weight(k)
  OBVIOUS
<1>5. PICK f, h, y, m, v : /\ f = toolEffects'[k]
                           /\ h = strays'[k]
                           /\ y = excuses'[k]
                           /\ m = Cardinality(Doing(k)') /\ v = Weight(k)'
  OBVIOUS
<1>6. /\ e \in Nat /\ g \in Nat /\ x \in Nat /\ n \in Nat /\ m \in Nat
      /\ w = e + g + n /\ v = f + h + m /\ w \in Nat
  BY <1>2, <1>4, <1>5, WeightType, CallsOfKey DEF Weight
<1>7. w <= 1 + x
  BY <1>4, <1>6, ExcusedIs
<1>8. m + (IF r.key = k /\ Active(r) THEN 1 ELSE 0) = n + (IF s.key = k /\ Active(s) THEN 1 ELSE 0)
  BY <1>1, <1>2, <1>4, <1>5, CallsOfKey
<1>9. /\ action \in [ToolKeys -> Entries(Limit)] /\ strays \in [ToolKeys -> Nat]
      /\ toolEffects \in [ToolKeys -> Nat] /\ excuses \in [ToolKeys -> Nat]
  BY DEF AdapterTyped
<1>10. CASE r.key # k
  <2>1. s.key # k  BY <1>2, <1>3, <1>10
  <2>2. m = n  BY <1>6, <1>8, <1>10, <2>1
  <2>3. f = e /\ h = g /\ y = x /\ action'[k] = action[k]
    <3>1. UNCHANGED action \/ \E z \in Entries(Limit) : action' = [action EXCEPT ![r.key] = z]
      BY <1>1 DEF CallMoves, Quiet, Records, Works, GivesUp, Fails, MayRecord
    <3>2. action'[k] = action[k]  BY <1>9, <1>10, <3>1
    <3>3. /\ UNCHANGED strays \/ strays' = [strays EXCEPT ![r.key] = @ + 1]
          /\ UNCHANGED toolEffects \/ toolEffects' = [toolEffects EXCEPT ![r.key] = @ + 1]
          /\ UNCHANGED excuses \/ excuses' = [excuses EXCEPT ![r.key] = @ + 1]
      BY <1>1 DEF CallMoves, Quiet, Records, Works, GivesUp, Fails, MayRecord
    <3>4. f = e /\ h = g /\ y = x  BY <1>4, <1>5, <1>9, <1>10, <3>3
    <3>5. QED  BY <3>2, <3>4
  <2>4. Adapter!Busy(k)' = Adapter!Busy(k)
    <3>1. c \notin Adapter!Busy(k) /\ c \notin Adapter!Busy(k)'
      BY <1>1, <1>2, <1>10, <2>1, CallsOfKey
    <3>2. \A d \in Calls \ {c} : d \in Adapter!Busy(k)' <=> d \in Adapter!Busy(k)
      BY <1>2, CallsOfKey
    <3>3. Adapter!Busy(k) \subseteq Calls /\ Adapter!Busy(k)' \subseteq Calls
      BY <1>2, CallsOfKey
    <3>4. QED  BY <3>1, <3>2, <3>3
  <2>5. w = 1 + x /\ Adapter!Busy(k)' = {} => action'[k].status = "succeeded"
    BY <1>4, <2>3, <2>4, ExcusedIs
  <2>6. v = w /\ y = x  BY <1>6, <2>2, <2>3
  <2>7. QED  BY <1>2, <1>4, <1>5, <1>6, <1>7, <2>1, <2>5, <2>6, ExcusedAfter
<1>11. CASE r.key = k
  <2>1. (Active(s) \/ Ending(s)) => s.pc # "idle" /\ s.key = k
    BY <1>2, <1>11 DEF Active, Ending, Recording
  <2>2. s.pc # "idle" => Adapter!Busy(k)' # {}
    BY <1>2, <1>11, CallsOfKey
  <2>3. ~(Active(r) /\ Ending(r)) /\ ~(Active(s) /\ Ending(s))  BY DEF Active, Ending
  <2>4. CASE Quiet(r, s)
    <3>1. f = e /\ h = g /\ y = x  BY <1>4, <1>5, <2>4 DEF Quiet
    <3>2. CASE Active(r) /\ Active(s)
      <4>1. m = n  BY <1>6, <1>8, <1>11, <2>1, <3>2
      <4>2. v = w  BY <1>6, <3>1, <4>1
      <4>3. QED  BY <1>2, <1>4, <1>5, <1>6, <1>7, <2>1, <2>2, <3>1, <3>2, <4>2, ExcusedAfter
    <3>3. CASE Active(r) /\ ~Active(s)
      <4>1. m + 1 = n  BY <1>6, <1>8, <1>11, <3>3
      <4>2. v \in Nat /\ v <= 1 + y /\ v # 1 + y /\ y \in Nat  BY <1>6, <1>7, <3>1, <4>1
      <4>3. QED  BY <1>2, <1>4, <1>5, <1>6, <3>1, <4>2, ExcusedAfter
    <3>4. CASE Ending(r) /\ Ending(s) /\ s.patch = r.patch
      <4>1. m = n  BY <1>6, <1>8, <2>3, <3>4
      <4>2. v = w  BY <1>6, <3>1, <4>1
      <4>3. w = 1 + x => s.patch.status = "succeeded"
        <5>1. c \in Adapter!Busy(k)  BY <1>1, <1>2, <1>11, CallsOfKey
        <5>2. QED  BY <1>1, <1>4, <2>3, <3>4, <5>1, ExcusedIs
      <4>4. QED  BY <1>2, <1>4, <1>5, <1>6, <1>7, <2>1, <2>2, <3>1, <3>4, <4>2, <4>3, ExcusedAfter
    <3>5. QED  BY <2>4, <3>2, <3>3, <3>4 DEF Quiet
  <2>5. CASE Records(r, s)
    <3>1. f = e /\ h = g /\ y = x  BY <1>4, <1>5, <2>5 DEF Records
    <3>2. PICK z \in Entries(Limit) : action' = [action EXCEPT ![r.key] = z] /\ z.status = r.patch.status
      BY <2>5 DEF Records
    <3>3. action'[k].status = r.patch.status  BY <1>9, <1>11, <3>2
    <3>4. m = n => v = w  BY <1>6, <3>1
    <3>5. CASE Active(r) /\ Active(s)
      <4>1. m = n  BY <1>6, <1>8, <1>11, <2>1, <3>5
      <4>2. QED  BY <1>2, <1>4, <1>5, <1>6, <1>7, <2>1, <2>2, <3>1, <3>4, <3>5, <4>1, ExcusedAfter
    <3>6. CASE Ending(r) /\ s.pc = "idle"
      <4>1. ~Active(s) /\ s.key # k  BY <1>3, <3>6 DEF Active
      <4>2. m = n  BY <1>6, <1>8, <2>3, <3>6, <4>1
      <4>3. w = 1 + x => r.patch.status = "succeeded"
        <5>1. c \in Adapter!Busy(k)  BY <1>1, <1>2, <1>11, CallsOfKey
        <5>2. QED  BY <1>1, <1>4, <2>3, <3>6, <5>1, ExcusedIs
      <4>4. QED  BY <1>2, <1>4, <1>5, <1>6, <1>7, <3>1, <3>3, <3>4, <4>1, <4>2, <4>3, ExcusedAfter
    <3>7. QED  BY <2>5, <3>5, <3>6 DEF Records
  <2>6. CASE Works(r, s)
    <3>1. f = e + 1 /\ h = g /\ y = x
      BY <1>4, <1>5, <1>9, <1>11, <2>6 DEF Works
    <3>2. Active(r) /\ Ending(s) /\ s.patch.status = "succeeded"  BY <2>6 DEF Works
    <3>3. m + 1 = n  BY <1>6, <1>8, <1>11, <2>3, <3>2
    <3>4. v = w  BY <1>6, <3>1, <3>3
    <3>5. QED  BY <1>2, <1>4, <1>5, <1>6, <1>7, <2>1, <2>2, <3>1, <3>2, <3>4, ExcusedAfter
  <2>7. CASE GivesUp(r, s)
    <3>1. f = e /\ h = g + 1 /\ y = x + 1
      BY <1>4, <1>5, <1>9, <1>11, <2>7 DEF GivesUp
    <3>2. Active(r)  BY <2>7 DEF GivesUp
    <3>3. CASE Active(s)
      <4>1. m = n  BY <1>6, <1>8, <1>11, <2>1, <3>2, <3>3
      <4>2. v \in Nat /\ v <= 1 + y /\ y \in Nat /\ (v = 1 + y => w = 1 + x)
        BY <1>6, <1>7, <3>1, <4>1
      <4>3. QED  BY <1>2, <1>4, <1>5, <1>6, <2>1, <2>2, <3>3, <4>2, ExcusedAfter
    <3>4. CASE ~Active(s)
      <4>1. m + 1 = n  BY <1>6, <1>8, <1>11, <3>2, <3>4
      <4>2. v \in Nat /\ v <= 1 + y /\ v # 1 + y /\ y \in Nat  BY <1>6, <1>7, <3>1, <4>1
      <4>3. QED  BY <1>2, <1>4, <1>5, <1>6, <4>2, ExcusedAfter
    <3>5. QED  BY <3>3, <3>4
  <2>8. CASE Fails(r, s)
    <3>1. f = e /\ h = g  BY <1>4, <1>5, <2>8 DEF Fails
    <3>2. CASE UNCHANGED excuses /\ Active(r)
      <4>1. y = x  BY <1>4, <1>5, <3>2
      <4>2. CASE Active(s)
        <5>1. m = n  BY <1>6, <1>8, <1>11, <2>1, <3>2, <4>2
        <5>2. v = w  BY <1>6, <3>1, <5>1
        <5>3. QED  BY <1>2, <1>4, <1>5, <1>6, <1>7, <2>1, <2>2, <4>1, <4>2, <5>2, ExcusedAfter
      <4>3. CASE ~Active(s)
        <5>1. m + 1 = n  BY <1>6, <1>8, <1>11, <3>2, <4>3
        <5>2. v \in Nat /\ v <= 1 + y /\ v # 1 + y /\ y \in Nat  BY <1>6, <1>7, <3>1, <4>1, <5>1
        <5>3. QED  BY <1>2, <1>4, <1>5, <1>6, <5>2, ExcusedAfter
      <4>4. QED  BY <4>2, <4>3
    <3>3. CASE UNCHANGED excuses /\ Ending(r) /\ r.patch.status # "succeeded" /\ s.pc = "idle"
      <4>1. y = x /\ ~Active(s)  BY <1>4, <1>5, <3>3 DEF Active
      <4>2. m = n  BY <1>6, <1>8, <2>3, <3>3, <4>1
      <4>3. w # 1 + x
        <5>1. c \in Adapter!Busy(k)  BY <1>1, <1>2, <1>11, CallsOfKey
        <5>2. QED  BY <1>1, <1>4, <2>3, <3>3, <5>1, ExcusedIs
      <4>4. v \in Nat /\ v <= 1 + y /\ v # 1 + y /\ y \in Nat  BY <1>6, <1>7, <3>1, <4>1, <4>2, <4>3
      <4>5. QED  BY <1>2, <1>4, <1>5, <1>6, <4>4, ExcusedAfter
    <3>4. CASE Ending(r) /\ excuses' = [excuses EXCEPT ![r.key] = @ + 1]
      <4>1. y = x + 1 /\ ~Active(r)  BY <1>4, <1>5, <1>9, <1>11, <2>3, <3>4
      <4>2. CASE Active(s)
        <5>1. m = n + 1  BY <1>6, <1>8, <1>11, <2>1, <4>1, <4>2
        <5>2. v \in Nat /\ v <= 1 + y /\ y \in Nat /\ (v = 1 + y => w = 1 + x)
          BY <1>6, <1>7, <3>1, <4>1, <5>1
        <5>3. QED  BY <1>2, <1>4, <1>5, <1>6, <2>1, <2>2, <4>2, <5>2, ExcusedAfter
      <4>3. CASE ~Active(s)
        <5>1. m = n  BY <1>6, <1>8, <4>1, <4>3
        <5>2. v \in Nat /\ v <= 1 + y /\ v # 1 + y /\ y \in Nat  BY <1>6, <1>7, <3>1, <4>1, <5>1
        <5>3. QED  BY <1>2, <1>4, <1>5, <1>6, <5>2, ExcusedAfter
      <4>4. QED  BY <4>2, <4>3
    <3>5. QED  BY <2>8, <3>2, <3>3, <3>4 DEF Fails
  <2>9. QED  BY <1>1, <2>4, <2>5, <2>6, <2>7, <2>8 DEF CallMoves
<1>12. QED  BY <1>10, <1>11

(* A call begins.                                                          *)
Begins(c, k, s) ==
  /\ Becomes(c, s) /\ Lawful(s) /\ call[c] = Adapter!Idle /\ UNCHANGED <<action, approval, strays, toolEffects>>
  /\ \/ s = Adapter!Idle /\ UNCHANGED excuses
     \/ /\ Active(s) /\ s.key = k /\ action[k].status # "succeeded" /\ ~Past(s)
        /\ excuses' = [excuses EXCEPT ![k] = @ + IF Adapter!Busy(k) # {} THEN 1 ELSE 0]

LEMMA InvokeDoes ==
  ASSUME Adapter!VercelAssumption, AdapterTyped, NEW c \in Calls, NEW k \in ToolKeys, Adapter!Invoke(c, k)
  PROVE  \E s : Begins(c, k, s)
<1>1. call \in [Calls -> Invoked(Limit)] /\ excuses \in [ToolKeys -> Nat]  BY DEF AdapterTyped
<1>2. call[c] = Adapter!Idle
  <2>1. call[c].pc = "idle"  BY DEF Adapter!Invoke, Adapter!At
  <2>2. QED  BY <2>1 DEF AdapterTyped, Orderly
<1>3. PICK pc : pc = Adapter!Admission(action[k], k)  OBVIOUS
<1>4. pc \in {"idle", "gate", "budget"} /\ (pc # "idle" => action[k].status # "succeeded")
  BY <1>3 DEF Adapter!Admission
<1>5. PICK s : s = IF pc = "idle" THEN Adapter!Idle
                   ELSE [Adapter!Idle EXCEPT !.pc = pc, !.key = k, !.prior = action[k]]
  OBVIOUS
<1>6. /\ call' = [call EXCEPT ![c] = s] /\ UNCHANGED <<action, approval, strays, toolEffects>>
      /\ excuses' = [excuses EXCEPT ![k] = @ + IF pc # "idle" /\ Adapter!Busy(k) # {} THEN 1 ELSE 0]
  BY <1>3, <1>5 DEF Adapter!Invoke
<1>7. Becomes(c, s)  BY <1>1, <1>6 DEF Becomes
<1>8. CASE pc = "idle"
  <2>1. s = Adapter!Idle  BY <1>5, <1>8
  <2>2. UNCHANGED excuses  BY <1>1, <1>6, <1>8
  <2>3. QED  BY <1>2, <1>6, <1>7, <2>1, <2>2, LawfulIdle DEF Begins
<1>9. CASE pc # "idle"
  <2>1. Lawful(Adapter!Idle) /\ Limit \in Nat  BY <1>2, OneCall
  <2>2. action[k] \in Entries(Limit)  BY OneCall
  <2>3. PICK r : r = Adapter!Idle  OBVIOUS
  <2>4. r \in Invoked(Limit) /\ r.attempt = 0  BY <2>1, <2>3 DEF Lawful, Adapter!Idle
  <2>5. s = [r EXCEPT !.pc = pc, !.key = k, !.prior = action[k]]  BY <1>5, <1>9, <2>3
  <2>6. s \in Invoked(Limit) /\ s.pc = pc /\ s.key = k /\ s.attempt = 0
    BY <1>4, <2>2, <2>4, <2>5 DEF Invoked
  <2>7. Orderly(s, Limit) /\ Active(s) /\ ~Past(s)
    BY <1>4, <1>9, <2>6 DEF Orderly, Active, Ending, Parked, Recording, Past
  <2>8. excuses' = [excuses EXCEPT ![k] = @ + IF Adapter!Busy(k) # {} THEN 1 ELSE 0]
    BY <1>6, <1>9
  <2>9. QED  BY <1>2, <1>4, <1>6, <1>7, <1>9, <2>6, <2>7, <2>8 DEF Begins, Lawful
<1>10. QED  BY <1>8, <1>9

LEMMA BeginsTyped ==
  ASSUME Adapter!VercelAssumption, AdapterTyped, setup' = setup, NEW c \in Calls, NEW k \in ToolKeys,
         NEW s, Begins(c, k, s)
  PROVE  AdapterTyped'
<1>1. /\ action' \in [ToolKeys -> Entries(Limit)] /\ strays' \in [ToolKeys -> Nat]
      /\ toolEffects' \in [ToolKeys -> Nat] /\ excuses \in [ToolKeys -> Nat]
      /\ approval' \in [Adapter!Ids -> {"none", "pending", "approved", "rejected"}]
  BY DEF AdapterTyped, Begins
<1>2. excuses' \in [ToolKeys -> Nat]
  <2>1. PICK i \in {0, 1} : i = IF Adapter!Busy(k) # {} THEN 1 ELSE 0  OBVIOUS
  <2>2. UNCHANGED excuses \/ excuses' = [excuses EXCEPT ![k] = @ + i]  BY <2>1 DEF Begins
  <2>3. QED  BY <1>1, <2>2
<1>3. QED  BY <1>1, <1>2, TypedAfter DEF Begins

LEMMA BeginsExcused ==
  ASSUME Adapter!VercelAssumption, AdapterTyped, NEW c \in Calls, NEW l \in ToolKeys, NEW s, Begins(c, l, s),
         NEW k \in ToolKeys, Excused(k)
  PROVE  Excused(k)'
<1>1. Becomes(c, s) /\ call[c] = Adapter!Idle  BY DEF Begins
<1>2. call[c].key # k /\ Adapter!Idle.key # k
  <2>1. None \notin ToolKeys  BY SetupGiven DEF AdapterTyped
  <2>2. QED  BY <1>1, <2>1 DEF Adapter!Idle
<1>3. PICK i \in {0, 1} : i = IF s.key = k /\ Active(s) THEN 1 ELSE 0  OBVIOUS
<1>4. Cardinality(Doing(k)) \in Nat /\ Cardinality(Doing(k)') = Cardinality(Doing(k)) + i
  BY <1>1, <1>2, <1>3, CallsOfKey
<1>5. Weight(k)' = Weight(k) + i /\ Weight(k) \in Nat /\ excuses[k] \in Nat
  <2>1. toolEffects' = toolEffects /\ strays' = strays  BY DEF Begins
  <2>2. Weight(k)' = toolEffects[k] + strays[k] + Cardinality(Doing(k)')  BY <2>1 DEF Weight
  <2>3. QED  BY <1>4, <2>2, WeightType DEF Weight
<1>6. action' = action  BY DEF Begins
<1>7. CASE i = 0
  <2>1. s.key # k
    BY <1>2, <1>3, <1>7 DEF Begins
  <2>2. excuses'[k] = excuses[k]
    <3>1. excuses \in [ToolKeys -> Nat]  BY DEF AdapterTyped
    <3>2. PICK j : j = IF Adapter!Busy(l) # {} THEN 1 ELSE 0  OBVIOUS
    <3>3. UNCHANGED excuses \/ (l # k /\ excuses' = [excuses EXCEPT ![l] = @ + j])
      BY <2>1, <3>2 DEF Begins
    <3>4. QED  BY <3>1, <3>3
  <2>3. Adapter!Busy(k)' = Adapter!Busy(k)
    <3>1. c \notin Adapter!Busy(k) /\ c \notin Adapter!Busy(k)'
      BY <1>1, <1>2, <2>1, CallsOfKey
    <3>2. \A d \in Calls \ {c} : d \in Adapter!Busy(k)' <=> d \in Adapter!Busy(k)
      BY <1>1, CallsOfKey
    <3>3. Adapter!Busy(k) \subseteq Calls /\ Adapter!Busy(k)' \subseteq Calls
      BY <1>1, CallsOfKey
    <3>4. QED  BY <3>1, <3>2, <3>3
  <2>4. Weight(k)' = Weight(k)  BY <1>5, <1>7
  <2>5. QED  BY <1>1, <1>6, <2>1, <2>2, <2>3, <2>4, ExcusedAfter, ExcusedIs
<1>8. CASE i = 1
  <2>1. s.key = k /\ Active(s) /\ k = l /\ action[k].status # "succeeded"
    BY <1>2, <1>3, <1>8 DEF Begins
  <2>2. c \in Adapter!Busy(k)'  BY <1>1, <2>1, CallsOfKey
  <2>3. PICK j \in {0, 1} : j = IF Adapter!Busy(k) # {} THEN 1 ELSE 0  OBVIOUS
  <2>4. excuses'[k] = excuses[k] + j
    <3>1. excuses \in [ToolKeys -> Nat]  BY DEF AdapterTyped
    <3>2. s # Adapter!Idle  BY <1>2, <2>1
    <3>3. excuses' = [excuses EXCEPT ![k] = @ + j]  BY <2>1, <2>3, <3>2 DEF Begins
    <3>4. QED  BY <3>1, <3>3
  <2>5. Weight(k)' = Weight(k) + 1 /\ Weight(k) <= 1 + excuses[k]  BY <1>5, <1>8, ExcusedIs
  <2>6. CASE j = 1
    <3>1. Weight(k)' <= 1 + excuses'[k] /\ (Weight(k)' = 1 + excuses'[k] => Weight(k) = 1 + excuses[k])
      BY <1>5, <2>4, <2>5, <2>6
    <3>2. QED  BY <1>1, <2>1, <2>2, <3>1, ExcusedAfter
  <2>7. CASE j = 0
    <3>1. Adapter!Busy(k) = {}  BY <2>3, <2>7
    <3>2. Weight(k) # 1 + excuses[k]  BY <2>1, <3>1, ExcusedIs
    <3>3. Weight(k)' <= 1 + excuses'[k]
      BY <1>5, <2>4, <2>5, <2>7, <3>2
    <3>4. \A d \in Adapter!Busy(k)' : Active(call'[d])
      <4>1. \A d \in Adapter!Busy(k)' : d = c  BY <1>1, <3>1, CallsOfKey
      <4>2. QED  BY <1>1, <2>1, <4>1, CallsOfKey
    <3>5. QED  BY <2>2, <3>3, <3>4 DEF Excused, Weight
  <2>8. QED  BY <2>6, <2>7
<1>9. QED  BY <1>3, <1>7, <1>8

(* An attempt that was given up ends.                                      *)
LEMMA StrayEndsKeeps ==
  ASSUME Adapter!VercelAssumption, AdapterTyped, setup' = setup, NEW l \in ToolKeys, Adapter!StrayEnds(l)
  PROVE  AdapterTyped' /\ \A k \in ToolKeys : Excused(k) => Excused(k)'
<1>1. /\ strays[l] > 0 /\ strays' = [strays EXCEPT ![l] = @ - 1]
      /\ toolEffects' = toolEffects \/ toolEffects' = [toolEffects EXCEPT ![l] = @ + 1]
      /\ UNCHANGED <<action, approval, call, excuses>>
  BY DEF Adapter!StrayEnds
<1>2. strays \in [ToolKeys -> Nat] /\ toolEffects \in [ToolKeys -> Nat] /\ excuses \in [ToolKeys -> Nat]
  BY DEF AdapterTyped
<1>3. strays' \in [ToolKeys -> Nat] /\ toolEffects' \in [ToolKeys -> Nat]
  BY <1>1, <1>2
<1>4. AdapterTyped'
  <2>1. Limit' = Limit  BY SetupStays
  <2>2. QED  BY <1>1, <1>3, <2>1 DEF AdapterTyped
<1>5. ASSUME NEW k \in ToolKeys, Excused(k) PROVE Excused(k)'
  <2>1. Adapter!Busy(k)' = Adapter!Busy(k) /\ Doing(k)' = Doing(k)  BY <1>1 DEF Doing, Adapter!Busy
  <2>2. PICK n \in Nat : n = Cardinality(Doing(k))  BY WeightType
  <2>3. Weight(k)' = toolEffects'[k] + strays'[k] + n /\ Weight(k) = toolEffects[k] + strays[k] + n
    BY <2>1, <2>2 DEF Weight
  <2>4. PICK e, f, g, h \in Nat : e = toolEffects[k] /\ f = toolEffects'[k] /\ g = strays[k] /\ h = strays'[k]
    BY <1>2, <1>3
  <2>5. f + h <= e + g
    <3>1. CASE k = l  BY <1>1, <1>2, <2>4, <3>1
    <3>2. CASE k # l  BY <1>1, <1>2, <2>4, <3>2
    <3>3. QED  BY <3>1, <3>2
  <2>6. Weight(k)' <= Weight(k) /\ Weight(k) \in Nat /\ Weight(k)' \in Nat  BY <2>3, <2>4, <2>5
  <2>7. excuses'[k] = excuses[k] /\ excuses[k] \in Nat  BY <1>1, <1>2
  <2>8. Weight(k)' <= 1 + excuses'[k] /\ (Weight(k)' = 1 + excuses'[k] => Weight(k) = 1 + excuses[k])
    BY <1>5, <2>6, <2>7, ExcusedIs
  <2>9. QED  BY <1>1, <1>5, <2>1, <2>8, ExcusedIs DEF Excused, Weight
<1>6. QED  BY <1>4, <1>5

(* A decision is made.                                                     *)
LEMMA ResolveKeeps ==
  ASSUME Adapter!VercelAssumption, AdapterTyped, setup' = setup, NEW id \in Adapter!Ids,
         NEW decision \in {"approved", "rejected"}, Adapter!Resolve(id, decision)
  PROVE  AdapterTyped' /\ \A k \in ToolKeys : Excused(k) => Excused(k)'
<1>1. approval' = [approval EXCEPT ![id] = decision] /\ UNCHANGED <<action, call, strays, toolEffects, excuses>>
  BY DEF Adapter!Resolve
<1>2. approval' \in [Adapter!Ids -> {"none", "pending", "approved", "rejected"}]
  BY <1>1 DEF AdapterTyped
<1>3. AdapterTyped'
  <2>1. Limit' = Limit  BY SetupStays
  <2>2. QED  BY <1>1, <1>2, <2>1 DEF AdapterTyped
<1>4. QED  BY <1>1, <1>3 DEF Excused, Doing, Adapter!Busy

(* What the budget's bounds are made of.                                   *)
Apart == Cardinality(Calls) - 1
LEMMA BudgetGiven ==
  ASSUME Adapter!VercelAssumption, AdapterTyped
  PROVE  /\ Adapter!BudgetCalls \in Nat /\ Adapter!BudgetCents \in Nat /\ Adapter!Others = Apart /\ Apart \in Nat
         /\ Adapter!Cost \in [ToolKeys -> Nat] /\ Adapter!Dearest \in Nat
         /\ \A k \in ToolKeys : Adapter!Cost[k] <= Adapter!Dearest
         /\ Adapter!Succeeded \subseteq ToolKeys /\ Bought \subseteq ToolKeys
         /\ Adapter!Cardinality(Adapter!Succeeded) = Cardinality(Adapter!Succeeded)
         /\ Adapter!Spent = SumFunctionOnSet(Adapter!Cost, Adapter!Succeeded)
<1>1. /\ Adapter!BudgetCalls \in Nat /\ Adapter!BudgetCents \in Nat /\ IsFiniteSet(Calls) /\ Calls # {}
      /\ Adapter!Cost \in [ToolKeys -> Nat] /\ IsFiniteSet(ToolKeys) /\ ToolKeys # {}
  BY SetupGiven DEF AdapterTyped
<1>2. Cardinality(Calls) \in Nat /\ Cardinality(Calls) # 0
  BY <1>1, FS_CardinalityType, FS_EmptySet
<1>3. Adapter!Others = Apart /\ Apart \in Nat
  BY <1>2, AdapterFinite DEF Adapter!Others, Apart
<1>4. PICK cost : cost = Adapter!Cost  OBVIOUS
<1>5. PICK costs : costs = {cost[k] : k \in ToolKeys}  OBVIOUS
<1>6. costs \in SUBSET Nat /\ costs # {} /\ \A k \in ToolKeys : cost[k] \in costs
  BY <1>1, <1>4, <1>5
<1>7. IsFiniteSet(costs)
  <2>1. \A y \in costs : \E k \in ToolKeys : y = cost[k]  BY <1>5
  <2>2. QED  BY <1>1, <1>4, <2>1, ImageCardinality
<1>8. Adapter!Dearest = Max(costs)
  BY <1>4, <1>5, AdapterMax DEF Adapter!Dearest
<1>9. Adapter!Dearest \in Nat /\ \A k \in ToolKeys : cost[k] <= Adapter!Dearest
  BY <1>6, <1>7, <1>8, FiniteMax
<1>10. Adapter!Succeeded \subseteq ToolKeys  BY DEF Adapter!Succeeded
<1>11. Bought \subseteq ToolKeys
  <2>1. \A d \in Calls : Past(call[d]) => call[d].key \in ToolKeys
    BY OneCall DEF Past, Recording
  <2>2. QED  BY <1>10, <2>1 DEF Bought
<1>12. /\ Adapter!Cardinality(Adapter!Succeeded) = Cardinality(Adapter!Succeeded)
       /\ Adapter!Spent = SumFunctionOnSet(Adapter!Cost, Adapter!Succeeded)
  BY AdapterFinite, AdapterSum DEF Adapter!Spent
<1>13. QED  BY <1>1, <1>3, <1>4, <1>9, <1>10, <1>11, <1>12

(* Sets of keys are finite, and so is what they cost.                      *)
LEMMA KeysCost ==
  ASSUME Adapter!VercelAssumption, AdapterTyped, NEW T \in SUBSET ToolKeys
  PROVE  /\ IsFiniteSet(T) /\ Cardinality(T) \in Nat /\ SumFunctionOnSet(Adapter!Cost, T) \in Nat
         /\ \A k \in T : Adapter!Cost[k] \in Nat
<1>1. IsFiniteSet(ToolKeys) /\ Adapter!Cost \in [ToolKeys -> Nat]  BY SetupGiven DEF AdapterTyped
<1>2. PICK cost : cost = Adapter!Cost  OBVIOUS
<1>3. IsFiniteSet(T) /\ Cardinality(T) \in Nat  BY <1>1, FS_Subset, FS_CardinalityType
<1>4. \A k \in T : cost[k] \in Nat  BY <1>1, <1>2
<1>5. SumFunctionOnSet(cost, T) \in Nat  BY <1>3, <1>4, SumAdds
<1>6. QED  BY <1>2, <1>3, <1>4, <1>5

LEMMA BuysNoMore ==
  ASSUME Adapter!VercelAssumption, AdapterTyped, setup' = setup, Afforded, Bought' \subseteq Bought
  PROVE  Afforded'
<1>1. PICK old, new, cost : old = Bought /\ new = Bought' /\ cost = Adapter!Cost  OBVIOUS
<1>2. new \subseteq old /\ old \subseteq ToolKeys  BY <1>1, BudgetGiven
<1>3. /\ IsFiniteSet(old) /\ Cardinality(old) \in Nat /\ Cardinality(new) \in Nat /\ \A k \in old : cost[k] \in Nat
      /\ SumFunctionOnSet(cost, old) \in Nat /\ SumFunctionOnSet(cost, new) \in Nat
  BY <1>1, <1>2, KeysCost
<1>4. Cardinality(new) <= Cardinality(old) /\ SumFunctionOnSet(cost, new) <= SumFunctionOnSet(cost, old)
  BY <1>2, <1>3, FS_Subset, SumShrinks
<1>5. PICK a, b : /\ a = Adapter!BudgetCalls + Adapter!Others
                  /\ b = Adapter!BudgetCents + Adapter!Others * Adapter!Dearest
  OBVIOUS
<1>6. a \in Nat /\ b \in Nat
  <2>1. /\ Adapter!BudgetCalls \in Nat /\ Adapter!BudgetCents \in Nat /\ Adapter!Others \in Nat
        /\ Adapter!Dearest \in Nat
    BY BudgetGiven
  <2>2. QED  BY <1>5, <2>1
<1>7. Cardinality(old) <= a /\ SumFunctionOnSet(cost, old) <= b
  BY <1>1, <1>5 DEF Afforded
<1>8. Cardinality(new) <= a /\ SumFunctionOnSet(cost, new) <= b
  BY <1>3, <1>4, <1>6, <1>7
<1>9. /\ Adapter!Cost' = Adapter!Cost /\ Adapter!BudgetCalls' = Adapter!BudgetCalls
      /\ Adapter!BudgetCents' = Adapter!BudgetCents /\ Adapter!Dearest' = Adapter!Dearest
  BY SetupStays
<1>10. QED  BY <1>1, <1>5, <1>8, <1>9 DEF Afforded, Adapter!Others

(* A call that the budget lets past buys its key; the others may have      *)
(* bought theirs since.                                                    *)
LEMMA BuysOne ==
  ASSUME Adapter!VercelAssumption, AdapterTyped, setup' = setup, UNCHANGED action, NEW c \in Calls, NEW s, Becomes(c, s),
         NEW k \in ToolKeys, Adapter!WithinBudget(k), s.key = k
  PROVE  Afforded'
<1>1. PICK sold, new, cost, f : /\ sold = Adapter!Succeeded
                                /\ new = Bought'
                                /\ cost = Adapter!Cost
                                /\ f = [d \in Calls \ {c} |-> call[d].key]
  OBVIOUS
<1>2. PICK others : others = {f[d] : d \in Calls \ {c}} \cap ToolKeys  OBVIOUS
<1>3. /\ IsFiniteSet(others) /\ Cardinality(others) \in Nat /\ Cardinality(others) <= Apart
  <2>1. IsFiniteSet(Calls)  BY SetupGiven DEF AdapterTyped
  <2>2. IsFiniteSet(Calls \ {c}) /\ Cardinality(Calls \ {c}) = Apart
    BY <2>1, FS_RemoveElement DEF Apart
  <2>3. PICK all : all = {call[d].key : d \in Calls}  OBVIOUS
  <2>4. f \in [Calls \ {c} -> all]  BY <1>1, <2>3
  <2>5. \A y \in others : \E d \in Calls \ {c} : y = f[d]  BY <1>2
  <2>6. IsFiniteSet(others) /\ Cardinality(others) <= Cardinality(Calls \ {c})
    BY <2>2, <2>4, <2>5, ImageCardinality
  <2>7. QED  BY <2>2, <2>6, FS_CardinalityType
<1>4. new \subseteq (sold \cup {k}) \cup others /\ new \subseteq ToolKeys
  <2>1. Adapter!Succeeded' = Adapter!Succeeded /\ sold \subseteq ToolKeys
    BY <1>1 DEF Adapter!Succeeded
  <2>2. ASSUME NEW d \in Calls, Past(call'[d]) PROVE call'[d].key \in {k} \cup others
    <3>1. CASE d = c
      <4>1. call'[d] = s  BY <3>1 DEF Becomes
      <4>2. QED  BY <4>1
    <3>2. CASE d # c
      <4>1. call'[d] = call[d] /\ f[d] = call[d].key  BY <1>1, <3>2 DEF Becomes
      <4>2. call[d].key \in ToolKeys  BY <2>2, <4>1, OneCall DEF Past, Recording
      <4>3. QED  BY <1>2, <3>2, <4>1, <4>2
    <3>3. QED  BY <3>1, <3>2
  <2>3. others \subseteq ToolKeys  BY <1>2
  <2>4. new = Adapter!Succeeded' \cup {call'[d].key : d \in {e \in Calls : Past(call'[e])}}
    BY <1>1 DEF Bought
  <2>5. QED  BY <1>1, <2>1, <2>2, <2>3, <2>4
<1>5. sold \cup {k} \subseteq ToolKeys  BY <1>1 DEF Adapter!Succeeded
<1>6. PICK more : more = sold \cup {k}  OBVIOUS
<1>7. /\ IsFiniteSet(sold) /\ IsFiniteSet(more) /\ IsFiniteSet(new) /\ Cardinality(sold) \in Nat
      /\ Cardinality(more) \in Nat /\ Cardinality(new) \in Nat
      /\ SumFunctionOnSet(cost, sold) \in Nat /\ SumFunctionOnSet(cost, more) \in Nat
      /\ SumFunctionOnSet(cost, new) \in Nat /\ \A l \in more \cup new : cost[l] \in Nat
  BY <1>1, <1>4, <1>5, <1>6, KeysCost
<1>8. /\ Cardinality(sold) < Adapter!BudgetCalls
      /\ SumFunctionOnSet(cost, sold) + cost[k] <= Adapter!BudgetCents
  BY <1>1, BudgetGiven DEF Adapter!WithinBudget
<1>9. /\ Cardinality(more) <= Cardinality(sold) + 1
      /\ SumFunctionOnSet(cost, more) <= SumFunctionOnSet(cost, sold) + cost[k]
  <2>1. cost[k] \in Nat  BY <1>6, <1>7
  <2>2. CASE k \in sold
    <3>1. more = sold  BY <1>6, <2>2
    <3>2. QED  BY <1>7, <2>1, <3>1
  <2>3. CASE k \notin sold
    <3>1. more \ {k} = sold /\ k \in more  BY <1>6, <2>3
    <3>2. Cardinality(more) = Cardinality(sold) + 1  BY <1>6, <1>7, <2>3, FS_AddElement
    <3>3. SumFunctionOnSet(cost, more) = cost[k] + SumFunctionOnSet(cost, more \ {k})
      BY <1>7, <3>1, SumAdds
    <3>4. SumFunctionOnSet(cost, more) = cost[k] + SumFunctionOnSet(cost, sold)  BY <3>1, <3>3
    <3>5. SumFunctionOnSet(cost, sold) \in Nat /\ Cardinality(sold) \in Nat  BY <1>7
    <3>6. QED  BY <2>1, <3>2, <3>4, <3>5
  <2>4. QED  BY <2>2, <2>3
<1>10. PICK o, p, q, x, y : /\ o = Cardinality(others)
                            /\ p = Apart
                            /\ q = Adapter!Dearest
                            /\ x = Adapter!BudgetCalls
                            /\ y = Adapter!BudgetCents
  OBVIOUS
<1>11. o \in Nat /\ p \in Nat /\ q \in Nat /\ x \in Nat /\ y \in Nat /\ o <= p /\ Adapter!Others = p
  BY <1>3, <1>10, BudgetGiven
<1>12. Cardinality(new) <= Cardinality(more) + o
  <2>1. IsFiniteSet(more \cup others) /\ Cardinality(more \cup others) <= Cardinality(more) + o
    BY <1>3, <1>7, <1>10, UnionCardinality
  <2>2. Cardinality(new) <= Cardinality(more \cup others) /\ Cardinality(more \cup others) \in Nat
    BY <1>4, <1>6, <2>1, FS_Subset, FS_CardinalityType
  <2>3. QED  BY <1>7, <1>11, <2>1, <2>2
<1>13. SumFunctionOnSet(cost, new) <= SumFunctionOnSet(cost, more) + q * o
  <2>1. \A l \in more : cost[l] \in Nat  BY <1>7
  <2>2. \A l \in new : cost[l] \in Nat /\ cost[l] <= q  BY <1>1, <1>4, <1>7, <1>10, BudgetGiven
  <2>3. new \subseteq more \cup others  BY <1>4, <1>6
  <2>4. QED  BY <1>3, <1>7, <1>10, <1>11, <2>1, <2>2, <2>3, SumCovers
<1>14. q * o \in Nat /\ p * q \in Nat /\ q * o <= p * q
  <2>1. PICK e \in Nat : p = o + e
    <3>1. p - o \in Nat /\ p = o + (p - o)  BY <1>11
    <3>2. QED  BY <3>1
  <2>2. (o + e) * q = q * o + q * e  BY <1>11, <2>1
  <2>3. q * o \in Nat /\ q * e \in Nat  BY <1>11
  <2>4. QED  BY <2>1, <2>2, <2>3
<1>15. PICK g, h : g = q * o /\ h = p * q  OBVIOUS
<1>16. PICK z : z = cost[k]  OBVIOUS
<1>17. z \in Nat /\ g \in Nat /\ h \in Nat /\ g <= h  BY <1>6, <1>7, <1>14, <1>15, <1>16
<1>18. Cardinality(new) <= x + p
  BY <1>3, <1>7, <1>8, <1>9, <1>10, <1>11, <1>12
<1>19. SumFunctionOnSet(cost, new) <= y + h
  BY <1>7, <1>8, <1>9, <1>10, <1>11, <1>13, <1>15, <1>16, <1>17
<1>20. /\ Adapter!Cost' = Adapter!Cost /\ Adapter!BudgetCalls' = Adapter!BudgetCalls
       /\ Adapter!BudgetCents' = Adapter!BudgetCents /\ Adapter!Dearest' = Adapter!Dearest
  BY SetupStays
<1>21. Adapter!Others' = p  BY <1>11 DEF Adapter!Others
<1>22. QED  BY <1>1, <1>10, <1>15, <1>18, <1>19, <1>20, <1>21 DEF Afforded

LEMMA StepBuys ==
  ASSUME Adapter!VercelAssumption, AdapterTyped, setup' = setup, Afforded, NEW c \in Calls, NEW s, CallMoves(c, s)
  PROVE  Afforded'
<1>1. PICK r : r = call[c]  OBVIOUS
<1>2. /\ Becomes(c, s) /\ Lawful(s) /\ r.key \in ToolKeys /\ r.pc # "idle" /\ (s.pc # "idle" => s.key = r.key)
      /\ action \in [ToolKeys -> Entries(Limit)]
  BY <1>1, OneCall DEF CallMoves
<1>3. Past(s) => s.key = r.key  BY <1>2 DEF Past, Recording
<1>4. CASE Past(s) /\ ~Past(r)
  <2>1. Adapter!WithinBudget(r.key) /\ UNCHANGED action  BY <1>1, <1>4 DEF CallMoves
  <2>2. QED  BY <1>2, <1>3, <1>4, <2>1, BuysOne
<1>5. CASE Past(s) => Past(r)
  <2>1. Past(r) => r.key \in Bought  BY <1>1 DEF Bought
  <2>2. ASSUME NEW k \in Adapter!Succeeded' PROVE k \in Bought
    <3>1. k \in ToolKeys /\ action'[k].status = "succeeded"  BY <2>2 DEF Adapter!Succeeded
    <3>2. \/ UNCHANGED action
          \/ \E e \in Entries(Limit) : /\ action' = [action EXCEPT ![r.key] = e]
                                       /\ e.status = "succeeded" => Past(r)
      BY <1>1 DEF CallMoves, Quiet, Records, Works, GivesUp, Fails, MayRecord
    <3>3. CASE action'[k] = action[k]  BY <3>1, <3>3 DEF Bought, Adapter!Succeeded
    <3>4. CASE action'[k] # action[k]  BY <1>2, <2>1, <3>1, <3>2, <3>4
    <3>5. QED  BY <3>3, <3>4
  <2>3. ASSUME NEW d \in Calls, Past(call'[d]) PROVE call'[d].key \in Bought
    <3>1. CASE d = c
      <4>1. call'[d] = s  BY <1>2, <3>1 DEF Becomes
      <4>2. QED  BY <1>3, <1>5, <2>1, <2>3, <4>1
    <3>2. CASE d # c
      <4>1. call'[d] = call[d]  BY <1>2, <3>2 DEF Becomes
      <4>2. QED  BY <2>3, <4>1 DEF Bought
    <3>3. QED  BY <3>1, <3>2
  <2>4. Bought' = Adapter!Succeeded' \cup {call'[d].key : d \in {e \in Calls : Past(call'[e])}}
    BY DEF Bought
  <2>5. Bought' \subseteq Bought  BY <2>2, <2>3, <2>4
  <2>6. QED  BY <2>5, BuysNoMore
<1>6. QED  BY <1>4, <1>5

LEMMA BeginsBuysNothing ==
  ASSUME Adapter!VercelAssumption, AdapterTyped, setup' = setup, Afforded, NEW c \in Calls, NEW k \in ToolKeys,
         NEW s, Begins(c, k, s)
  PROVE  Afforded'
<1>1. Becomes(c, s) /\ UNCHANGED action /\ ~Past(s)
  BY LawfulIdle DEF Begins
<1>2. \A d \in Calls : Past(call'[d]) => call'[d] = call[d]
  BY <1>1 DEF Becomes
<1>3. Bought' = Adapter!Succeeded' \cup {call'[d].key : d \in {e \in Calls : Past(call'[e])}}
  BY DEF Bought
<1>4. Adapter!Succeeded' = Adapter!Succeeded  BY <1>1 DEF Adapter!Succeeded
<1>5. Bought' \subseteq Bought  BY <1>2, <1>3, <1>4 DEF Bought
<1>6. QED  BY <1>5, BuysNoMore

LEMMA AdapterStep ==
  ASSUME Adapter!VercelAssumption, AdapterInv, [Adapter!Next]_(Adapter!vercelVars)
  PROVE  AdapterInv'
<1>1. AdapterTyped /\ Afforded /\ \A k \in ToolKeys : Excused(k)  BY DEF AdapterInv
<1>2. setup' = setup  BY DEF Adapter!Next, Adapter!vercelVars
<1>3. ASSUME NEW c \in Calls, Adapter!Step(c) PROVE AdapterInv'
  <2>1. PICK s : CallMoves(c, s)  BY <1>1, <1>3, StepDoes
  <2>2. AdapterTyped'  BY <1>1, <1>2, <2>1, StepTyped
  <2>3. Afforded'  BY <1>1, <1>2, <2>1, StepBuys
  <2>4. \A k \in ToolKeys : Excused(k)'  BY <1>1, <2>1, ExcusedStep
  <2>5. QED  BY <2>2, <2>3, <2>4 DEF AdapterInv
<1>4. ASSUME NEW c \in Calls, NEW l \in ToolKeys, Adapter!Invoke(c, l) PROVE AdapterInv'
  <2>1. PICK s : Begins(c, l, s)  BY <1>1, <1>4, InvokeDoes
  <2>2. AdapterTyped'  BY <1>1, <1>2, <2>1, BeginsTyped
  <2>3. Afforded'  BY <1>1, <1>2, <2>1, BeginsBuysNothing
  <2>4. \A k \in ToolKeys : Excused(k)'  BY <1>1, <2>1, BeginsExcused
  <2>5. QED  BY <2>2, <2>3, <2>4 DEF AdapterInv
<1>5. ASSUME UNCHANGED <<action, call>> PROVE Afforded'
  <2>1. Bought' \subseteq Bought  BY <1>5 DEF Bought, Adapter!Succeeded
  <2>2. QED  BY <1>1, <1>2, <2>1, BuysNoMore
<1>6. ASSUME NEW id \in Adapter!Ids, NEW decision \in {"approved", "rejected"}, Adapter!Resolve(id, decision)
      PROVE  AdapterInv'
  <2>1. UNCHANGED <<action, call>>  BY <1>6 DEF Adapter!Resolve
  <2>2. QED  BY <1>1, <1>2, <1>5, <1>6, <2>1, ResolveKeeps DEF AdapterInv
<1>7. ASSUME NEW l \in ToolKeys, Adapter!StrayEnds(l) PROVE AdapterInv'
  <2>1. UNCHANGED <<action, call>>  BY <1>7 DEF Adapter!StrayEnds
  <2>2. QED  BY <1>1, <1>2, <1>5, <1>7, <2>1, StrayEndsKeeps DEF AdapterInv
<1>8. CASE UNCHANGED Adapter!vercelVars
  <2>1. UNCHANGED <<setup, action, approval, call, strays, made, mishaps, toolEffects, excuses>>
    BY <1>8 DEF Adapter!vercelVars
  <2>2. Limit' = Limit  BY <1>2, SetupStays
  <2>3. AdapterTyped'  BY <1>1, <2>1, <2>2 DEF AdapterTyped
  <2>4. \A k \in ToolKeys : Excused(k)'  BY <1>1, <2>1 DEF Excused, Doing, Adapter!Busy
  <2>5. QED  BY <1>5, <2>1, <2>3, <2>4 DEF AdapterInv
<1>9. QED  BY <1>3, <1>4, <1>6, <1>7, <1>8 DEF Adapter!Next

LEMMA AdapterStart ==
  ASSUME Adapter!VercelAssumption, Adapter!Init
  PROVE  AdapterInv
<1>1. /\ setup \in Setups /\ action = [k \in ToolKeys |-> Adapter!NoRecord]
      /\ approval = [i \in Adapter!Ids |-> "none"] /\ call = [c \in Calls |-> Adapter!Idle]
      /\ strays = [k \in ToolKeys |-> 0] /\ toolEffects = [k \in ToolKeys |-> 0] /\ excuses = [k \in ToolKeys |-> 0]
  BY DEF Adapter!Init
<1>2. Limit \in Nat \ {0} /\ None \notin ToolKeys  BY <1>1, SetupGiven
<1>3. Adapter!NoRecord \in Entries(Limit) /\ Adapter!NoRecord.status = "none"
  BY <1>2, EntriesMade DEF Adapter!Statuses, Adapter!NoRecord
<1>4. PICK idle : idle = Adapter!Idle  OBVIOUS
<1>5. idle \in Invoked(Limit) /\ idle.pc = "idle" /\ idle.key = None
  <2> HIDE DEF Limit
  <2>1. QED  BY <1>2, <1>3, <1>4 DEF Adapter!Idle, Invoked
<1>6. Orderly(idle, Limit) /\ ~Past(idle) /\ ~Active(idle)
  BY <1>4, <1>5 DEF Orderly, Parked, Recording, Past, Active
<1>7. \A c \in Calls : call[c] = idle  BY <1>1, <1>4
<1>8. AdapterTyped
  <2>1. action \in [ToolKeys -> Entries(Limit)] /\ call \in [Calls -> Invoked(Limit)]
    BY <1>1, <1>3, <1>4, <1>5
  <2>2. \A c \in Calls : Orderly(call[c], Limit)  BY <1>6, <1>7
  <2>3. QED  BY <1>1, <2>1, <2>2 DEF AdapterTyped
<1>9. ASSUME NEW k \in ToolKeys PROVE Excused(k)
  <2>1. Doing(k) = {}  BY <1>6, <1>7 DEF Doing, Adapter!Busy
  <2>2. Cardinality(Doing(k)) = 0  BY <2>1, FS_EmptySet
  <2>3. Weight(k) = 0 /\ excuses[k] = 0  BY <1>1, <2>2 DEF Weight
  <2>4. QED  BY <2>3, ExcusedIs
<1>10. Afforded
  <2>1. Bought = {}
    <3>1. Adapter!Succeeded = {}  BY <1>1, <1>3 DEF Adapter!Succeeded
    <3>2. {d \in Calls : Past(call[d])} = {}  BY <1>6, <1>7
    <3>3. QED  BY <3>1, <3>2 DEF Bought
  <2>2. Cardinality(Bought) = 0 /\ IsFiniteSet({})  BY <2>1, FS_EmptySet
  <2>3. SumFunctionOnSet(Adapter!Cost, Bought) = 0  BY <2>1, <2>2, SumAdds
  <2>4. PICK a, b, p, q : /\ a = Adapter!BudgetCalls
                          /\ b = Adapter!BudgetCents
                          /\ p = Adapter!Others
                          /\ q = Adapter!Dearest
    OBVIOUS
  <2>5. a \in Nat /\ b \in Nat /\ p \in Nat /\ q \in Nat  BY <1>8, <2>4, BudgetGiven
  <2>6. 0 <= a + p /\ 0 <= b + p * q
    <3>1. p * q \in Nat  BY <2>5
    <3>2. QED  BY <2>5, <3>1
  <2>7. QED  BY <2>2, <2>3, <2>4, <2>6 DEF Afforded
<1>11. QED  BY <1>8, <1>9, <1>10 DEF AdapterInv

LEMMA AdapterImplies ==
  ASSUME Adapter!VercelAssumption, AdapterInv
  PROVE  AdapterBounded
<1>1. AdapterTyped /\ Afforded /\ \A k \in ToolKeys : Excused(k)  BY DEF AdapterInv
<1>2. Adapter!TypeOK
  <2>1. action \in [ToolKeys -> Entries(Limit)]  BY <1>1 DEF AdapterTyped
  <2>2. \A k \in ToolKeys : /\ action[k].status \in Adapter!Statuses /\ action[k].attempts \in 0 .. Limit
                            /\ action[k].approval \in Adapter!Ids \cup {None}
    BY <2>1 DEF Entries
  <2>3. QED  BY <1>1, <2>2 DEF AdapterTyped, Adapter!TypeOK, Limit
<1>3. Adapter!EffectsExplained
  <2>1. ASSUME NEW k \in ToolKeys PROVE toolEffects[k] <= 1 + excuses[k]
    <3>1. PICK w : w = Weight(k)  OBVIOUS
    <3>2. w <= 1 + excuses[k]  BY <1>1, <3>1, ExcusedIs
    <3>3. /\ toolEffects[k] \in Nat /\ strays[k] \in Nat /\ excuses[k] \in Nat /\ Cardinality(Doing(k)) \in Nat
          /\ w = toolEffects[k] + strays[k] + Cardinality(Doing(k))
      BY <1>1, <3>1, WeightType DEF Weight
    <3>4. QED  BY <3>2, <3>3
  <2>2. QED  BY <2>1 DEF Adapter!EffectsExplained
<1>4. Adapter!BudgetOvershoot
  <2>1. PICK sold, all, cost : sold = Adapter!Succeeded /\ all = Bought /\ cost = Adapter!Cost  OBVIOUS
  <2>2. sold \subseteq all /\ all \subseteq ToolKeys
    BY <1>1, <2>1, BudgetGiven DEF Bought
  <2>3. /\ IsFiniteSet(all) /\ Cardinality(all) \in Nat /\ Cardinality(sold) \in Nat /\ \A k \in all : cost[k] \in Nat
        /\ SumFunctionOnSet(cost, all) \in Nat /\ SumFunctionOnSet(cost, sold) \in Nat
    BY <1>1, <2>1, <2>2, KeysCost
  <2>4. Cardinality(sold) <= Cardinality(all) /\ SumFunctionOnSet(cost, sold) <= SumFunctionOnSet(cost, all)
    BY <2>2, <2>3, FS_Subset, SumShrinks
  <2>5. PICK a, b : /\ a = Adapter!BudgetCalls + Adapter!Others
                    /\ b = Adapter!BudgetCents + Adapter!Others * Adapter!Dearest
    OBVIOUS
  <2>6. a \in Nat /\ b \in Nat
    <3>1. /\ Adapter!BudgetCalls \in Nat /\ Adapter!BudgetCents \in Nat /\ Adapter!Others \in Nat
          /\ Adapter!Dearest \in Nat
      BY <1>1, BudgetGiven
    <3>2. QED  BY <2>5, <3>1
  <2>7. Cardinality(all) <= a /\ SumFunctionOnSet(cost, all) <= b
    BY <1>1, <2>1, <2>5 DEF Afforded
  <2>8. Cardinality(sold) <= a /\ SumFunctionOnSet(cost, sold) <= b
    BY <2>3, <2>4, <2>6, <2>7
  <2>9. /\ Adapter!Cardinality(Adapter!Succeeded) = Cardinality(sold)
        /\ Adapter!Spent = SumFunctionOnSet(cost, sold)
    BY <1>1, <2>1, BudgetGiven
  <2>10. QED  BY <2>5, <2>8, <2>9 DEF Adapter!BudgetOvershoot
<1>5. QED  BY <1>2, <1>3, <1>4 DEF AdapterBounded, Adapter!AdapterBounded

(* However many calls of the Vercel adapter interleave, however often their*)
(* queries fail and they die: work is repeated only for calls that overlap,*)
(* attempts given up and successes that were not put on record, and the    *)
(* budget is overshot by no more than the other calls can spend.           *)
THEOREM AdapterHolds ==
  ASSUME Adapter!VercelAssumption
  PROVE  Adapter!Spec => []AdapterBounded
<1>1. Adapter!Init => AdapterInv  BY AdapterStart
<1>2. AdapterInv /\ [Adapter!Next]_(Adapter!vercelVars) => AdapterInv'  BY AdapterStep
<1>3. AdapterInv => AdapterBounded  BY AdapterImplies
<1>4. QED  BY <1>1, <1>2, <1>3, PTL DEF Adapter!Spec
=============================================================================
