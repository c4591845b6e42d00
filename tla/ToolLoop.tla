------------------------------ MODULE ToolLoop ------------------------------
(***************************************************************************)
(* The tool wrappers of packages openai, langchain and mcp: the model asks *)
(* for a batch of tool calls, each goes through run() of packages/core     *)
(* under its idempotency key, and what comes back is turned into messages. *)
(* A runner dispatches a batch itself and a throw abandons it; a wrapped   *)
(* tool is called by its framework, which gets the throw.                  *)
(*                                                                         *)
(* run() is taken for what it does to the ledger in two steps, before and  *)
(* after the work; ActionRun has all of them.                              *)
(***************************************************************************)
EXTENDS Integers, Sequences, FiniteSets, SequencesExt

CONSTANTS
  Agents,
  None,
  SurfaceOf,        \* [agent -> how its tools are called]
  ScopeOf,          \* [agent -> the scope its binding gives, or None]
  BatchOf,          \* [agent -> the sequence of tool calls its model asks for]
  Handlers,         \* names of tools
  PolicyOf,         \* [name -> the verdict of its policies]
  Flaky,            \* names of tools whose work may throw
  MaxFailures,      \* bound: throws
  MaxRounds         \* bound: batches run again after a decision

Runners == {"functions", "graph"}
Wrapped == {"agents", "tools", "mcp"}

ToolLoopAssumption ==
  /\ SurfaceOf \in [Agents -> Runners \cup Wrapped]
  /\ PolicyOf \in [Handlers -> {"allow", "deny", "require_approval"}]
  /\ Flaky \subseteq Handlers /\ {MaxFailures, MaxRounds} \subseteq Nat
  \* An agent whose model asks for no tool call has nothing to run.
  /\ \A a \in Agents : Len(BatchOf[a]) \in Nat \ {0} /\ DOMAIN BatchOf[a] = 1 .. Len(BatchOf[a])

VARIABLES
  ledger,           \* the status of each action, by key
  agent,            \* per agent: where it is in its batch, and the messages so far
  failures, rounds, \* counters
  done              \* history: [key -> how often its work was done]

loopVars == <<ledger, agent, failures, rounds, done>>

-----------------------------------------------------------------------------
(* normalizeToolCall(): Chat Completions nest the function, Responses do   *)
(* not, and name the id otherwise.                                         *)
NormalizeToolCall(tc) ==
  IF "function" \in DOMAIN tc
  THEN [callId |-> tc.id, name |-> tc.function.name, rawArgs |-> tc.function.arguments]
  ELSE [callId |-> tc.call_id, name |-> tc.name, rawArgs |-> tc.arguments]

(* parseArgs(): JSON text or already an object, its fields as written.     *)
ParseArgs(raw) == raw.fields

(* A faulty Canonicalize: fields in the order they were written in.        *)
CanonicalizeAsWritten(fields) == fields

(* canonicalize(): the order of fields does not matter.                    *)
Canonicalize(fields) == ToSet(fields)

(* resolve(): what the binding of the tools gives, or the fallback.        *)
Resolve(given, fallback) == IF given = None THEN fallback ELSE given

(* idempotencyKey(), without the hash.                                     *)
Key(a, call) ==
  [tool |-> call.name, args |-> Canonicalize(ParseArgs(call.rawArgs)), scope |-> Resolve(ScopeOf[a], "global")]

CallsOf == [a \in Agents |-> [i \in DOMAIN BatchOf[a] |-> NormalizeToolCall(BatchOf[a][i])]]
KeysOf == [a \in Agents |-> [i \in DOMAIN BatchOf[a] |-> Key(a, CallsOf[a][i])]]
ActionKeys == UNION {ToSet(KeysOf[a]) : a \in Agents}

-----------------------------------------------------------------------------
(* What the wrappers make of the end of a run(): a result, the structured  *)
(* markers of defaultPendingResult() and defaultDeniedResult(), or a throw.*)
Message(call, kind, key, isError) == [id |-> call.callId, kind |-> kind, key |-> key, isError |-> isError]
NoKey == [tool |-> "none", args |-> {}, scope |-> "none"]
Throw == <<>>

DefaultPendingResult(call, key) == Message(call, "pending", key, FALSE)
DefaultDeniedResult(call) == Message(call, "denied", NoKey, FALSE)

(* A faulty ResolvePendingKey: as for an error without a key, the first    *)
(* pending action of the inbox.                                            *)
ResolvePendingInbox(a, call) ==
  LET pending == {k \in ActionKeys : ledger[k] = "awaiting_approval" /\ k.tool = call.name}
  IN IF pending = {} THEN Key(a, call) ELSE CHOOSE k \in pending : TRUE

(* resolvePendingKey(): the error of packages/core has the key.            *)
ResolvePendingKey(a, call) == Key(a, call)

(* createToolRunner() of openai,                                           *)
RunToolCall(a, call, end) ==
  CASE end = "unknown" -> <<Message(call, "error", NoKey, FALSE)>>
    [] end = "result" -> <<Message(call, "result", Key(a, call), FALSE)>>
    [] end = "pending" -> <<DefaultPendingResult(call, ResolvePendingKey(a, call))>>
    [] end = "denied" -> <<DefaultDeniedResult(call)>>
    [] OTHER -> Throw

(* of langchain, whose error messages say so,                              *)
RunGraphCall(a, call, end) ==
  IF end = "unknown" THEN <<Message(call, "error", NoKey, TRUE)>> ELSE RunToolCall(a, call, end)

(* withQuorvel() of openai: the framework only calls tools there are,      *)
WrappedExecute(a, call, end) == IF end = "unknown" THEN Throw ELSE RunToolCall(a, call, end)

(* of langchain,                                                           *)
WrappedTool(a, call, end) == IF end = "unknown" THEN Throw ELSE RunToolCall(a, call, end)

(* and guard() of mcp, to which a denied call is an error.                 *)
Guard(a, call, end) ==
  CASE end = "denied" -> <<Message(call, "denied", NoKey, TRUE)>>
    [] end = "unknown" -> Throw
    [] OTHER -> RunToolCall(a, call, end)

Answer(a, call, end) ==
  CASE SurfaceOf[a] = "functions" -> RunToolCall(a, call, end)
    [] SurfaceOf[a] = "graph" -> RunGraphCall(a, call, end)
    [] SurfaceOf[a] = "agents" -> WrappedExecute(a, call, end)
    [] SurfaceOf[a] = "tools" -> WrappedTool(a, call, end)
    [] SurfaceOf[a] = "mcp" -> Guard(a, call, end)

-----------------------------------------------------------------------------
Fresh == [pc |-> "ready", messages |-> <<>>]

Init ==
  /\ ledger = [k \in ActionKeys |-> "none"]
  /\ agent = [a \in Agents |-> Fresh]
  /\ failures = 0 /\ rounds = 0 /\ done = [k \in ActionKeys |-> 0]

At(a, pc) == agent[a].pc = pc
Place(a) == Len(agent[a].messages) + 1
Current(a) == CallsOf[a][Place(a)]
CurrentKey(a) == KeysOf[a][Place(a)]

(* A faulty Ended: what is left of the batch is run after a throw.         *)
EndedOnThrow(a, end) ==
  LET answer == Answer(a, Current(a), end)
      messages == agent[a].messages \o IF answer = Throw THEN <<Message(Current(a), "threw", NoKey, TRUE)>> ELSE answer
  IN agent' = [agent EXCEPT ![a] =
       [pc |-> IF Len(messages) = Len(CallsOf[a]) THEN "delivered" ELSE "ready", messages |-> messages]]

(* The call has ended.  runToolCalls() and runFromMessage() go on with the *)
(* next, and a throw passes through them: the messages so far are lost,    *)
(* and the host can only run the batch again.                              *)
Ended(a, end) ==
  LET answer == Answer(a, Current(a), end)
      messages == agent[a].messages \o
        IF answer = Throw THEN <<Message(Current(a), "threw", NoKey, TRUE)>> ELSE answer
  IN agent' = [agent EXCEPT ![a] =
       IF answer = Throw /\ SurfaceOf[a] \in Runners THEN Fresh
       ELSE [pc |-> IF Len(messages) = Len(CallsOf[a]) THEN "delivered" ELSE "ready", messages |-> messages]]

(* run(): what is on the ledger ends the call at once, or the verdict of   *)
(* the policies does, or the work is claimed and begins.                   *)
EndOf == [succeeded |-> "result", awaiting_approval |-> "pending", denied |-> "denied",
          rejected |-> "threw", running |-> "threw"]

Begin(a) ==
  LET call == Current(a)
      k == CurrentKey(a)
      verdict == IF ledger[k] = "approved" THEN "allow" ELSE PolicyOf[call.name]
  IN /\ At(a, "ready")
     /\ IF call.name \notin Handlers THEN Ended(a, "unknown") /\ UNCHANGED ledger
        ELSE IF ledger[k] \in DOMAIN EndOf THEN Ended(a, EndOf[ledger[k]]) /\ UNCHANGED ledger
        ELSE CASE verdict = "allow" -> /\ ledger' = [ledger EXCEPT ![k] = "running"]
                                       /\ agent' = [agent EXCEPT ![a].pc = "working"]
               [] verdict = "deny" -> /\ ledger' = [ledger EXCEPT ![k] = "denied"]
                                      /\ Ended(a, "denied")
               [] OTHER -> /\ ledger' = [ledger EXCEPT ![k] = "awaiting_approval"]
                           /\ Ended(a, "pending")
     /\ UNCHANGED <<failures, rounds, done>>

Work(a) ==
  LET k == CurrentKey(a)
  IN /\ At(a, "working")
     /\ done' = [done EXCEPT ![k] = @ + 1] /\ ledger' = [ledger EXCEPT ![k] = "succeeded"]
     /\ Ended(a, "result")
     /\ UNCHANGED <<failures, rounds>>

WorkThrows(a) ==
  /\ At(a, "working") /\ Current(a).name \in Flaky
  /\ failures < MaxFailures /\ failures' = failures + 1
  /\ ledger' = [ledger EXCEPT ![CurrentKey(a)] = "failed"]
  /\ Ended(a, "threw")
  /\ UNCHANGED <<rounds, done>>

(* approve() and reject(), under the key that a message gave.              *)
Decide(k) ==
  /\ ledger[k] = "awaiting_approval"
  /\ \E a \in Agents : \E i \in DOMAIN agent[a].messages : agent[a].messages[i].key = k
  /\ \E decision \in {"approved", "rejected"} : ledger' = [ledger EXCEPT ![k] = decision]
  /\ UNCHANGED <<agent, failures, rounds, done>>

(* The model asks again for what was pending.                              *)
Again(a) ==
  /\ At(a, "delivered") /\ rounds < MaxRounds
  /\ \E i \in DOMAIN agent[a].messages : agent[a].messages[i].kind = "pending"
  /\ agent' = [agent EXCEPT ![a] = Fresh] /\ rounds' = rounds + 1
  /\ UNCHANGED <<ledger, failures, done>>

Next ==
  \/ \E a \in Agents : Begin(a) \/ Work(a) \/ WorkThrows(a) \/ Again(a)
  \/ \E k \in DOMAIN ledger : Decide(k)

Spec == Init /\ [][Next]_loopVars
-----------------------------------------------------------------------------
(* Type correctness.                                                       *)
TypeOK ==
  /\ ledger \in [DOMAIN done -> DOMAIN EndOf \cup {"none", "failed", "approved"}]
  /\ done \in [DOMAIN ledger -> Nat] /\ failures \in 0 .. MaxFailures /\ rounds \in 0 .. MaxRounds
  /\ \A a \in Agents : Len(agent[a].messages) <= Len(CallsOf[a])

(* Each message answers its own call: it has its id, a result is of work   *)
(* that was done under its key, a pending one names the action that waits  *)
(* for it, and a runner's batch has no gap where a call threw.             *)
MessagesMatch ==
  \A a \in Agents : \A i \in DOMAIN agent[a].messages :
    LET message == agent[a].messages[i]
        k == KeysOf[a][i]
    IN /\ message.id = CallsOf[a][i].callId
       /\ message.kind = "result" => done[k] > 0
       /\ message.kind = "pending" => message.key = k
       /\ message.kind = "denied" => ledger[k] = "denied"
       /\ message.kind = "threw" => SurfaceOf[a] \in Wrapped

(* "The model called the same tool twice" (functions.ts:87): however often *)
(* and in whichever shape a call is made, by whom, and however often its   *)
(* batch is run again, work that needs no approval and does not throw is   *)
(* done once for all calls that ask for the same.                          *)
Asks(a, i) ==
  <<CallsOf[a][i].name, ToSet(CallsOf[a][i].rawArgs.fields), Resolve(ScopeOf[a], "global")>>
OnceHoweverCalled ==
  \A k \in {k \in DOMAIN done : done[k] > 0 /\ k.tool \notin Flaky /\ PolicyOf[k.tool] = "allow"} :
    /\ done[k] = 1
    /\ \A a \in Agents : \A i \in {i \in DOMAIN CallsOf[a] : KeysOf[a][i] = k} :
         \A b \in Agents : \A j \in {j \in DOMAIN CallsOf[b] : Asks(b, j) = Asks(a, i)} :
           done[KeysOf[b][j]] = 0 \/ KeysOf[b][j] = k

(* What a model that calls tools may rely on.                              *)
BatchesSafe == TypeOK /\ MessagesMatch /\ OnceHoweverCalled
=============================================================================
