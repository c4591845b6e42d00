------------------------------ MODULE ApiKeys -------------------------------
(***************************************************************************)
(* The API keys of an organisation: createApiKey(), rotateApiKey() and     *)
(* revokeApiKey() of service.ts, over MemStore or PgStore.  A key's        *)
(* plaintext is in the answer of the request that made it, and nowhere     *)
(* else: only its hash is stored.  The audit log is written after the      *)
(* fact, with errors swallowed, and is left out.  Who calls is in KeysPage.*)
(***************************************************************************)
EXTENDS Integers, FiniteSets

CONSTANTS
  Users,            \* the admins who manage the keys, from the dashboard
  Guarded,          \* TRUE: PgStore revokes only what is not; FALSE: MemStore
  MaxKeys,          \* bound: keys ever made
  MaxRevocations,   \* bound: revocations by request
  MaxLosses         \* bound: queries that fail and answers that are lost

KeysAssumption ==
  Guarded \in BOOLEAN /\ MaxKeys \in Nat \ {0} /\ {MaxRevocations, MaxLosses} \subseteq Nat

VARIABLES
  status,           \* per row of api_keys, numbered as inserted
  user,             \* per user: the request under way and the key it is about
  revocations,
  losses,
  known             \* history: the keys whose plaintext somebody was given

keyVars == <<status, user, revocations, losses, known>>

Ids == 1 .. MaxKeys
Active == {i \in Ids : status[i] = "active"}
Rows == {i \in Ids : status[i] # "absent"}

(* What revokeApiKey() of the store finds: MemStore revokes a second time. *)
Revocable == IF Guarded THEN Active ELSE Rows

(* authenticate(): the keys a request gets in with.                        *)
Accepted == {i \in Rows : status[i] # "revoked"}

(* The organisation's first key comes from its provisioning, whose answer  *)
(* may have gone to whoever shows it to nobody.                            *)
Init ==
  /\ status = [i \in Ids |-> IF i = 1 THEN "active" ELSE "absent"]
  /\ user = [u \in Users |-> [pc |-> "idle", key |-> 0]]
  /\ revocations = 0
  /\ losses = 0
  /\ known \in {{}, {1}}

-----------------------------------------------------------------------------
At(u, pc) == user[u].pc = pc
Goto(u, pc, i) == user' = [user EXCEPT ![u] = [pc |-> pc, key |-> i]]

(* insertApiKey(), then the answer.                                        *)
Insert(u) ==
  /\ Rows # Ids
  /\ LET i == Cardinality(Rows) + 1
     IN status' = [status EXCEPT ![i] = "active"] /\ Goto(u, "answer", i)
  /\ UNCHANGED <<revocations, losses, known>>

(* A faulty CreateApiKey: whoever asks has a key.                           *)
CreateWithKey(u) == At(u, "idle") /\ Active # {} /\ Insert(u)

CreateApiKey(u) == At(u, "idle") /\ Insert(u)

(* rotateApiKey(): the key is looked up, revoked or not ...                *)
GetApiKey(u, i) ==
  /\ At(u, "idle") /\ i \in Rows
  /\ Goto(u, "revoke", i)
  /\ UNCHANGED <<status, revocations, losses, known>>

(* A faulty RevokeOld: whoever finds the key revoked makes no other.       *)
RevokeOldOnce(u) ==
  /\ At(u, "revoke")
  /\ status' = [status EXCEPT ![user[u].key] = "revoked"]
  /\ Goto(u, IF user[u].key \in Active THEN "create" ELSE "answer", user[u].key)
  /\ UNCHANGED <<revocations, losses, known>>

(* ... revoked, if it was not ...                                          *)
RevokeOld(u) ==
  /\ At(u, "revoke")
  /\ status' = [status EXCEPT ![user[u].key] = "revoked"]
  /\ Goto(u, "create", user[u].key)
  /\ UNCHANGED <<revocations, losses, known>>

(* ... and replaced.                                                       *)
CreateReplacement(u) == At(u, "create") /\ Insert(u)

Answer(u) ==
  /\ At(u, "answer")
  /\ known' = known \cup {user[u].key}
  /\ Goto(u, "idle", 0)
  /\ UNCHANGED <<status, revocations, losses>>

(* revokeApiKey(), and its answer.                                         *)
RevokeApiKey(u, i) ==
  /\ At(u, "idle") /\ revocations < MaxRevocations
  /\ i \in Revocable
  /\ revocations' = revocations + 1
  /\ status' = [status EXCEPT ![i] = "revoked"]
  /\ Goto(u, "revoked", i)
  /\ UNCHANGED <<losses, known>>

(* Nothing to revoke: the answer is 404.                                   *)
RevokeMissing(u, i) ==
  /\ At(u, "idle") /\ i \notin Revocable
  /\ Goto(u, "missing", i)
  /\ UNCHANGED <<status, revocations, losses, known>>

AnswerRevocation(u) ==
  /\ At(u, "revoked") \/ At(u, "missing")
  /\ Goto(u, "idle", 0)
  /\ UNCHANGED <<status, revocations, losses, known>>

(* A query fails, the process dies or the answer is lost: the request ends *)
(* with what it has done so far.                                           *)
Lose(u) ==
  /\ ~At(u, "idle") /\ losses < MaxLosses
  /\ losses' = losses + 1
  /\ Goto(u, "idle", 0)
  /\ UNCHANGED <<status, revocations, known>>

-----------------------------------------------------------------------------
(* Type correctness.                                                       *)
TypeOK ==
  /\ status \in [Ids -> {"absent", "active", "revoked"}]
  /\ user \in [Users -> [pc : {"idle", "revoke", "create", "answer", "revoked", "missing"},
                          key : 0 .. MaxKeys]]
  /\ revocations \in 0 .. MaxRevocations /\ losses \in 0 .. MaxLosses
  /\ known \subseteq Rows
=============================================================================
