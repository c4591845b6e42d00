------------------------------ MODULE KeysPage ------------------------------
(***************************************************************************)
(* The page on which the admins of an organisation manage its API keys:    *)
(* ApiKeysManager.tsx of apps/dashboard over the API of ApiKeys.  Each     *)
(* user has the page open once.  The table is fetched when the page is     *)
(* loaded and kept up by the answers to the user's own requests only.      *)
(***************************************************************************)
EXTENDS ApiKeys

VARIABLES
  shown,            \* per user: the keys as the table has them
  doing,            \* per user: what was clicked, and the key it is about
  doubt             \* history, per user: the rows that others changed since, or a lost request

pageVars == <<shown, doing, doubt>>
allVars == <<keyVars, pageVars>>

Nothing == [click |-> "none", key |-> 0]

InitPage ==
  /\ Init
  /\ shown = [u \in Users |-> [i \in Ids |-> status[i]]]
  /\ doing = [u \in Users |-> Nothing]
  /\ doubt = [u \in Users |-> {}]

-----------------------------------------------------------------------------
Free(u) == doing[u] = Nothing
Click(u, click, i) == doing' = [doing EXCEPT ![u] = [click |-> click, key |-> i]]

(* User u changes key i: the tables of the others do not follow.           *)
Behind(u, i) ==
  doubt' = [v \in Users |-> IF v # u /\ (shown[v][i] = "active" \/ user[v].key = i)
                             THEN doubt[v] \cup {i} ELSE doubt[v]]

(* listKeys(), as the page is rendered.  A user waits for the answer to a  *)
(* request before reloading the page.                                      *)
Load(u) ==
  /\ Free(u)
  /\ shown' = [shown EXCEPT ![u] = status]
  /\ doubt' = [doubt EXCEPT ![u] = {}]
  /\ UNCHANGED <<keyVars, doing>>

(* onCreate(): the buttons are disabled until the answer is there.         *)
Create(u) ==
  /\ Free(u) /\ CreateApiKey(u)
  /\ Click(u, "create", 0)
  /\ UNCHANGED <<shown, doubt>>

(* onRotate() of a row with the button: one that the table has as active.  *)
Rotate(u, i) ==
  /\ Free(u) /\ shown[u][i] = "active"
  /\ GetApiKey(u, i)
  /\ Click(u, "rotate", i)
  /\ UNCHANGED <<shown, doubt>>

(* onRevoke().                                                             *)
Revoke(u, i) ==
  /\ Free(u) /\ shown[u][i] = "active"
  /\ RevokeApiKey(u, i) \/ RevokeMissing(u, i)
  /\ Click(u, "revoke", i)
  /\ IF i \in Active THEN Behind(u, i) ELSE UNCHANGED doubt
  /\ UNCHANGED shown

(* The API goes on with a rotation.                                        *)
RevokeRotated(u) ==
  /\ RevokeOld(u)
  /\ Behind(u, user[u].key)
  /\ UNCHANGED <<shown, doing>>

Replace(u) == CreateReplacement(u) /\ UNCHANGED pageVars

(* A faulty Upserted: the key that was rotated keeps its row.              *)
UpsertedOnly(u, i) == [shown[u] EXCEPT ![i] = "active"]

(* markRevoked() of a rotated key, and upsert() of its replacement.        *)
Upserted(u, i) ==
  [j \in Ids |-> CASE j = i -> "active"
                   [] j # i /\ doing[u].click = "rotate" /\ j = doing[u].key -> "revoked"
                   [] OTHER -> shown[u][j]]

(* The answer of createKeyAction() or rotateKeyAction(), with the new key.  *)
ShowSecret(u) ==
  /\ Answer(u)
  /\ shown' = [shown EXCEPT ![u] = Upserted(u, user[u].key)]
  /\ doing' = [doing EXCEPT ![u] = Nothing]
  /\ UNCHANGED doubt

(* The answer of revokeKeyAction(): markRevoked(), or the error is shown   *)
(* and the row stays as it is.                                             *)
ShowRevoked(u) ==
  /\ AnswerRevocation(u)
  /\ shown' = IF At(u, "revoked") THEN [shown EXCEPT ![u][user[u].key] = "revoked"] ELSE shown
  /\ doing' = [doing EXCEPT ![u] = Nothing]
  /\ UNCHANGED doubt

(* The request throws: the error is shown, and the table stays.            *)
ShowError(u) ==
  /\ Lose(u)
  /\ doing' = [doing EXCEPT ![u] = Nothing]
  /\ doubt' = [doubt EXCEPT ![u] = @ \cup {doing[u].key}]
  /\ UNCHANGED shown

Proceed(u) == RevokeRotated(u) \/ Replace(u) \/ ShowSecret(u) \/ ShowRevoked(u)

Next ==
  \E u \in Users : \/ Load(u) \/ Create(u) \/ Proceed(u) \/ ShowError(u)
                   \/ \E i \in Ids : Rotate(u, i) \/ Revoke(u, i)

NoAccess == known \cap Accepted = {}

(* A request that is not lost is answered; where nobody has a key that is  *)
(* accepted, an admin comes to create one.                                 *)
Fairness == \A u \in Users : WF_allVars(Proceed(u)) /\ SF_allVars(NoAccess /\ Create(u))

Spec == InitPage /\ [][Next]_allVars /\ Fairness
-----------------------------------------------------------------------------
PageTypeOK ==
  /\ TypeOK
  /\ shown \in [Users -> [Ids -> {"absent", "active", "revoked"}]]
  /\ doing \in [Users -> [click : {"none", "create", "rotate", "revoke"}, key : 0 .. MaxKeys]]
  /\ doubt \in [Users -> SUBSET (0 .. MaxKeys)]

(* What the table calls revoked is; what it calls active is too, unless    *)
(* somebody else has changed the key since the page was loaded, or the     *)
(* answer of a request about it was lost: through rotations of one key by  *)
(* two users at once (ApiKeysManager.tsx:24).                              *)
TableTells ==
  \A u \in Users, i \in Ids :
    /\ shown[u][i] = "revoked" => status[i] = "revoked"
    /\ shown[u][i] = "active" /\ Free(u) => status[i] = "active" \/ i \in doubt[u]

KeysTold == PageTypeOK /\ TableTells

(* A rotation revokes the old key before there is a new one (service.ts:   *)
(* 603): one that fails in between, a revocation of the last key, or a     *)
(* first key nobody was shown, leave the organisation without access, but  *)
(* an admin who then creates a key has one that is accepted in the end.    *)
AccessRegained == NoAccess ~> ~NoAccess \/ Rows = Ids
=============================================================================
