---------------------------- MODULE Provisioning ----------------------------
(***************************************************************************)
(* How the organisation of a Clerk organisation comes to be:               *)
(* authenticateDashboard() and provisionOrg() of service.ts, over          *)
(* MemStore or PgStore.  Each session is one request of a user; a request  *)
(* that finds no organisation makes it, with its owner and its first API   *)
(* key.                                                                    *)
(***************************************************************************)
EXTENDS Integers, Sequences, FiniteSets

CONSTANTS
  Sessions,
  Users,
  UserOf,           \* [Sessions -> Users]
  None,
  MaxCrashes        \* bound: crashes of the process

ProvisioningAssumption ==
  /\ UserOf \in [Sessions -> Users] /\ IsFiniteSet(Users) /\ MaxCrashes \in Nat
  /\ None \notin Users \cup Sessions \cup {"owner", "member"}

VARIABLES
  unique,           \* TRUE: PgStore, where clerk_org_id is unique; FALSE: MemStore
  orgs,             \* the rows linked to the Clerk organisation, oldest first
  session,          \* per session: where it is, and its organisation
  crashed,
  clashed           \* history: the users who had two sessions at a time

provisioningVars == <<unique, orgs, session, crashed, clashed>>

Ended == {"answered", "failed"}
Live == {s \in Sessions : session[s].pc \notin {"idle"} \cup Ended}

Init ==
  /\ unique \in BOOLEAN
  /\ orgs = <<>>
  /\ session = [s \in Sessions |-> [pc |-> "idle", org |-> 0]]
  /\ crashed = 0
  /\ clashed = {}

-----------------------------------------------------------------------------
At(s, pc) == session[s].pc = pc
Goto(s, pc, o) == session' = [session EXCEPT ![s] = [pc |-> pc, org |-> o]]
Role(s) == orgs[session[s].org].role[UserOf[s]]

(* getOrgByClerkId(): the first row.                                       *)
Found(s, present, absent) == IF orgs = <<>> THEN Goto(s, absent, 0) ELSE Goto(s, present, 1)

(* getMembership().                                                        *)
LookUp(s, pc, absent) ==
  /\ At(s, pc)
  /\ Goto(s, IF Role(s) = None THEN absent ELSE "answered", session[s].org)
  /\ UNCHANGED <<unique, orgs, crashed, clashed>>

(* upsertMembership(): the role is overwritten.                            *)
Upsert(s, pc, role, next) ==
  /\ At(s, pc)
  /\ orgs' = [orgs EXCEPT ![session[s].org].role[UserOf[s]] = role]
  /\ Goto(s, next, session[s].org)
  /\ UNCHANGED <<unique, crashed, clashed>>

Arrive(s) ==
  /\ At(s, "idle")
  /\ clashed' = clashed \cup {UserOf[s] : t \in {l \in Live : UserOf[l] = UserOf[s]}}
  /\ UNCHANGED <<unique, orgs, crashed>>

(* authenticateDashboard().                                                *)
Authenticate(s) == Arrive(s) /\ Found(s, "member", "provision")

(* POST /v1/orgs/provision.                                                *)
RequestProvision(s) == Arrive(s) /\ Found(s, "provisioned", "insert")

GetMember(s) == LookUp(s, "member", "join")
Join(s) == Upsert(s, "join", "member", "answered")

(* provisionOrg() looks again.                                             *)
Provision(s) ==
  /\ At(s, "provision")
  /\ Found(s, "provisioned", "insert")
  /\ UNCHANGED <<unique, orgs, crashed, clashed>>

GetProvisioned(s) == LookUp(s, "provisioned", "joinProvisioned")
JoinProvisioned(s) == Upsert(s, "joinProvisioned", "owner", "answered")

(* A faulty InsertOrg: the index on clerk_org_id takes a second row for a  *)
(* conflict to ignore, and the request goes on with an organisation that   *)
(* is another's.                                                           *)
InsertIgnoring(s) ==
  /\ At(s, "insert")
  /\ IF unique /\ orgs # <<>>
     THEN Goto(s, "own", 1) /\ UNCHANGED orgs
     ELSE /\ orgs' = Append(orgs, [role |-> [u \in Users |-> None], keys |-> 0, founder |-> UserOf[s]])
          /\ Goto(s, "own", Len(orgs) + 1)
  /\ UNCHANGED <<unique, crashed, clashed>>

(* insertOrg(): in Postgres a second row of the Clerk organisation breaks  *)
(* the unique index, and the request fails.                                *)
InsertOrg(s) ==
  /\ At(s, "insert")
  /\ IF unique /\ orgs # <<>>
     THEN Goto(s, "failed", 0) /\ UNCHANGED orgs
     ELSE /\ orgs' = Append(orgs, [role |-> [u \in Users |-> None], keys |-> 0, founder |-> UserOf[s]])
          /\ Goto(s, "own", Len(orgs) + 1)
  /\ UNCHANGED <<unique, crashed, clashed>>

Own(s) == Upsert(s, "own", "owner", "key")

InsertKey(s) ==
  /\ At(s, "key")
  /\ orgs' = [orgs EXCEPT ![session[s].org].keys = @ + 1]
  /\ Goto(s, "answered", session[s].org)
  /\ UNCHANGED <<unique, crashed, clashed>>

(* The requests under way die; MemStore forgets what it held.              *)
Crash ==
  /\ crashed < MaxCrashes
  /\ crashed' = crashed + 1
  /\ session' = [s \in Sessions |-> IF s \in Live THEN [session[s] EXCEPT !.pc = "failed"] ELSE session[s]]
  /\ orgs' = IF unique THEN orgs ELSE <<>>
  /\ UNCHANGED <<unique, clashed>>

Step(s) ==
  \/ Authenticate(s) \/ RequestProvision(s) \/ GetMember(s) \/ Join(s)
  \/ Provision(s) \/ GetProvisioned(s) \/ JoinProvisioned(s)
  \/ InsertOrg(s) \/ Own(s) \/ InsertKey(s)

Next == (\E s \in Sessions : Step(s)) \/ Crash

Spec == Init /\ [][Next]_provisioningVars
-----------------------------------------------------------------------------
Roles == {"owner", "member"}

(* Type correctness.                                                       *)
TypeOK ==
  /\ unique \in BOOLEAN
  /\ orgs \in Seq([role : [Users -> Roles \cup {None}], keys : Nat, founder : Users])
  /\ session \in [Sessions -> [pc : {"idle", "member", "join", "provision", "provisioned",
                                     "joinProvisioned", "insert", "own", "key"} \cup Ended,
                               org : Nat]]
  /\ crashed \in Nat /\ clashed \subseteq Users

(* Once the requests have ended and none of them died, each organisation   *)
(* has its one first key, and its founder owns it -- unless the founder    *)
(* had two requests at a time, when the later can write "member" over      *)
(* "owner" (service.ts:236) -- through all that other users do meanwhile.  *)
Provisioned ==
  Live = {} /\ crashed = 0 =>
    \A o \in 1 .. Len(orgs) :
      /\ orgs[o].keys = 1
      /\ orgs[o].founder \in clashed \/ orgs[o].role[orgs[o].founder] = "owner"

(* In Postgres there is one organisation, and whoever was answered is a    *)
(* member of it, also after a crash half way through its provisioning.     *)
MembersOfOne ==
  unique => /\ Len(orgs) <= 1
            /\ \A s \in Sessions : At(s, "answered") => Len(orgs) = 1 /\ Role(s) # None

(* What a user who signs in may rely on.                                   *)
Membership == TypeOK /\ Provisioned /\ MembersOfOne
=============================================================================
