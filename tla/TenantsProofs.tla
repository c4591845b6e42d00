--------------------------- MODULE TenantsProofs ---------------------------
(* Proofs about the components of Tenants, for every number of users,      *)
(* requests, keys, rules and events.  They share no state, so each has an  *)
(* inductive invariant of its own.                                         *)
EXTENDS Tenants, NumberLemmas
-----------------------------------------------------------------------------
(* The organisation and its members.                                       *)

(* The inductive invariant.  Whoever is past the lookup has a row to write *)
(* to; of two requests of a user at a time the history knows.              *)
Rooted ==
  \A s \in Sessions :
    session[s].pc \in {"member", "join", "provisioned", "joinProvisioned", "own", "key"} =>
      session[s].org \in 1 .. Len(orgs)

Clashes ==
  \A s, t \in Live : UserOf[s] = UserOf[t] /\ s # t => UserOf[s] \in clashed

(* Until a crash, a row is in the making by one request of its founder, or *)
(* it is made; and a founder who never clashed is not made a member of it. *)
Makes(s, o) == (At(s, "own") \/ At(s, "key")) /\ session[s].org = o
Owned(o) == orgs[o].founder \in clashed \/ orgs[o].role[orgs[o].founder] = "owner"

Making(o) ==
  /\ \A s \in Sessions : Makes(s, o) =>
       /\ UserOf[s] = orgs[o].founder /\ orgs[o].keys = 0
       /\ At(s, "key") => Owned(o)
       /\ \A t \in Sessions : Makes(t, o) => s = t
  /\ (\A s \in Sessions : ~Makes(s, o)) => orgs[o].keys = 1 /\ Owned(o)
  /\ \A s \in Sessions :
       At(s, "join") /\ session[s].org = o /\ UserOf[s] = orgs[o].founder => orgs[o].founder \in clashed

(* In Postgres there is one row, for ever.                                 *)
One ==
  /\ Len(orgs) <= 1
  /\ \A s \in Sessions : At(s, "answered") \/ At(s, "key") => session[s].org = 1 /\ Len(orgs) = 1 /\ Role(s) # None

OrgInv ==
  /\ TypeOK /\ Rooted /\ Clashes
  /\ crashed = 0 => \A o \in 1 .. Len(orgs) : Making(o)
  /\ unique => One

Rows == [role : [Users -> Roles \cup {None}], keys : Nat, founder : Users]
Going == {"member", "join", "provision", "provisioned", "joinProvisioned", "insert", "own", "key"}
Places == [pc : {"idle"} \cup Going \cup Ended, org : Nat]

LEMMA OrgTyped ==
  TypeOK <=> /\ unique \in BOOLEAN /\ orgs \in Seq(Rows) /\ session \in [Sessions -> Places]
             /\ crashed \in Nat /\ clashed \subseteq Users
<1>1. Places = [pc : {"idle", "member", "join", "provision", "provisioned",
                      "joinProvisioned", "insert", "own", "key"} \cup Ended, org : Nat]
  BY DEF Places, Going
<1> QED  BY <1>1 DEF TypeOK, Rows

LEMMA OrgStart ==
  ASSUME ProvisioningAssumption, Init
  PROVE  OrgInv
<1>1. /\ unique \in BOOLEAN /\ orgs = <<>> /\ crashed = 0 /\ clashed = {}
      /\ session = [s \in Sessions |-> [pc |-> "idle", org |-> 0]]
  BY DEF Init
<1>2. orgs \in Seq(Rows) /\ Len(orgs) = 0  BY <1>1
<1>3. session \in [Sessions -> Places]  BY <1>1 DEF Places
<1>4. TypeOK  BY <1>1, <1>2, <1>3, OrgTyped
<1>5. \A s \in Sessions : session[s].pc = "idle"  BY <1>1
<1>6. Rooted /\ Clashes  BY <1>5 DEF Rooted, Clashes, Live
<1>7. \A o \in 1 .. Len(orgs) : Making(o)  BY <1>2
<1>8. One  BY <1>2, <1>5 DEF One, At
<1> QED  BY <1>4, <1>6, <1>7, <1>8 DEF OrgInv

(* A row of the organisation is written to, or one is added.               *)
LEMMA RowWritten ==
  ASSUME orgs \in Seq(Rows), NEW i \in 1 .. Len(orgs), NEW r \in Rows, orgs' = [orgs EXCEPT ![i] = r]
  PROVE  /\ orgs' \in Seq(Rows) /\ Len(orgs') = Len(orgs) /\ orgs'[i] = r
         /\ \A j \in 1 .. Len(orgs) \ {i} : orgs'[j] = orgs[j]
  OBVIOUS

LEMMA RowAdded ==
  ASSUME orgs \in Seq(Rows), NEW r \in Rows, orgs' = Append(orgs, r)
  PROVE  /\ orgs' \in Seq(Rows) /\ Len(orgs') = Len(orgs) + 1 /\ orgs'[Len(orgs) + 1] = r
         /\ \A j \in 1 .. Len(orgs) : orgs'[j] = orgs[j]
  OBVIOUS

(* Where a session is when it has moved on.                                *)
LEMMA SessionGoes ==
  ASSUME session \in [Sessions -> Places], NEW s \in Sessions, NEW pc \in Going \cup Ended, NEW o \in Nat,
         Goto(s, pc, o)
  PROVE  /\ session' \in [Sessions -> Places] /\ session'[s] = [pc |-> pc, org |-> o]
         /\ \A t \in Sessions \ {s} : session'[t] = session[t]
<1>1. [pc |-> pc, org |-> o] \in Places  BY DEF Places
<1> QED  BY <1>1 DEF Goto

(* Where there is one row, a session that has one has the first.           *)
LEMMA OneRow ==
  ASSUME TypeOK, Rooted, One, NEW s \in Sessions,
         session[s].pc \in {"member", "join", "provisioned", "joinProvisioned", "own", "key"}
  PROVE  session[s].org = 1 /\ Len(orgs) = 1
<1> DEFINE n == Len(orgs)
           o == session[s].org
<1>1. n \in Nat /\ n <= 1 /\ o \in 1 .. n  BY OrgTyped DEF Rooted, One
<1> HIDE DEF n, o
<1>2. o = 1 /\ n = 1  BY <1>1
<1> QED  BY <1>2 DEF n, o

(* A session moves on and writes nothing: it was let in, has looked the    *)
(* organisation or the member up, or its insertion failed.                 *)
LEMMA Looked ==
  ASSUME ProvisioningAssumption, OrgInv, NEW s \in Sessions,
         NEW pc \in {"member", "provision", "provisioned", "insert", "join", "joinProvisioned", "answered", "failed"},
         NEW o \in Nat, Goto(s, pc, o), UNCHANGED <<unique, orgs, crashed>>,
         session[s].pc \notin {"own", "key"},
         pc \in {"member", "provisioned", "join", "joinProvisioned"} => o \in 1 .. Len(orgs),
         clashed \subseteq clashed', clashed' \subseteq Users,
         \/ s \in Live
         \/ \A t \in Live : UserOf[t] = UserOf[s] /\ t # s => UserOf[s] \in clashed',
         pc = "join" => o = session[s].org /\ s \in Live /\ Role(s) = None,
         pc = "answered" => o = session[s].org /\ session[s].pc \in {"member", "provisioned"} /\ Role(s) # None
  PROVE  OrgInv'
<1> USE DEF At
<1>0. None \notin Roles /\ UserOf \in [Sessions -> Users]  BY DEF ProvisioningAssumption, Roles
<1>a. /\ unique \in BOOLEAN /\ orgs \in Seq(Rows) /\ session \in [Sessions -> Places]
      /\ crashed \in Nat /\ clashed \subseteq Users
  BY OrgTyped DEF OrgInv
<1>b. Rooted /\ Clashes  BY DEF OrgInv
<1>1. /\ session' \in [Sessions -> Places] /\ session'[s] = [pc |-> pc, org |-> o]
      /\ \A t \in Sessions \ {s} : session'[t] = session[t]
  <2>1. pc \in Going \cup Ended  BY DEF Going, Ended
  <2> QED  BY <1>a, <2>1, SessionGoes
<1>2. TypeOK'
  BY <1>a, <1>1, OrgTyped DEF TypeOK, Places, Going, Rows
<1>3. Rooted'  BY <1>b, <1>1 DEF Rooted
<1>4. \A t \in Live' : t = s \/ t \in Live  BY <1>1 DEF Live
<1>5. Clashes'
  <2>1. ASSUME NEW t \in Live', NEW v \in Live', UserOf[t] = UserOf[v], t # v PROVE UserOf[t] \in clashed'
    <3>1. CASE s \in Live  BY <1>4, <1>b, <2>1, <3>1 DEF Clashes
    <3>2. CASE s \notin Live
      <4>1. CASE t # s /\ v # s  BY <1>4, <1>b, <2>1, <4>1 DEF Clashes
      <4>2. CASE t = s \/ v = s  BY <1>4, <2>1, <3>2, <4>2
      <4> QED  BY <4>1, <4>2
    <3> QED  BY <3>1, <3>2
  <2> QED  BY <2>1 DEF Clashes
<1>6. ASSUME crashed' = 0, NEW k \in 1 .. Len(orgs) PROVE Making(k)'
  <2>1. Making(k)  BY <1>6 DEF OrgInv
  <2>2. \A t \in Sessions : Makes(t, k)' <=> Makes(t, k)  BY <1>1 DEF Makes
  <2>3. \A t \in Sessions : Makes(t, k) => t # s  BY DEF Makes
  <2>4. Owned(k) => Owned(k)'  BY DEF Owned
  <2>5. ASSUME NEW t \in Sessions, At(t, "join")', session'[t].org = k, UserOf[t] = orgs[k].founder
        PROVE  orgs[k].founder \in clashed'
    <3>1. CASE t # s  BY <1>1, <2>1, <2>5, <3>1 DEF Making
    <3>2. CASE t = s
      <4>1. pc = "join" /\ o = k /\ session[s].org = k /\ s \in Live /\ orgs[k].role[UserOf[s]] = None
        BY <1>1, <2>5, <3>2 DEF Role
      <4>2. CASE Owned(k)
        <5>1. orgs[k].role[orgs[k].founder] # "owner"  BY <1>0, <2>5, <3>2, <4>1 DEF Roles
        <5> QED  BY <4>2, <5>1 DEF Owned
      <4>3. CASE ~Owned(k)
        <5>1. PICK m \in Sessions : Makes(m, k)  BY <2>1, <4>3 DEF Making
        <5>2. UserOf[m] = orgs[k].founder /\ m # s  BY <2>1, <2>3, <5>1 DEF Making
        <5>3. m \in Live  BY <5>1 DEF Makes, Live, Ended
        <5> QED  BY <1>b, <2>5, <3>2, <4>1, <5>2, <5>3 DEF Clashes
      <4> QED  BY <4>2, <4>3
    <3> QED  BY <3>1, <3>2
  <2>6. \A t \in Sessions : At(t, "key")' => At(t, "key")  BY <1>1
  <2> HIDE DEF Makes, Owned
  <2> QED  BY <2>1, <2>2, <2>4, <2>5, <2>6 DEF Making
<1>7. ASSUME unique' PROVE One'
  <2>1. One  BY <1>7 DEF OrgInv
  <2>2. ASSUME NEW t \in Sessions, At(t, "answered")' \/ At(t, "key")'
        PROVE  session'[t].org = 1 /\ Len(orgs') = 1 /\ Role(t)' # None
    <3>1. CASE t # s
      <4>1. session'[t] = session[t] /\ session[t].org = 1 /\ Len(orgs) = 1 /\ Role(t) # None
        BY <1>1, <2>1, <2>2, <3>1 DEF One
      <4> QED  BY <4>1 DEF Role
    <3>2. CASE t = s
      <4>1. pc = "answered" /\ o = session[s].org /\ session[s].pc \in {"member", "provisioned"} /\ Role(s) # None
        BY <1>1, <2>2, <3>2
      <4>2. session[s].org = 1 /\ Len(orgs) = 1  BY <2>1, <4>1, OneRow DEF OrgInv
      <4>3. session'[t].org = session[s].org  BY <1>1, <3>2, <4>1
      <4> QED  BY <3>2, <4>1, <4>2, <4>3 DEF Role
    <3> QED  BY <3>1, <3>2
  <2> QED  BY <2>1, <2>2 DEF One
<1>8. crashed' = 0 => \A k \in 1 .. Len(orgs') : Making(k)'  BY <1>6
<1> QED  BY <1>2, <1>3, <1>5, <1>7, <1>8 DEF OrgInv

(* upsertMembership().                                                     *)
LEMMA Upserted ==
  ASSUME ProvisioningAssumption, OrgInv, NEW s \in Sessions,
         NEW pc \in {"join", "joinProvisioned", "own"}, NEW role \in Roles, NEW next \in {"answered", "key"},
         Upsert(s, pc, role, next),
         pc = "own" <=> next = "key", pc # "join" => role = "owner"
  PROVE  OrgInv'
<1> USE DEF At
<1>0. None \notin Roles /\ UserOf \in [Sessions -> Users]  BY DEF ProvisioningAssumption, Roles
<1>a. /\ unique \in BOOLEAN /\ orgs \in Seq(Rows) /\ session \in [Sessions -> Places]
      /\ crashed \in Nat /\ clashed \subseteq Users
  BY OrgTyped DEF OrgInv
<1>b. Rooted /\ Clashes  BY DEF OrgInv
<1> PICK o : o = session[s].org  OBVIOUS
<1> PICK u : u = UserOf[s]  OBVIOUS
<1>c. /\ session[s].pc = pc /\ Goto(s, next, o) /\ UNCHANGED <<unique, crashed, clashed>>
      /\ o \in 1 .. Len(orgs) /\ u \in Users /\ s \in Live /\ o \in Nat
  BY <1>0, <1>a, <1>b DEF Upsert, Rooted, Live, Ended, Places
<1>1. /\ session' \in [Sessions -> Places] /\ session'[s] = [pc |-> next, org |-> o]
      /\ \A t \in Sessions \ {s} : session'[t] = session[t]
  <2>1. next \in Going \cup Ended  BY DEF Going, Ended
  <2> QED  BY <1>a, <1>c, <2>1, SessionGoes
<1> DEFINE r == [orgs[o] EXCEPT !.role[u] = role]
<1>2. /\ orgs[o] \in Rows /\ r \in Rows /\ r.role[u] = role /\ \A v \in Users \ {u} : r.role[v] = orgs[o].role[v]
      /\ r.keys = orgs[o].keys /\ r.founder = orgs[o].founder
  <2>1. orgs[o] \in Rows  BY <1>a, <1>c
  <2> QED  BY <1>c, <2>1 DEF Rows
<1>3. orgs' = [orgs EXCEPT ![o] = r]  BY DEF Upsert
<1> HIDE DEF r
<1>4. /\ orgs' \in Seq(Rows) /\ Len(orgs') = Len(orgs) /\ orgs'[o] = r
      /\ \A j \in 1 .. Len(orgs) \ {o} : orgs'[j] = orgs[j]
  BY <1>a, <1>c, <1>2, <1>3, RowWritten
<1>5. TypeOK'
  BY <1>a, <1>c, <1>1, <1>4 DEF TypeOK, Places, Going, Rows
<1>6. Rooted'  BY <1>b, <1>c, <1>1, <1>4 DEF Rooted
<1>7. Clashes'
  <2>1. Live' \subseteq Live  BY <1>c, <1>1 DEF Live
  <2> QED  BY <1>b, <1>c, <2>1 DEF Clashes
<1>8. \A k \in 1 .. Len(orgs), v \in Users : \/ orgs'[k].role[v] = orgs[k].role[v]
                                             \/ k = o /\ v = u /\ orgs'[k].role[v] = role
  BY <1>2, <1>4
<1>9. \A k \in 1 .. Len(orgs) : orgs'[k].keys = orgs[k].keys /\ orgs'[k].founder = orgs[k].founder
  BY <1>2, <1>4
<1>10. ASSUME crashed' = 0, NEW k \in 1 .. Len(orgs) PROVE Making(k)'
  <2>1. Making(k)  BY <1>c, <1>10 DEF OrgInv
  <2>2. \A t \in Sessions : Makes(t, k)' <=> Makes(t, k)  BY <1>c, <1>1 DEF Makes
  <2>r. orgs[k] \in Rows  BY <1>a, <1>10
  <2>f. orgs[k].founder \in Users  BY <2>r DEF Rows
  <2>3. Owned(k) => Owned(k)'
    <3>1. CASE o = k /\ u = orgs[k].founder /\ pc = "join"
      <4>1. orgs[k].founder \in clashed  BY <1>c, <2>1, <3>1 DEF Making
      <4> QED  BY <1>c, <1>9, <4>1 DEF Owned
    <3>2. CASE ~(o = k /\ u = orgs[k].founder /\ pc = "join")
      <4>1. orgs[k].role[orgs[k].founder] = "owner" => orgs'[k].role[orgs[k].founder] = "owner"
        BY <1>8, <2>f, <3>2
      <4> QED  BY <1>c, <1>9, <4>1 DEF Owned
    <3> QED  BY <3>1, <3>2
  <2>4. ASSUME NEW t \in Sessions, Makes(t, k)', At(t, "key")' PROVE Owned(k)'
    <3>1. CASE t # s
      <4>1. Makes(t, k) /\ At(t, "key")  BY <1>1, <2>2, <2>4, <3>1
      <4>2. Owned(k)  BY <2>1, <4>1 DEF Making
      <4> QED  BY <2>3, <4>2
    <3>2. CASE t = s
      <4>1. pc = "own" /\ o = k  BY <1>1, <2>4, <3>2 DEF Makes
      <4>2. Makes(s, k)  BY <1>c, <4>1 DEF Makes
      <4>3. u = orgs[k].founder  BY <2>1, <4>2 DEF Making
      <4>4. orgs'[k].role[orgs'[k].founder] = "owner"  BY <1>2, <1>4, <1>9, <4>1, <4>3
      <4> QED  BY <4>4 DEF Owned
    <3> QED  BY <3>1, <3>2
  <2>5. \A t \in Sessions : At(t, "join")' => At(t, "join") /\ session'[t] = session[t]  BY <1>1
  <2> HIDE DEF Makes, Owned, At
  <2>6. \A t \in Sessions : At(t, "join")' /\ session'[t].org = k /\ UserOf[t] = orgs'[k].founder
          => orgs'[k].founder \in clashed'
    BY <1>c, <1>9, <2>1, <2>5 DEF Making
  <2>7. \A t \in Sessions : Makes(t, k)' =>
          UserOf[t] = orgs'[k].founder /\ orgs'[k].keys = 0 /\ \A w \in Sessions : Makes(w, k)' => t = w
    BY <1>9, <2>1, <2>2 DEF Making
  <2>8. (\A t \in Sessions : ~Makes(t, k)') => orgs'[k].keys = 1 /\ Owned(k)'
    BY <1>9, <2>1, <2>2, <2>3 DEF Making
  <2> QED  BY <2>4, <2>6, <2>7, <2>8 DEF Making
<1>11. ASSUME unique' PROVE One'
  <2>1. One  BY <1>c, <1>11 DEF OrgInv
  <2>2. o = 1 /\ Len(orgs) = 1  BY <1>c, <2>1, OneRow DEF OrgInv
  <2>3. ASSUME NEW t \in Sessions, At(t, "answered")' \/ At(t, "key")'
        PROVE  session'[t].org = 1 /\ Len(orgs') = 1 /\ Role(t)' # None
    <3>1. CASE t # s
      <4>1. session'[t] = session[t] /\ session[t].org = 1 /\ Role(t) # None
        BY <1>1, <2>1, <2>3, <3>1 DEF One
      <4>2. orgs'[1].role[UserOf[t]] # None
        <5>1. orgs[1].role[UserOf[t]] # None /\ UserOf[t] \in Users /\ 1 \in 1 .. Len(orgs)
          BY <1>0, <2>2, <4>1 DEF Role
        <5> QED  BY <1>0, <1>8, <5>1
      <4> QED  BY <1>4, <2>2, <4>1, <4>2 DEF Role
    <3>2. CASE t = s
      <4>1. orgs'[1].role[u] = role  BY <1>2, <1>4, <2>2
      <4> QED  BY <1>0, <1>1, <1>4, <2>2, <3>2, <4>1 DEF Role
    <3> QED  BY <3>1, <3>2
  <2> QED  BY <1>4, <2>1, <2>3 DEF One
<1>12. crashed' = 0 => \A k \in 1 .. Len(orgs') : Making(k)'  BY <1>4, <1>10
<1> QED  BY <1>5, <1>6, <1>7, <1>11, <1>12 DEF OrgInv

(* insertOrg() adds the row.                                               *)
LEMMA RowInserted ==
  ASSUME ProvisioningAssumption, OrgInv, NEW s \in Sessions, At(s, "insert"), ~(unique /\ orgs # <<>>),
         orgs' = Append(orgs, [role |-> [u \in Users |-> None], keys |-> 0, founder |-> UserOf[s]]),
         Goto(s, "own", Len(orgs) + 1), UNCHANGED <<unique, crashed, clashed>>
  PROVE  OrgInv'
<1> USE DEF At
<1>0. None \notin Roles /\ UserOf \in [Sessions -> Users]  BY DEF ProvisioningAssumption, Roles
<1>a. /\ unique \in BOOLEAN /\ orgs \in Seq(Rows) /\ session \in [Sessions -> Places]
      /\ crashed \in Nat /\ clashed \subseteq Users
  BY OrgTyped DEF OrgInv
<1>b. Rooted /\ Clashes  BY DEF OrgInv
<1> DEFINE r == [role |-> [u \in Users |-> None], keys |-> 0, founder |-> UserOf[s]]
<1>1. r \in Rows /\ r.keys = 0 /\ r.founder = UserOf[s]  BY <1>0 DEF Rows
<1>2. orgs' = Append(orgs, r)  OBVIOUS
<1> HIDE DEF r
<1> PICK n : n = Len(orgs)  OBVIOUS
<1>3. n \in Nat /\ n + 1 \in Nat  BY <1>a
<1>4. /\ orgs' \in Seq(Rows) /\ Len(orgs') = n + 1 /\ orgs'[n + 1] = r
      /\ \A j \in 1 .. n : orgs'[j] = orgs[j]
  BY <1>a, <1>1, <1>2, RowAdded
<1>5. /\ session' \in [Sessions -> Places] /\ session'[s] = [pc |-> "own", org |-> n + 1]
      /\ \A t \in Sessions \ {s} : session'[t] = session[t]
  <2>1. "own" \in Going \cup Ended  BY DEF Going
  <2> QED  BY <1>a, <1>3, <2>1, SessionGoes
<1>6. TypeOK'
  BY <1>a, <1>4, <1>5, OrgTyped DEF TypeOK, Places, Going, Rows
<1>7. Rooted'
  <2>1. \A i \in 1 .. n : i \in 1 .. n + 1  BY <1>3
  <2>2. n + 1 \in 1 .. n + 1  BY <1>3
  <2> QED  BY <1>b, <1>4, <1>5, <2>1, <2>2 DEF Rooted
<1>8. Clashes'
  <2>1. Live' = Live  BY <1>5 DEF Live, Ended
  <2> QED  BY <1>b, <2>1 DEF Clashes
<1>9. ASSUME crashed' = 0, NEW k \in 1 .. n + 1 PROVE Making(k)'
  <2>1. CASE k = n + 1
    <3>1. ASSUME NEW t \in Sessions, t # s PROVE session'[t].org # k \/ ~(session'[t].pc \in {"own", "key", "join"})
      <4>1. ASSUME session[t].pc \in {"own", "key", "join"} PROVE session[t].org # k
        <5>1. session[t].org \in 1 .. n  BY <1>b, <4>1 DEF Rooted
        <5> QED  BY <1>3, <2>1, <5>1
      <4> QED  BY <1>5, <3>1, <4>1
    <3>2. Makes(s, k)' /\ ~(At(s, "key") \/ At(s, "join"))'  BY <1>5, <2>1 DEF Makes
    <3>3. \A t \in Sessions : Makes(t, k)' => t = s  BY <3>1 DEF Makes
    <3>4. orgs'[k].founder = UserOf[s] /\ orgs'[k].keys = 0  BY <1>1, <1>4, <2>1
    <3>5. \A t \in Sessions : ~(At(t, "join") /\ session[t].org = k)'  BY <3>1, <3>2
    <3>6. \A t \in Sessions : Makes(t, k)' => ~At(t, "key")'  BY <3>2, <3>3
    <3> HIDE DEF Makes, At
    <3> QED  BY <3>2, <3>3, <3>4, <3>5, <3>6 DEF Making
  <2>2. CASE k # n + 1
    <3>0. k \in 1 .. n  BY <1>3, <1>9, <2>2
    <3>1. Making(k)  BY <1>9, <3>0 DEF OrgInv
    <3>2. \A t \in Sessions : Makes(t, k)' <=> Makes(t, k)  BY <1>5, <2>2 DEF Makes
    <3>3. orgs'[k] = orgs[k]  BY <1>4, <3>0
    <3>4. Owned(k)' <=> Owned(k)  BY <3>3 DEF Owned
    <3>5. \A t \in Sessions : /\ At(t, "key")' => At(t, "key")
                              /\ At(t, "join")' => At(t, "join") /\ session'[t] = session[t]
      BY <1>5
    <3> HIDE DEF Makes, Owned, At
    <3> QED  BY <3>1, <3>2, <3>3, <3>4, <3>5 DEF Making
  <2> QED  BY <2>1, <2>2
<1>10. ASSUME unique' PROVE One'
  <2>1. One /\ n = 0  BY <1>a, <1>10 DEF OrgInv
  <2>2. \A t \in Sessions : ~(At(t, "answered") \/ At(t, "key"))'  BY <1>5, <2>1 DEF One
  <2>3. Len(orgs') <= 1  BY <1>4, <2>1
  <2> QED  BY <2>2, <2>3 DEF One
<1> HIDE DEF At
<1>11. crashed' = 0 => \A k \in 1 .. Len(orgs') : Making(k)'  BY <1>4, <1>9
<1> QED  BY <1>6, <1>7, <1>8, <1>10, <1>11 DEF OrgInv

(* insertApiKey() makes the first key.                                     *)
LEMMA KeyInserted ==
  ASSUME ProvisioningAssumption, OrgInv, NEW s \in Sessions, InsertKey(s)
  PROVE  OrgInv'
<1> USE DEF At
<1>0. None \notin Roles /\ UserOf \in [Sessions -> Users]  BY DEF ProvisioningAssumption, Roles
<1>a. /\ unique \in BOOLEAN /\ orgs \in Seq(Rows) /\ session \in [Sessions -> Places]
      /\ crashed \in Nat /\ clashed \subseteq Users
  BY OrgTyped DEF OrgInv
<1>b. Rooted /\ Clashes  BY DEF OrgInv
<1> PICK o : o = session[s].org  OBVIOUS
<1>c. /\ session[s].pc = "key" /\ Goto(s, "answered", o) /\ UNCHANGED <<unique, crashed, clashed>>
      /\ o \in 1 .. Len(orgs) /\ o \in Nat
  BY <1>a, <1>b DEF InsertKey, Rooted, Places
<1>1. /\ session' \in [Sessions -> Places] /\ session'[s] = [pc |-> "answered", org |-> o]
      /\ \A t \in Sessions \ {s} : session'[t] = session[t]
  <2>1. "answered" \in Going \cup Ended  BY DEF Ended
  <2> QED  BY <1>a, <1>c, <2>1, SessionGoes
<1> DEFINE r == [orgs[o] EXCEPT !.keys = @ + 1]
<1>2. r \in Rows /\ r.keys = orgs[o].keys + 1 /\ r.founder = orgs[o].founder /\ r.role = orgs[o].role
  <2>1. orgs[o] \in Rows  BY <1>a, <1>c
  <2> QED  BY <2>1 DEF Rows
<1>3. orgs' = [orgs EXCEPT ![o] = r]  BY DEF InsertKey
<1> HIDE DEF r
<1>4. /\ orgs' \in Seq(Rows) /\ Len(orgs') = Len(orgs) /\ orgs'[o] = r
      /\ \A j \in 1 .. Len(orgs) \ {o} : orgs'[j] = orgs[j]
  BY <1>a, <1>c, <1>2, <1>3, RowWritten
<1>5. TypeOK'
  BY <1>a, <1>c, <1>1, <1>4 DEF TypeOK, Places, Going, Rows
<1>6. Rooted'  BY <1>b, <1>c, <1>1, <1>4 DEF Rooted
<1>7. Clashes'
  <2>1. Live' \subseteq Live  BY <1>c, <1>1 DEF Live, Ended
  <2> QED  BY <1>b, <1>c, <2>1 DEF Clashes
<1>8. \A k \in 1 .. Len(orgs) : orgs'[k].founder = orgs[k].founder /\ orgs'[k].role = orgs[k].role
  BY <1>2, <1>4
<1>9. ASSUME crashed' = 0, NEW k \in 1 .. Len(orgs) PROVE Making(k)'
  <2>1. Making(k)  BY <1>c, <1>9 DEF OrgInv
  <2>2. \A t \in Sessions : Makes(t, k)' <=> t # s /\ Makes(t, k)  BY <1>1 DEF Makes
  <2>3. Owned(k)' <=> Owned(k)  BY <1>c, <1>8 DEF Owned
  <2>4. \A t \in Sessions : /\ t # s /\ At(t, "key")' => At(t, "key")
                            /\ At(t, "join")' => At(t, "join") /\ session'[t] = session[t]
    BY <1>1
  <2>5. CASE k = o
    <3>1. Makes(s, k) /\ At(s, "key")  BY <1>c, <2>5 DEF Makes
    <3>2. orgs[k].keys = 0 /\ Owned(k) /\ \A t \in Sessions : Makes(t, k) => s = t  BY <2>1, <3>1 DEF Making
    <3>3. orgs'[k].keys = 1  BY <1>2, <1>4, <2>5, <3>2
    <3>4. \A t \in Sessions : ~Makes(t, k)'  BY <2>2, <3>2
    <3> HIDE DEF Makes, Owned, At
    <3> QED  BY <1>c, <1>8, <2>1, <2>3, <2>4, <3>2, <3>3, <3>4 DEF Making
  <2>6. CASE k # o
    <3>1. orgs'[k] = orgs[k] /\ ~Makes(s, k)  BY <1>c, <1>4, <2>6 DEF Makes
    <3> HIDE DEF Makes, Owned, At
    <3> QED  BY <1>c, <2>1, <2>2, <2>3, <2>4, <3>1 DEF Making
  <2> QED  BY <2>5, <2>6
<1>10. ASSUME unique' PROVE One'
  <2>1. One  BY <1>c, <1>10 DEF OrgInv
  <2>2. ASSUME NEW t \in Sessions, At(t, "answered")' \/ At(t, "key")'
        PROVE  session'[t].org = 1 /\ Len(orgs') = 1 /\ Role(t)' # None
    <3>1. session'[t].org = session[t].org /\ (At(t, "answered") \/ At(t, "key"))  BY <1>1, <1>c, <2>2
    <3>2. session[t].org = 1 /\ Len(orgs) = 1 /\ Role(t) # None  BY <2>1, <3>1 DEF One
    <3>3. 1 \in 1 .. Len(orgs)  BY <3>2
    <3> QED  BY <1>4, <1>8, <3>1, <3>2, <3>3 DEF Role
  <2> QED  BY <1>4, <2>1, <2>2 DEF One
<1> HIDE DEF At
<1>11. crashed' = 0 => \A k \in 1 .. Len(orgs') : Making(k)'  BY <1>4, <1>9
<1> QED  BY <1>5, <1>6, <1>7, <1>10, <1>11 DEF OrgInv

(* The process dies.                                                       *)
LEMMA OrgCrash ==
  ASSUME ProvisioningAssumption, OrgInv, Crash
  PROVE  OrgInv'
<1> USE DEF At
<1>a. /\ unique \in BOOLEAN /\ orgs \in Seq(Rows) /\ session \in [Sessions -> Places]
      /\ crashed \in Nat /\ clashed \subseteq Users
  BY OrgTyped DEF OrgInv
<1>b. Rooted  BY DEF OrgInv
<1>1. \A s \in Sessions : session'[s] = IF s \in Live THEN [session[s] EXCEPT !.pc = "failed"] ELSE session[s]
  BY DEF Crash
<1>2. session' \in [Sessions -> Places]
  <2>1. \A s \in Sessions : [session[s] EXCEPT !.pc = "failed"] \in Places  BY <1>a DEF Places, Ended
  <2> QED  BY <1>a, <2>1 DEF Crash
<1>3. \A s \in Sessions : session'[s].pc \in {"idle"} \cup Ended
  <2> TAKE s \in Sessions
  <2>1. CASE s \in Live  BY <1>1, <1>a, <2>1 DEF Places, Ended
  <2>2. CASE s \notin Live  BY <1>1, <2>2 DEF Live
  <2> QED  BY <2>1, <2>2
<1>4. orgs' \in Seq(Rows) /\ crashed' \in Nat /\ crashed' # 0 /\ unique' = unique /\ clashed' = clashed
  BY <1>a DEF Crash
<1>5. TypeOK'  BY <1>a, <1>2, <1>4 DEF TypeOK, Places, Going, Rows
<1>6. Rooted'  BY <1>3 DEF Rooted, Ended
<1>7. Clashes'  BY <1>3 DEF Clashes, Live
<1>8. ASSUME unique' PROVE One'
  <2>1. One /\ orgs' = orgs  BY <1>4, <1>8 DEF OrgInv, Crash
  <2>2. ASSUME NEW t \in Sessions, At(t, "answered")' \/ At(t, "key")'
        PROVE  session'[t].org = 1 /\ Len(orgs') = 1 /\ Role(t)' # None
    <3>1. At(t, "answered")'  BY <1>3, <2>2 DEF Ended
    <3>2. CASE t \in Live
      <4>1. session'[t].pc = "failed"  BY <1>1, <1>a, <3>2 DEF Places
      <4> QED  BY <3>1, <4>1
    <3>3. CASE t \notin Live
      <4>1. session'[t] = session[t]  BY <1>1, <3>3
      <4> QED  BY <2>1, <2>2, <4>1 DEF One, Role
    <3> QED  BY <3>2, <3>3
  <2> QED  BY <2>1, <2>2 DEF One
<1> QED  BY <1>4, <1>5, <1>6, <1>7, <1>8 DEF OrgInv

(* Every step of the API preserves it.                                     *)
LEMMA OrgStep ==
  ASSUME ProvisioningAssumption, OrgInv, [Next]_provisioningVars
  PROVE  OrgInv'
<1>0. None \notin Roles /\ UserOf \in [Sessions -> Users]  BY DEF ProvisioningAssumption, Roles
<1>a. /\ unique \in BOOLEAN /\ orgs \in Seq(Rows) /\ session \in [Sessions -> Places]
      /\ crashed \in Nat /\ clashed \subseteq Users
  BY OrgTyped DEF OrgInv
<1>b. Rooted  BY DEF OrgInv
<1>c. orgs # <<>> => 1 \in 1 .. Len(orgs)  BY <1>a
<1>d. 0 \in Nat /\ 1 \in Nat  OBVIOUS
<1>1. ASSUME NEW s \in Sessions, NEW present, NEW absent, Arrive(s), Found(s, present, absent),
             present \in {"member", "provisioned"}, absent \in {"provision", "insert"}
      PROVE  OrgInv'
  <2>1. /\ session[s].pc \notin {"own", "key"} /\ UNCHANGED <<unique, orgs, crashed>> /\ clashed \subseteq clashed'
        /\ clashed' \subseteq Users
    BY <1>0, <1>a, <1>1 DEF Arrive, At
  <2>2. \A t \in Live : UserOf[t] = UserOf[s] /\ t # s => UserOf[s] \in clashed'
    BY <1>1 DEF Arrive
  <2>3. \E pc \in {present, absent}, o \in {0, 1} :
          Goto(s, pc, o) /\ (pc = present => o = 1 /\ orgs # <<>>)
    BY <1>1 DEF Found
  <2>4. PICK pc \in {present, absent}, o \in {0, 1} :
          Goto(s, pc, o) /\ (pc = present => o = 1 /\ orgs # <<>>)
    BY <2>3
  <2>5. pc \in {"member", "provisioned"} => o \in 1 .. Len(orgs)  BY <1>1, <1>c, <2>4
  <2>6. pc \in {"member", "provision", "provisioned", "insert"} /\ o \in Nat  BY <1>1, <1>d
  <2> QED  BY <2>1, <2>2, <2>4, <2>5, <2>6, Looked
<1>2. ASSUME NEW s \in Sessions, NEW pc, NEW absent, LookUp(s, pc, absent),
             <<pc, absent>> \in {<<"member", "join">>, <<"provisioned", "joinProvisioned">>}
      PROVE  OrgInv'
  <2>1. session[s].pc \in {"member", "provisioned"} /\ s \in Live
    BY <1>2 DEF LookUp, At, Live, Ended
  <2>2. session[s].org \in 1 .. Len(orgs) /\ session[s].org \in Nat  BY <1>a, <1>b, <2>1 DEF Rooted, Places
  <2>3. absent \in {"join", "joinProvisioned"}  BY <1>2
  <2>4. CASE Role(s) = None
    <3>1. Goto(s, absent, session[s].org) /\ UNCHANGED <<unique, orgs, crashed, clashed>>  BY <1>2, <2>4 DEF LookUp
    <3> QED  BY <1>a, <2>1, <2>2, <2>3, <2>4, <3>1, Looked
  <2>5. CASE Role(s) # None
    <3>1. Goto(s, "answered", session[s].org) /\ UNCHANGED <<unique, orgs, crashed, clashed>>  BY <1>2, <2>5 DEF LookUp
    <3> QED  BY <1>a, <2>1, <2>2, <2>5, <3>1, Looked
  <2> QED  BY <2>4, <2>5
<1>3. ASSUME NEW s \in Sessions, Provision(s)  PROVE OrgInv'
  <2>1. session[s].pc = "provision" /\ s \in Live /\ UNCHANGED <<unique, orgs, crashed, clashed>>
    BY <1>3 DEF Provision, At, Live, Ended
  <2>2. CASE orgs = <<>>
    <3>1. Goto(s, "insert", 0)  BY <1>3, <2>2 DEF Provision, Found
    <3> QED  BY <1>a, <1>d, <2>1, <3>1, Looked
  <2>3. CASE orgs # <<>>
    <3>1. Goto(s, "provisioned", 1)  BY <1>3, <2>3 DEF Provision, Found
    <3> QED  BY <1>a, <1>c, <1>d, <2>1, <2>3, <3>1, Looked
  <2> QED  BY <2>2, <2>3
<1>4. ASSUME NEW s \in Sessions, InsertOrg(s)  PROVE OrgInv'
  <2>1. session[s].pc = "insert" /\ At(s, "insert") /\ s \in Live /\ UNCHANGED <<unique, crashed, clashed>>
    BY <1>4 DEF InsertOrg, At, Live, Ended
  <2>2. CASE unique /\ orgs # <<>>
    <3>1. Goto(s, "failed", 0) /\ UNCHANGED orgs  BY <1>4, <2>2 DEF InsertOrg
    <3> QED  BY <1>a, <1>d, <2>1, <3>1, Looked
  <2>3. CASE ~(unique /\ orgs # <<>>)
    <3>1. /\ orgs' = Append(orgs, [role |-> [u \in Users |-> None], keys |-> 0, founder |-> UserOf[s]])
          /\ Goto(s, "own", Len(orgs) + 1)
      BY <1>4, <2>3 DEF InsertOrg
    <3> QED  BY <2>1, <2>3, <3>1, RowInserted
  <2> QED  BY <2>2, <2>3
<1>5. ASSUME NEW s \in Sessions, Step(s)  PROVE OrgInv'
  <2>1. CASE Authenticate(s)  BY <1>1, <2>1 DEF Authenticate
  <2>2. CASE RequestProvision(s)  BY <1>1, <2>2 DEF RequestProvision
  <2>3. CASE GetMember(s)  BY <1>2, <2>3 DEF GetMember
  <2>4. CASE GetProvisioned(s)  BY <1>2, <2>4 DEF GetProvisioned
  <2>5. CASE Join(s)  BY <2>5, Upserted DEF Join, Roles
  <2>6. CASE JoinProvisioned(s)  BY <2>6, Upserted DEF JoinProvisioned, Roles
  <2>7. CASE Own(s)  BY <2>7, Upserted DEF Own, Roles
  <2> QED  BY <1>3, <1>4, <1>5, <2>1, <2>2, <2>3, <2>4, <2>5, <2>6, <2>7, KeyInserted DEF Step
<1>6. ASSUME UNCHANGED provisioningVars  PROVE OrgInv'
  BY <1>6 DEF provisioningVars, OrgInv, TypeOK, Rooted, Clashes, Live, Making, Makes, Owned, One, At, Role
<1> QED  BY <1>5, <1>6, OrgCrash DEF Next

LEMMA OrgSettled ==
  ASSUME OrgInv
  PROVE  Membership
<1>1. Provisioned
  <2>1. SUFFICES ASSUME Live = {}, crashed = 0, NEW o \in 1 .. Len(orgs)
                 PROVE  orgs[o].keys = 1 /\ Owned(o)
    BY DEF Provisioned, Owned
  <2>2. \A s \in Sessions : ~Makes(s, o)  BY <2>1 DEF Makes, At, Live, Ended
  <2> QED  BY <2>1, <2>2 DEF OrgInv, Making
<1>2. MembersOfOne  BY DEF MembersOfOne, OrgInv, One
<1> QED  BY <1>1, <1>2 DEF Membership, OrgInv

(* Whoever founds an organisation owns it, each has its one first key, and *)
(* in Postgres whoever was answered is a member of the only one, also      *)
(* after a crash half way: provisionOrg() and authenticateDashboard().     *)
THEOREM MembersHold ==
  ASSUME ProvisioningAssumption
  PROVE  Spec => []Membership
<1>1. Init => OrgInv  BY OrgStart
<1>2. OrgInv /\ [Next]_provisioningVars => OrgInv'  BY OrgStep
<1>3. OrgInv => Membership  BY OrgSettled
<1> QED  BY <1>1, <1>2, <1>3, PTL DEF Spec
-----------------------------------------------------------------------------
(* The first visits.                                                       *)

Tabs ==
  [pc : {"closed", "loading", "open", "provisioning", "seed", "insert", "settle"},
   request : Sessions \cup {None}, made : BOOLEAN,
   told : {"nothing", "actions", "key", "exists", "error"}, sample : 0 .. Samples]

(* The users of whom a request makes the organisation, or who have or had  *)
(* its key on their page: in Postgres one, once the organisation is there. *)
Winners ==
  {UserOf[s] : s \in {t \in Sessions : At(t, "own") \/ At(t, "key")}}
    \cup {u \in Users : tab[u].made} \cup handed

OneWinner ==
  unique => /\ \A u, v \in Winners : u = v
            /\ orgs = <<>> => Winners = {}

(* A pending sample is of a tab between its insertion and its transition,  *)
(* or of one that was when the API died.                                   *)
Accounted(pending, n, c) == n <= pending /\ pending <= n + c * Cardinality(Users)

TabsTyped ==
  /\ tab \in [Users -> Tabs]
  /\ \A u \in Users : tab[u].request = None \/ UserOf[tab[u].request] = u
  /\ samples \in [pending : Nat, settled : Nat] /\ handed \subseteq Users

VisitInv ==
  /\ OrgInv /\ TabsTyped /\ OneWinner
  /\ Accounted(samples.pending, Cardinality(Seeding), crashed)

LEMMA VisitStart ==
  ASSUME ProvisioningAssumption, InitPage
  PROVE  VisitInv
<1>1. OrgInv  BY OrgStart DEF InitPage
<1>2. /\ tab = [u \in Users |-> Closed] /\ samples = [pending |-> 0, settled |-> 0] /\ handed = {}
  BY DEF InitPage, InitTab
<1>3. Closed \in Tabs /\ Closed.request = None /\ ~Closed.made /\ Closed.pc = "closed"
  BY DEF Closed, Tabs, Samples
<1>4. TabsTyped  BY <1>2, <1>3 DEF TabsTyped
<1>5. Winners = {}  BY <1>2, <1>3 DEF InitPage, Init, Winners, At
<1>6. Seeding = {}  BY <1>2, <1>3 DEF Seeding, InTab
<1>7. crashed = 0 /\ Cardinality(Users) \in Nat
  BY FS_CardinalityType DEF InitPage, Init, ProvisioningAssumption
<1>8. Accounted(samples.pending, Cardinality(Seeding), crashed)  BY <1>2, <1>6, <1>7, FS_EmptySet DEF Accounted
<1> QED  BY <1>1, <1>4, <1>5, <1>8 DEF VisitInv, OneWinner

(* Nobody wins any more.                                                   *)
LEMMA WinnersStay ==
  ASSUME OneWinner, unique' = unique, unique /\ orgs' = <<>> => orgs = <<>>,
         \A s \in Sessions : (At(s, "own") \/ At(s, "key"))' => UserOf[s] \in Winners,
         \A u \in Users : tab'[u].made => u \in Winners, handed' \subseteq Winners
  PROVE  OneWinner'
<1>1. Winners' \subseteq Winners  BY DEF Winners
<1> HIDE DEF Winners
<1> QED  BY <1>1 DEF OneWinner

(* What a step of the API does to the requests that make the organisation. *)
LEMMA WinnersAre ==
  ASSUME NEW s \in Sessions, At(s, "own") \/ At(s, "key")
  PROVE  UserOf[s] \in Winners
BY DEF Winners

LEMMA StepsOn ==
  ASSUME ProvisioningAssumption, OrgInv, NEW s \in Sessions, Step(s), ~InsertOrg(s)
  PROVE  /\ \A t \in Sessions : (At(t, "own") \/ At(t, "key"))' => At(t, "own") \/ At(t, "key")
         /\ crashed' = crashed /\ unique' = unique /\ (orgs' = <<>> => orgs = <<>>)
<1>a. orgs \in Seq(Rows) /\ session \in [Sessions -> Places]  BY OrgTyped DEF OrgInv
<1>1. ASSUME NEW pc, NEW o, Goto(s, pc, o), pc \in {"own", "key"} => At(s, "own") \/ At(s, "key")
      PROVE  \A t \in Sessions : (At(t, "own") \/ At(t, "key"))' => At(t, "own") \/ At(t, "key")
  BY <1>a, <1>1 DEF Goto, At
<1>2. ASSUME NEW present, NEW absent, Found(s, present, absent), {present, absent} \cap {"own", "key"} = {}
      PROVE  \A t \in Sessions : (At(t, "own") \/ At(t, "key"))' => At(t, "own") \/ At(t, "key")
  BY <1>1, <1>2 DEF Found
<1>3. ASSUME NEW pc, NEW absent, LookUp(s, pc, absent), absent \notin {"own", "key"}
      PROVE  /\ \A t \in Sessions : (At(t, "own") \/ At(t, "key"))' => At(t, "own") \/ At(t, "key")
             /\ crashed' = crashed /\ unique' = unique /\ orgs' = orgs
  BY <1>1, <1>3 DEF LookUp
<1>4. ASSUME NEW pc, NEW role, NEW next, Upsert(s, pc, role, next), next \in {"own", "key"} => pc = "own"
      PROVE  /\ \A t \in Sessions : (At(t, "own") \/ At(t, "key"))' => At(t, "own") \/ At(t, "key")
             /\ crashed' = crashed /\ unique' = unique /\ (orgs' = <<>> => orgs = <<>>)
  <2>1. \A t \in Sessions : (At(t, "own") \/ At(t, "key"))' => At(t, "own") \/ At(t, "key")
    BY <1>1, <1>4 DEF Upsert
  <2>2. orgs' = <<>> => orgs = <<>>  BY <1>a, <1>4 DEF Upsert
  <2> QED  BY <1>4, <2>1, <2>2 DEF Upsert
<1>5. CASE Authenticate(s)  BY <1>2, <1>5 DEF Authenticate, Arrive
<1>6. CASE RequestProvision(s)  BY <1>2, <1>6 DEF RequestProvision, Arrive
<1>7. CASE GetMember(s)  BY <1>3, <1>7 DEF GetMember
<1>8. CASE GetProvisioned(s)  BY <1>3, <1>8 DEF GetProvisioned
<1>9. CASE Provision(s)  BY <1>2, <1>9 DEF Provision
<1>10. CASE Join(s)  BY <1>4, <1>10 DEF Join
<1>11. CASE JoinProvisioned(s)  BY <1>4, <1>11 DEF JoinProvisioned
<1>12. CASE Own(s)  BY <1>4, <1>12 DEF Own
<1>13. CASE InsertKey(s)
  <2>1. \A t \in Sessions : (At(t, "own") \/ At(t, "key"))' => At(t, "own") \/ At(t, "key")
    BY <1>1, <1>13 DEF InsertKey
  <2>2. orgs' = <<>> => orgs = <<>>  BY <1>a, <1>13 DEF InsertKey
  <2> QED  BY <1>13, <2>1, <2>2 DEF InsertKey
<1> QED  BY <1>5, <1>6, <1>7, <1>8, <1>9, <1>10, <1>11, <1>12, <1>13 DEF Step

(* A tab changes, and neither a sample nor the history with it.            *)
LEMMA TabMoves ==
  ASSUME TabsTyped, NEW u \in Users, NEW r \in Tabs, tab' = [tab EXCEPT ![u] = r],
         r.request = None \/ UserOf[r.request] = u, handed' \subseteq Users,
         samples' \in [pending : Nat, settled : Nat]
  PROVE  /\ TabsTyped' /\ tab'[u] = r /\ \A v \in Users \ {u} : tab'[v] = tab[v]
BY DEF TabsTyped

(* One tab moves on, with the sample it inserts or settles, while the API  *)
(* makes no organisation and no key.                                       *)
LEMMA OneTab ==
  ASSUME ProvisioningAssumption, VisitInv, OrgInv', NEW u \in Users, NEW r \in Tabs,
         tab' = [tab EXCEPT ![u] = r], r.request = None \/ UserOf[r.request] = u,
         samples' \in [pending : Nat, settled : Nat],
         samples'.pending + (IF tab[u].pc = "settle" THEN 1 ELSE 0)
           = samples.pending + (IF r.pc = "settle" THEN 1 ELSE 0),
         handed' \subseteq handed \cup {v \in {u} : tab[u].made}, r.made => tab[u].made,
         \A t \in Sessions : (At(t, "own") \/ At(t, "key"))' => At(t, "own") \/ At(t, "key"),
         crashed' = crashed, unique' = unique, orgs' = <<>> => orgs = <<>>
  PROVE  VisitInv'
<1>a. TabsTyped /\ handed \subseteq Users  BY DEF VisitInv, TabsTyped
<1>1. TabsTyped' /\ tab'[u] = r /\ \A v \in Users \ {u} : tab'[v] = tab[v]
  <2>1. handed' \subseteq Users  BY <1>a
  <2> QED  BY <1>a, <2>1, TabMoves
<1>2. OneWinner'
  <2>1. \A s \in Sessions : (At(s, "own") \/ At(s, "key"))' => UserOf[s] \in Winners  BY WinnersAre
  <2>2. \A v \in Users : tab[v].made => v \in Winners  BY DEF Winners
  <2>3. \A v \in Users : tab'[v].made => v \in Winners  BY <1>1, <2>2
  <2>4. handed' \subseteq Winners  BY <2>2 DEF Winners
  <2> QED  BY <2>1, <2>3, <2>4, WinnersStay DEF VisitInv
<1>3. Accounted(samples.pending, Cardinality(Seeding), crashed)'
  <2>1. Seeding \ {u} = Seeding' \ {u} /\ (u \in Seeding <=> tab[u].pc = "settle")
        /\ (u \in Seeding' <=> r.pc = "settle")
    BY <1>1 DEF Seeding, InTab
  <2>2. IsFiniteSet(Seeding)  BY FS_Subset DEF Seeding, ProvisioningAssumption
  <2> DEFINE n == Cardinality(Seeding)
             m == Cardinality(Seeding')
  <2>3. n \in Nat /\ m \in Nat
        /\ m + (IF tab[u].pc = "settle" THEN 1 ELSE 0) = n + (IF r.pc = "settle" THEN 1 ELSE 0)
    BY <2>1, <2>2, OneMoves
  <2>4. samples.pending \in Nat /\ samples'.pending \in Nat  BY <1>a DEF TabsTyped
  <2>5. samples'.pending - m = samples.pending - n  BY <2>3, <2>4
  <2>6. Accounted(samples.pending, n, crashed)  BY DEF VisitInv
  <2>7. crashed * Cardinality(Users) \in Nat
    <3>1. Cardinality(Users) \in Nat /\ crashed \in Nat
      BY FS_CardinalityType, OrgTyped DEF VisitInv, OrgInv, ProvisioningAssumption
    <3> QED  BY <3>1
  <2> HIDE DEF n, m
  <2>8. Accounted(samples'.pending, m, crashed)  BY <2>3, <2>4, <2>5, <2>6, <2>7 DEF Accounted
  <2> QED  BY <2>8 DEF m
<1> QED  BY <1>1, <1>2, <1>3 DEF VisitInv

(* What becomes of a tab.                                                  *)
LEMMA TabGoes ==
  ASSUME TabsTyped, NEW u \in Users
  PROVE  /\ tab[u] \in Tabs /\ (tab[u].request = None \/ UserOf[tab[u].request] = u)
         /\ \A pc \in {"loading", "provisioning", "seed"}, s \in Sessions : Request(u, pc, s) =>
              \E r \in Tabs : tab' = [tab EXCEPT ![u] = r] /\ r.pc = pc /\ r.request = s /\ ~r.made
         /\ \A told \in {"nothing", "actions", "key", "exists", "error"} : Show(u, told) =>
              \E r \in Tabs : tab' = [tab EXCEPT ![u] = r] /\ r.pc = "open" /\ r.request = None /\ r.made = tab[u].made
<1>1. tab[u] \in Tabs  BY DEF TabsTyped
<1>2. ASSUME NEW pc \in {"loading", "provisioning", "seed"}, NEW s \in Sessions, Request(u, pc, s)
      PROVE  \E r \in Tabs : tab' = [tab EXCEPT ![u] = r] /\ r.pc = pc /\ r.request = s /\ ~r.made
  <2> DEFINE r == [tab[u] EXCEPT !.pc = pc, !.request = s, !.made = FALSE]
  <2>1. r \in Tabs /\ r.pc = pc /\ r.request = s /\ ~r.made  BY <1>1 DEF Tabs
  <2>2. tab' = [tab EXCEPT ![u] = r]  BY <1>2 DEF Request
  <2> HIDE DEF r
  <2> QED  BY <2>1, <2>2
<1>3. ASSUME NEW told \in {"nothing", "actions", "key", "exists", "error"}, Show(u, told)
      PROVE  \E r \in Tabs : tab' = [tab EXCEPT ![u] = r] /\ r.pc = "open" /\ r.request = None /\ r.made = tab[u].made
  <2> DEFINE r == [tab[u] EXCEPT !.pc = "open", !.request = None, !.told = told, !.sample = 0]
  <2>0. 0 \in 0 .. Samples  BY DEF Samples
  <2>1. r \in Tabs /\ r.pc = "open" /\ r.request = None /\ r.made = tab[u].made  BY <1>1, <2>0 DEF Tabs
  <2>2. tab' = [tab EXCEPT ![u] = r]  BY <1>3 DEF Show
  <2> HIDE DEF r
  <2> QED  BY <2>1, <2>2
<1> QED  BY <1>1, <1>2, <1>3 DEF TabsTyped

(* A tab sends a request.                                                  *)
LEMMA Sent ==
  ASSUME ProvisioningAssumption, VisitInv, NEW u \in Users, NEW pc \in {"loading", "provisioning", "seed"},
         NEW s \in Fresh(u), Authenticate(s) \/ RequestProvision(s), Request(u, pc, s),
         tab[u].pc # "settle", UNCHANGED <<samples, handed>>
  PROVE  VisitInv'
<1>1. OrgInv /\ TabsTyped  BY DEF VisitInv
<1>2. s \in Sessions /\ UserOf[s] = u /\ Step(s)  BY DEF Fresh, Step
<1>3. OrgInv'  BY <1>1, <1>2, OrgStep DEF Next
<1>4. ~InsertOrg(s)  BY DEF InsertOrg, Authenticate, RequestProvision, Arrive, At
<1>5. /\ \A t \in Sessions : (At(t, "own") \/ At(t, "key"))' => At(t, "own") \/ At(t, "key")
      /\ crashed' = crashed /\ unique' = unique /\ (orgs' = <<>> => orgs = <<>>)
  BY <1>1, <1>2, <1>4, StepsOn
<1>6. PICK r \in Tabs : tab' = [tab EXCEPT ![u] = r] /\ r.pc = pc /\ r.request = s /\ ~r.made
  BY <1>1, <1>2, TabGoes
<1>7. samples' \in [pending : Nat, settled : Nat] /\ samples'.pending = samples.pending /\ samples.pending \in Nat
  BY <1>1 DEF TabsTyped
<1>8. samples'.pending + (IF tab[u].pc = "settle" THEN 1 ELSE 0)
        = samples.pending + (IF r.pc = "settle" THEN 1 ELSE 0)
  BY <1>6, <1>7
<1>9. handed' \subseteq handed \cup {v \in {u} : tab[u].made}  OBVIOUS
<1> QED  BY <1>2, <1>3, <1>5, <1>6, <1>7, <1>8, <1>9, OneTab

(* A tab moves on by itself: it shows an answer, or seeds.                 *)
LEMMA Shows ==
  ASSUME ProvisioningAssumption, VisitInv, NEW u \in Users, UNCHANGED provisioningVars,
         NEW r \in Tabs, tab' = [tab EXCEPT ![u] = r], r.request = None \/ UserOf[r.request] = u,
         r.made = tab[u].made, samples' \in [pending : Nat, settled : Nat],
         samples'.pending + (IF tab[u].pc = "settle" THEN 1 ELSE 0)
           = samples.pending + (IF r.pc = "settle" THEN 1 ELSE 0),
         handed' \subseteq handed \cup {v \in {u} : tab[u].made}
  PROVE  VisitInv'
<1>1. OrgInv'  BY OrgStep DEF VisitInv
<1>2. /\ \A t \in Sessions : (At(t, "own") \/ At(t, "key"))' => At(t, "own") \/ At(t, "key")
      /\ crashed' = crashed /\ unique' = unique /\ (orgs' = <<>> => orgs = <<>>)
  BY DEF provisioningVars, At
<1> QED  BY <1>1, <1>2, OneTab

(* The API goes on with a request.                                         *)
LEMMA Served ==
  ASSUME ProvisioningAssumption, VisitInv, NEW s \in Sessions, Serve(s)
  PROVE  VisitInv'
<1>1. OrgInv /\ TabsTyped /\ OneWinner /\ Accounted(samples.pending, Cardinality(Seeding), crashed)  BY DEF VisitInv
<1>2. Step(s)  BY DEF Serve, Step
<1>3. OrgInv'  BY <1>1, <1>2, OrgStep DEF Next
<1>4. UNCHANGED <<samples, handed>>  BY DEF Serve, onboardingVars
<1>5. CASE ~InsertOrg(s)
  <2>1. /\ \A t \in Sessions : (At(t, "own") \/ At(t, "key"))' => At(t, "own") \/ At(t, "key")
        /\ crashed' = crashed /\ unique' = unique /\ (orgs' = <<>> => orgs = <<>>)
    BY <1>1, <1>2, <1>5, StepsOn
  <2>2. /\ TabsTyped' /\ Seeding' = Seeding
        /\ \A v \in Users : tab'[v].made => tab[v].made \/ (tab[v].request = s /\ At(s, "key"))
    <3>1. CASE UNCHANGED onboardingVars
      BY <1>1, <3>1 DEF onboardingVars, TabsTyped, Seeding, InTab
    <3>2. CASE /\ InsertKey(s)
               /\ tab' = [u \in Users |-> IF tab[u].request = s THEN [tab[u] EXCEPT !.made = TRUE] ELSE tab[u]]
      <4>1. \A v \in Users : tab[v] \in Tabs  BY <1>1 DEF TabsTyped
      <4>2. \A v \in Users : /\ tab'[v] \in Tabs /\ tab'[v].pc = tab[v].pc /\ tab'[v].request = tab[v].request
                             /\ tab'[v].made => tab[v].made \/ tab[v].request = s
        BY ZenonT(30), <3>2, <4>1 DEF Tabs
      <4>3. tab' \in [Users -> Tabs]  BY <3>2, <4>2
      <4>4. Seeding' = Seeding  BY <4>2 DEF Seeding, InTab
      <4>5. TabsTyped'  BY <1>1, <1>4, <4>2, <4>3 DEF TabsTyped
      <4> QED  BY <3>2, <4>2, <4>4, <4>5 DEF InsertKey
    <3> QED  BY <1>5, <3>1, <3>2 DEF Serve
  <2>3. \A t \in Sessions : (At(t, "own") \/ At(t, "key"))' => UserOf[t] \in Winners  BY <2>1, WinnersAre
  <2>4. \A v \in Users : tab'[v].made => v \in Winners
    <3> TAKE v \in Users
    <3>1. tab[v].made => v \in Winners  BY DEF Winners
    <3>2. tab[v].request = s => UserOf[s] = v  BY <1>1 DEF TabsTyped, ProvisioningAssumption
    <3> QED  BY <2>2, <3>1, <3>2, WinnersAre
  <2>5. handed' \subseteq Winners  BY <1>4 DEF Winners
  <2>6. OneWinner'  BY <1>1, <2>1, <2>3, <2>4, <2>5, WinnersStay
  <2> QED  BY <1>1, <1>3, <1>4, <2>1, <2>2, <2>6 DEF VisitInv
<1>6. CASE InsertOrg(s)
  <2>1. UNCHANGED onboardingVars
    <3>1. session[s].pc # "key"  BY <1>6 DEF InsertOrg, At
    <3> QED  BY <3>1 DEF Serve, InsertKey, At
  <2>2. TabsTyped' /\ Seeding' = Seeding
    BY <1>1, <2>1 DEF onboardingVars, TabsTyped, Seeding, InTab
  <2>3. crashed' = crashed /\ unique' = unique  BY <1>6 DEF InsertOrg
  <2>4. \A v \in Users : tab'[v].made => v \in Winners  BY <2>1 DEF onboardingVars, Winners
  <2>5. handed' \subseteq Winners  BY <1>4 DEF Winners
  <2>6. session \in [Sessions -> Places] /\ orgs \in Seq(Rows)  BY <1>1, OrgTyped DEF OrgInv
  <2>7. CASE unique /\ orgs # <<>>
    <3>1. Goto(s, "failed", 0) /\ orgs' = orgs  BY <1>6, <2>7 DEF InsertOrg
    <3>2. \A t \in Sessions : (At(t, "own") \/ At(t, "key"))' => At(t, "own") \/ At(t, "key")
      BY <2>6, <3>1 DEF Goto, At
    <3>3. OneWinner'  BY <1>1, <2>3, <2>4, <2>5, <3>1, <3>2, WinnersAre, WinnersStay
    <3> QED  BY <1>1, <1>3, <1>4, <2>2, <2>3, <3>3 DEF VisitInv
  <2>8. CASE ~unique
    <3>1. OneWinner'  BY <2>3, <2>8 DEF OneWinner
    <3> QED  BY <1>1, <1>3, <1>4, <2>2, <2>3, <3>1 DEF VisitInv
  <2>9. CASE unique /\ orgs = <<>>
    <3>1. Winners = {}  BY <1>1, <2>9 DEF OneWinner
    <3>2. /\ Goto(s, "own", Len(orgs) + 1)
          /\ orgs' = Append(orgs, [role |-> [u \in Users |-> None], keys |-> 0, founder |-> UserOf[s]])
      BY <1>6, <2>9 DEF InsertOrg
    <3>3. orgs' # <<>>  BY <2>6, <3>2
    <3>4. \A t \in Sessions : (At(t, "own") \/ At(t, "key"))' => t = s
      <4>1. \A t \in Sessions \ {s} : session'[t] = session[t]  BY <2>6, <3>2 DEF Goto
      <4> QED  BY <3>1, <4>1, WinnersAre DEF At
    <3>5. \A v \in Winners' : v = UserOf[s]
      BY <2>4, <2>5, <3>1, <3>4 DEF Winners
    <3>6. OneWinner'  BY <3>3, <3>5 DEF OneWinner
    <3> QED  BY <1>1, <1>3, <1>4, <2>2, <2>3, <3>6 DEF VisitInv
  <2> QED  BY <2>7, <2>8, <2>9
<1> QED  BY <1>5, <1>6

(* The API dies.                                                           *)
LEMMA Died ==
  ASSUME ProvisioningAssumption, VisitInv, Die
  PROVE  VisitInv'
<1>1. OrgInv /\ TabsTyped /\ OneWinner /\ Accounted(samples.pending, Cardinality(Seeding), crashed)  BY DEF VisitInv
<1>2. OrgInv'  BY <1>1, OrgStep DEF Next, Die
<1>3. unique' = unique /\ crashed' = crashed + 1 /\ handed' = handed /\ (unique => orgs' = orgs)
  BY DEF Die, Crash
<1>4. \A t \in Sessions : ~(At(t, "own") \/ At(t, "key"))'
  BY DEF Die, Crash, Live, Ended, At
<1>5. Closed \in Tabs /\ Closed.request = None /\ ~Closed.made  BY DEF Closed, Tabs, Samples
<1>6. PICK c : c = [Closed EXCEPT !.pc = "open", !.told = "error"]  OBVIOUS
<1>7. c \in Tabs /\ c.request = None /\ ~c.made /\ c.pc = "open"  BY <1>5, <1>6 DEF Tabs
<1>8. tab' = [u \in Users |-> IF tab[u].pc \in {"insert", "settle"} THEN c ELSE tab[u]]  BY <1>6 DEF Die
<1>9. \A v \in Users : tab'[v] = c \/ (tab'[v] = tab[v] /\ tab[v].pc # "settle")  BY <1>8
<1>10. samples' = samples \/ samples' = [pending |-> 0, settled |-> 0]  BY DEF Die
<1>11. TabsTyped'
  <2>1. tab' \in [Users -> Tabs]  BY <1>1, <1>7, <1>8 DEF TabsTyped
  <2>2. \A u \in Users : tab'[u].request = None \/ UserOf[tab'[u].request] = u  BY <1>1, <1>7, <1>9 DEF TabsTyped
  <2>3. samples' \in [pending : Nat, settled : Nat]  BY <1>1, <1>10 DEF TabsTyped
  <2> QED  BY <1>1, <1>3, <2>1, <2>2, <2>3 DEF TabsTyped
<1>12. OneWinner'
  <2>1. \A v \in Users : tab'[v].made => v \in Winners  BY <1>7, <1>9 DEF Winners
  <2>2. handed' \subseteq Winners  BY <1>3 DEF Winners
  <2> QED  BY <1>1, <1>3, <1>4, <2>1, <2>2, WinnersStay
<1>13. Accounted(samples.pending, Cardinality(Seeding), crashed)'
  <2>1. Seeding' = {}  BY <1>7, <1>9 DEF Seeding, InTab
  <2>2. Cardinality(Seeding') = 0  BY <2>1, FS_EmptySet
  <2>3. IsFiniteSet(Seeding) /\ Cardinality(Seeding) <= Cardinality(Users)
    BY FS_Subset DEF Seeding, ProvisioningAssumption
  <2>4. Cardinality(Seeding) \in Nat /\ Cardinality(Users) \in Nat /\ crashed \in Nat
    BY <1>1, <2>3, FS_CardinalityType, OrgTyped DEF OrgInv, ProvisioningAssumption
  <2>5. samples.pending \in Nat /\ samples'.pending \in Nat /\ samples'.pending <= samples.pending
    BY <1>1, <1>10 DEF TabsTyped
  <2> DEFINE m == Cardinality(Users)
             n == Cardinality(Seeding)
             k == Cardinality(Seeding')
  <2>6. samples.pending <= n + crashed * m  BY <1>1 DEF Accounted
  <2> HIDE DEF m, n, k
  <2>7. (crashed + 1) * m = crashed * m + m /\ crashed * m \in Nat  BY <2>4 DEF m
  <2>8. samples'.pending <= (crashed + 1) * m  BY <2>3, <2>4, <2>5, <2>6, <2>7 DEF m, n
  <2>9. k <= samples'.pending /\ samples'.pending <= k + crashed' * m  BY <1>3, <2>2, <2>4, <2>5, <2>7, <2>8 DEF m, k
  <2> QED  BY <2>9 DEF Accounted, m, k
<1> QED  BY <1>2, <1>11, <1>12, <1>13 DEF VisitInv

(* A tab inserts or settles a sample.                                      *)
LEMMA Seeds ==
  ASSUME ProvisioningAssumption, VisitInv, NEW u \in Users, InsertSample(u) \/ SettleSample(u)
  PROVE  VisitInv'
<1>1. TabsTyped  BY DEF VisitInv
<1>2. tab[u] \in Tabs /\ samples.pending \in Nat /\ samples.settled \in Nat
      /\ (tab[u].request = None \/ UserOf[tab[u].request] = u)
  BY <1>1 DEF TabsTyped
<1>3. CASE InsertSample(u)
  <2> DEFINE r == [tab[u] EXCEPT !.pc = "settle"]
  <2>1. r \in Tabs /\ r.pc = "settle" /\ r.request = tab[u].request /\ r.made = tab[u].made  BY <1>2 DEF Tabs
  <2>2. tab' = [tab EXCEPT ![u] = r]  BY <1>3 DEF InsertSample
  <2> HIDE DEF r
  <2>3. samples' = [samples EXCEPT !.pending = @ + 1] /\ tab[u].pc = "insert" /\ handed' = handed
        /\ UNCHANGED provisioningVars
    BY <1>3 DEF InsertSample, InTab
  <2>4. samples' \in [pending : Nat, settled : Nat] /\ samples'.pending = samples.pending + 1
    BY <1>1, <1>2, <2>3 DEF TabsTyped
  <2>5. samples'.pending + (IF tab[u].pc = "settle" THEN 1 ELSE 0)
          = samples.pending + (IF r.pc = "settle" THEN 1 ELSE 0)
    BY <1>2, <2>1, <2>3, <2>4
  <2> QED  BY <1>2, <2>1, <2>2, <2>3, <2>4, <2>5, Shows
<1>4. CASE SettleSample(u)
  <2>1. samples' = [pending |-> samples.pending - 1, settled |-> samples.settled + 1]
        /\ tab[u].pc = "settle" /\ handed' = handed /\ UNCHANGED provisioningVars
    BY <1>4 DEF SettleSample, InTab
  <2>2. 1 <= samples.pending
    <3>1. Cardinality(Seeding) <= samples.pending  BY DEF VisitInv, Accounted
    <3>2. IsFiniteSet(Seeding) /\ u \in Seeding
      BY <2>1, FS_Subset DEF Seeding, InTab, ProvisioningAssumption
    <3>3. Cardinality(Seeding) \in Nat /\ Cardinality(Seeding) # 0  BY <3>2, FS_CardinalityType, FS_EmptySet
    <3> QED  BY <1>2, <3>1, <3>3
  <2>3. samples' \in [pending : Nat, settled : Nat] /\ samples'.pending = samples.pending - 1
    BY <1>2, <2>1, <2>2
  <2>4. PICK r \in Tabs : /\ tab' = [tab EXCEPT ![u] = r] /\ r.pc # "settle" /\ r.made = tab[u].made
                          /\ r.request = None \/ UserOf[r.request] = u
    <3>1. CASE tab[u].sample < Samples
      <4> DEFINE r == [tab[u] EXCEPT !.pc = "insert", !.sample = tab[u].sample + 1]
      <4>1. tab[u].sample + 1 \in 0 .. Samples  BY <1>2, <3>1 DEF Tabs, Samples
      <4>2. r \in Tabs /\ r.pc = "insert" /\ r.request = tab[u].request /\ r.made = tab[u].made
        BY <1>2, <4>1 DEF Tabs
      <4>3. tab' = [tab EXCEPT ![u] = r]  BY <1>4, <3>1 DEF SettleSample
      <4> HIDE DEF r
      <4> QED  BY <1>2, <4>2, <4>3
    <3>2. CASE ~(tab[u].sample < Samples)
      <4>1. Show(u, "actions")  BY <1>4, <3>2 DEF SettleSample
      <4>2. "actions" \in {"nothing", "actions", "key", "exists", "error"}  OBVIOUS
      <4>3. PICK r \in Tabs : tab' = [tab EXCEPT ![u] = r] /\ r.pc = "open" /\ r.request = None /\ r.made = tab[u].made
        BY <1>1, <4>1, <4>2, TabGoes
      <4> QED  BY <4>3
    <3> QED  BY <3>1, <3>2
  <2>5. samples'.pending + (IF tab[u].pc = "settle" THEN 1 ELSE 0)
          = samples.pending + (IF r.pc = "settle" THEN 1 ELSE 0)
    BY <1>2, <2>1, <2>3, <2>4
  <2> QED  BY <2>1, <2>3, <2>4, <2>5, Shows
<1> QED  BY <1>3, <1>4

LEMMA VisitStep ==
  ASSUME ProvisioningAssumption, VisitInv, [NextPage]_pageVars
  PROVE  VisitInv'
<1>1. TabsTyped  BY DEF VisitInv
<1>2. \A v \in Users : tab[v] \in Tabs /\ (tab[v].request = None \/ UserOf[tab[v].request] = v)
  BY <1>1 DEF TabsTyped
<1>3. ASSUME NEW u \in Users, NEW pc \in {"loading", "provisioning", "seed"},
             \E s \in Fresh(u) : (Authenticate(s) \/ RequestProvision(s)) /\ Request(u, pc, s),
             tab[u].pc # "settle", UNCHANGED <<samples, handed>>
      PROVE  VisitInv'
  BY <1>3, Sent
<1>4. ASSUME NEW u \in Users, NEW told \in {"nothing", "actions", "key", "exists", "error"}, Show(u, told),
             UNCHANGED provisioningVars, tab[u].pc # "settle", samples' = samples,
             handed' \subseteq handed \cup {v \in {u} : tab[u].made}
      PROVE  VisitInv'
  <2>1. PICK r \in Tabs : tab' = [tab EXCEPT ![u] = r] /\ r.pc = "open" /\ r.request = None /\ r.made = tab[u].made
    BY <1>1, <1>4, TabGoes
  <2>2. samples' \in [pending : Nat, settled : Nat]
        /\ samples'.pending + (IF tab[u].pc = "settle" THEN 1 ELSE 0)
             = samples.pending + (IF r.pc = "settle" THEN 1 ELSE 0)
    BY <1>1, <1>4, <2>1 DEF TabsTyped
  <2> QED  BY <1>4, <2>1, <2>2, Shows
<1>5. ASSUME NEW u \in Users, Visit(u)  PROVE VisitInv'
  BY <1>3, <1>5 DEF Visit, InTab
<1>6. ASSUME NEW u \in Users, OnProvision(u)  PROVE VisitInv'
  BY <1>3, <1>6 DEF OnProvision, InTab
<1>7. ASSUME NEW u \in Users, OnSeed(u)  PROVE VisitInv'
  BY <1>3, <1>7 DEF OnSeed, InTab
<1>8. ASSUME NEW u \in Users, Loaded(u)  PROVE VisitInv'
  <2>1. tab[u].pc # "settle" /\ UNCHANGED <<provisioningVars, samples, handed>>
    BY <1>8 DEF Loaded, Arrived, InTab
  <2>2. Show(u, "actions") \/ Show(u, "nothing")  BY <1>8 DEF Loaded
  <2> QED  BY <1>4, <2>1, <2>2
<1>9. ASSUME NEW u \in Users, ShowKey(u)  PROVE VisitInv'
  <2>1. tab[u].pc # "settle" /\ UNCHANGED <<provisioningVars, samples>>
    BY <1>9 DEF ShowKey, Arrived, InTab
  <2>2. Show(u, "error") \/ Show(u, "key") \/ Show(u, "exists")  BY <1>9 DEF ShowKey
  <2>3. handed' \subseteq handed \cup {v \in {u} : tab[u].made}  BY <1>9 DEF ShowKey
  <2> QED  BY <1>4, <2>1, <2>2, <2>3
<1>10. ASSUME NEW u \in Users, SeedStarts(u)  PROVE VisitInv'
  <2>1. tab[u].pc # "settle" /\ UNCHANGED <<provisioningVars, samples, handed>>
    BY <1>10 DEF SeedStarts, Arrived, InTab
  <2>2. CASE Succeeded(u)
    <3> DEFINE r == [tab[u] EXCEPT !.pc = "insert", !.sample = 1]
    <3>0. 1 \in 0 .. Samples  BY DEF Samples
    <3>1. r \in Tabs /\ r.pc = "insert" /\ r.request = tab[u].request /\ r.made = tab[u].made
      BY <1>2, <3>0 DEF Tabs
    <3>2. tab' = [tab EXCEPT ![u] = r]  BY <1>10, <2>2 DEF SeedStarts
    <3> HIDE DEF r
    <3>3. samples' \in [pending : Nat, settled : Nat]
          /\ samples'.pending + (IF tab[u].pc = "settle" THEN 1 ELSE 0)
               = samples.pending + (IF r.pc = "settle" THEN 1 ELSE 0)
      BY <1>1, <2>1, <3>1 DEF TabsTyped
    <3> QED  BY <1>2, <2>1, <3>1, <3>2, <3>3, Shows
  <2>3. CASE ~Succeeded(u)
    <3>1. Show(u, "error")  BY <1>10, <2>3 DEF SeedStarts
    <3> QED  BY <1>4, <2>1, <3>1
  <2> QED  BY <2>2, <2>3
<1>11. ASSUME UNCHANGED pageVars  PROVE VisitInv'
  <2>1. OrgInv'  BY <1>11, OrgStep DEF VisitInv, pageVars
  <2> QED
    BY <1>11, <2>1 DEF pageVars, provisioningVars, onboardingVars, VisitInv, TabsTyped, OneWinner,
       Winners, At, Accounted, Seeding, InTab
<1> QED  BY <1>5, <1>6, <1>7, <1>8, <1>9, <1>10, <1>11, Seeds, Served, Died DEF NextPage

LEMMA VisitSafe ==
  ASSUME ProvisioningAssumption, VisitInv
  PROVE  FirstVisitsSafe
<1>1. Membership  BY OrgSettled DEF VisitInv
<1>2. PageTypeOK
  BY <1>1 DEF VisitInv, TabsTyped, Tabs, PageTypeOK, Membership
<1>3. ASSUME unique  PROVE Cardinality(handed) <= 1
  <2>1. \A u, v \in handed : u = v  BY <1>3 DEF VisitInv, OneWinner, Winners
  <2>2. CASE handed = {}  BY <2>2, FS_EmptySet
  <2>3. CASE handed # {}
    <3>1. PICK u \in handed : handed = {u}  BY <2>1, <2>3
    <3> QED  BY <3>1, FS_Singleton
  <2> QED  BY <2>2, <2>3
<1>4. samples.pending <= Cardinality(Seeding) + (IF crashed = 0 THEN 0 ELSE crashed * Cardinality(Users))
  <2>1. samples.pending <= Cardinality(Seeding) + crashed * Cardinality(Users)  BY DEF VisitInv, Accounted
  <2>2. Cardinality(Users) \in Nat  BY FS_CardinalityType DEF ProvisioningAssumption
  <2>3. crashed = 0 => crashed * Cardinality(Users) = 0  BY <2>2
  <2> QED  BY <2>1, <2>3
<1> QED  BY <1>1, <1>2, <1>3, <1>4 DEF FirstSteps, FirstVisitsSafe

(* What the members rely on holds through the first visits, the key of an  *)
(* organisation's provisioning is shown to one user at most, and a sample  *)
(* stays pending only where the API died: onboarding/actions.ts, and       *)
(* seedSampleData() of service.ts.                                         *)
THEOREM FirstVisitsHold ==
  ASSUME ProvisioningAssumption
  PROVE  SpecPage => []FirstVisitsSafe
<1>1. InitPage => VisitInv  BY VisitStart
<1>2. VisitInv /\ [NextPage]_pageVars => VisitInv'  BY VisitStep
<1>3. VisitInv => FirstVisitsSafe  BY VisitSafe
<1> QED  BY <1>1, <1>2, <1>3, PTL DEF SpecPage
-----------------------------------------------------------------------------
(* The keys and the page that shows them.                                  *)

(* The inductive invariant: the rows are numbered as they were inserted;   *)
(* what the answers under way are about; and the tables.                   *)
Clicked(u) ==
  /\ Page!Free(u) <=> Page!At(u, "idle")
  /\ user[u].pc \in {"revoke", "create"} => doing[u].click = "rotate"
  /\ user[u].pc \in {"revoke", "revoked", "missing"} => doing[u].key = user[u].key
  /\ user[u].pc \in {"revoked", "missing"} => doing[u].click = "revoke"
  /\ Page!At(u, "answer") => doing[u].click \in {"create", "rotate"}
  /\ doing[u].click \in {"rotate", "revoke"} => doing[u].key \in Page!Ids
  /\ doing[u].click = "create" => doing[u].key = 0

Reached(u) ==
  /\ user[u].pc \in {"revoke", "answer", "revoked"} => user[u].key \in Page!Rows
  /\ user[u].pc \in {"create", "answer"} /\ doing[u].click = "rotate" => status[doing[u].key] = "revoked"
  /\ Page!At(u, "revoked") => status[user[u].key] = "revoked"
  /\ Page!At(u, "answer") => status[user[u].key] = "active" \/ user[u].key \in doubt[u]
  /\ Page!At(u, "answer") /\ doing[u].click = "rotate" => user[u].key # doing[u].key

(* What a request of the user's own has changed, and not yet told.         *)
Untold(u) == IF user[u].pc \in {"create", "answer", "revoked"} THEN {doing[u].key} ELSE {}

Told(u) ==
  \A i \in Page!Ids :
    /\ shown[u][i] = "revoked" => status[i] = "revoked"
    /\ shown[u][i] = "active" => status[i] = "active" \/ i \in doubt[u] \/ i \in Untold(u)

KeysInv ==
  /\ Page!PageTypeOK
  /\ \E n \in 1 .. MaxKeys : Page!Rows = 1 .. n
  /\ \A u \in Users : Clicked(u) /\ Reached(u) /\ Told(u)

KeyStates == {"absent", "active", "revoked"}
Requests == [pc : {"idle", "revoke", "create", "answer", "revoked", "missing"}, key : 0 .. MaxKeys]
Clicks == [click : {"none", "create", "rotate", "revoke"}, key : 0 .. MaxKeys]

KeysType ==
  /\ status \in [1 .. MaxKeys -> KeyStates] /\ user \in [Users -> Requests]
  /\ shown \in [Users -> [1 .. MaxKeys -> KeyStates]] /\ doing \in [Users -> Clicks]
  /\ doubt \in [Users -> SUBSET (0 .. MaxKeys)]

Counters ==
  revocations \in 0 .. MaxRevocations /\ losses \in 0 .. MaxLosses /\ known \subseteq Page!Rows

LEMMA KeysTyped ==
  /\ KeysInv => KeysType /\ Counters
  /\ KeysType' /\ Counters' => Page!PageTypeOK'
<1> USE DEF KeysType, Counters, KeyStates, Requests, Clicks, Page!Ids, Page!PageTypeOK, Page!TypeOK
<1>1. KeysInv => KeysType /\ Counters  BY DEF KeysInv
<1>2. KeysType' /\ Counters' => Page!PageTypeOK'  OBVIOUS
<1> QED  BY <1>1, <1>2

LEMMA KeysStart ==
  ASSUME Page!KeysAssumption, Page!InitPage
  PROVE  KeysInv
<1>0. MaxKeys \in Nat \ {0} /\ MaxRevocations \in Nat /\ MaxLosses \in Nat  BY DEF Page!KeysAssumption
<1>1. /\ status = [i \in 1 .. MaxKeys |-> IF i = 1 THEN "active" ELSE "absent"]
      /\ user = [u \in Users |-> [pc |-> "idle", key |-> 0]]
      /\ revocations = 0 /\ losses = 0 /\ known \in {{}, {1}}
      /\ shown = [u \in Users |-> status]
      /\ doing = [u \in Users |-> [click |-> "none", key |-> 0]]
      /\ doubt = [u \in Users |-> {}]
  <2>1. /\ status = [i \in 1 .. MaxKeys |-> IF i = 1 THEN "active" ELSE "absent"]
        /\ shown = [u \in Users |-> [i \in 1 .. MaxKeys |-> status[i]]]
    BY DEF Page!InitPage, Page!Init, Page!Ids
  <2>2. [i \in 1 .. MaxKeys |-> status[i]] = status  BY <2>1
  <2> QED  BY <2>1, <2>2 DEF Page!InitPage, Page!Init, Page!Nothing
<1>2. Page!Rows = {1}  BY <1>0, <1>1 DEF Page!Rows, Page!Ids
<1>3. KeysType
  <2>1. status \in [1 .. MaxKeys -> KeyStates]  BY <1>1 DEF KeyStates
  <2>2. user \in [Users -> Requests] /\ doing \in [Users -> Clicks]
    BY <1>0, <1>1 DEF Requests, Clicks
  <2> QED  BY <1>1, <2>1, <2>2 DEF KeysType
<1>4. Counters  BY <1>0, <1>1, <1>2 DEF Counters
<1>5. Page!PageTypeOK
  BY <1>3, <1>4 DEF KeysType, Counters, KeyStates, Requests, Clicks, Page!Ids, Page!PageTypeOK, Page!TypeOK
<1>6. \E n \in 1 .. MaxKeys : Page!Rows = 1 .. n
  <2>1. 1 \in 1 .. MaxKeys /\ {1} = 1 .. 1  BY <1>0
  <2> QED  BY <1>2, <2>1
<1>7. ASSUME NEW u \in Users PROVE Clicked(u) /\ Reached(u) /\ Told(u)
  <2>1. user[u].pc = "idle" /\ doing[u] = [click |-> "none", key |-> 0] /\ shown[u] = status  BY <1>1
  <2>2. Clicked(u)  BY <2>1 DEF Clicked, Page!Free, Page!Nothing, Page!At
  <2>3. Reached(u) /\ Told(u)  BY <2>1 DEF Reached, Told, Page!At
  <2> QED  BY <2>2, <2>3
<1> QED  BY <1>5, <1>6, <1>7 DEF KeysInv

(* What may become of a row: it is inserted, or revoked for good.          *)
RowsGrow ==
  \A i \in 1 .. MaxKeys :
    \/ status'[i] = status[i]
    \/ status[i] = "absent" /\ status'[i] = "active"
    \/ status[i] # "absent" /\ status'[i] = "revoked"

LEMMA Grown ==
  ASSUME KeysType, RowsGrow
  PROVE  /\ Page!Rows \subseteq Page!Rows'
         /\ \A i \in 1 .. MaxKeys : status[i] = "revoked" => status'[i] = "revoked"
  BY DEF KeysType, KeyStates, RowsGrow, Page!Rows, Page!Ids

(* Whose request and page are not touched: the others who change a key     *)
(* cast doubt on it.                                                       *)
LEMMA OthersKept ==
  ASSUME KeysInv, RowsGrow, NEW v \in Users,
         user'[v] = user[v], shown'[v] = shown[v], doing'[v] = doing[v], doubt[v] \subseteq doubt'[v],
         \A i \in 1 .. MaxKeys :
           status[i] = "active" /\ status'[i] = "revoked" /\ (shown[v][i] = "active" \/ user[v].key = i)
             => i \in doubt'[v]
  PROVE  Clicked(v)' /\ Reached(v)' /\ Told(v)'
<1> USE DEF Page!At, Page!Ids
<1>1. KeysType  BY KeysTyped
<1>2. Clicked(v) /\ Reached(v) /\ Told(v)  BY DEF KeysInv
<1>3. /\ Page!Rows \subseteq Page!Rows'
      /\ \A i \in 1 .. MaxKeys : status[i] = "revoked" => status'[i] = "revoked"
  BY <1>1, Grown
<1>4. Clicked(v)'  BY <1>2 DEF Clicked, Page!Free, Page!Nothing
<1>5. \A i \in 1 .. MaxKeys : status[i] = "active" => status'[i] = "active" \/ status'[i] = "revoked"
  BY DEF RowsGrow
<1>6. Reached(v)'
  <2>1. user[v].pc = "answer" => user[v].key \in 1 .. MaxKeys
    BY <1>2 DEF Reached, Page!Rows
  <2>2. user[v].pc \in {"create", "answer"} /\ doing[v].click = "rotate" => doing[v].key \in 1 .. MaxKeys
    BY <1>2 DEF Clicked
  <2>3. user[v].pc = "revoked" => user[v].key \in 1 .. MaxKeys
    BY <1>2 DEF Reached, Page!Rows
  <2>4. user[v].pc = "answer" => status'[user[v].key] = "active" \/ user[v].key \in doubt'[v]
    BY <1>2, <1>5, <2>1 DEF Reached
  <2> QED  BY <1>2, <1>3, <2>2, <2>3, <2>4 DEF Reached
<1>7. Told(v)'
  <2>1. Untold(v)' = Untold(v)  BY DEF Untold
  <2> QED  BY <1>2, <1>3, <1>5, <2>1 DEF Told
<1> QED  BY <1>4, <1>6, <1>7

(* insertApiKey(): the next number is that of no row.                      *)
LEMMA Inserted ==
  ASSUME Page!KeysAssumption, KeysInv, NEW u \in Users, Page!Insert(u)
  PROVE  \E i \in 1 .. MaxKeys :
           /\ status[i] = "absent" /\ status' = [status EXCEPT ![i] = "active"]
           /\ user' = [user EXCEPT ![u] = [pc |-> "answer", key |-> i]]
           /\ UNCHANGED <<revocations, losses, known>>
           /\ RowsGrow /\ \E n \in 1 .. MaxKeys : Page!Rows' = 1 .. n
<1>0. MaxKeys \in Nat \ {0} /\ KeysType  BY KeysTyped DEF Page!KeysAssumption
<1>1. PICK n \in 1 .. MaxKeys : Page!Rows = 1 .. n  BY DEF KeysInv
<1>2. Page!Cardinality(Page!Rows) = n
  <2>1. Page!Cardinality(Page!Rows) = Cardinality(Page!Rows)  BY DEF Page!Cardinality, Cardinality
  <2>2. 1 \in Int /\ n \in Int /\ 1 <= n /\ n - 1 + 1 = n  BY <1>0
  <2>3. Cardinality(1 .. n) = n  BY <2>2, FS_Interval
  <2> QED  BY <1>1, <2>1, <2>3
<1>3. n + 1 \in 1 .. MaxKeys
  <2>1. Page!Rows # 1 .. MaxKeys  BY DEF Page!Insert, Page!Ids
  <2> QED  BY <1>0, <1>1, <2>1
<1> DEFINE i == n + 1
<1>4. status[i] = "absent"
  <2>1. i \notin 1 .. n  BY <1>0
  <2> QED  BY <1>1, <1>3, <2>1 DEF Page!Rows, Page!Ids
<1>5. /\ status' = [status EXCEPT ![i] = "active"]
      /\ user' = [user EXCEPT ![u] = [pc |-> "answer", key |-> i]]
      /\ UNCHANGED <<revocations, losses, known>>
  BY <1>2 DEF Page!Insert, Page!Goto
<1>6. RowsGrow  BY <1>0, <1>3, <1>4, <1>5 DEF RowsGrow, KeysType
<1>7. Page!Rows' = Page!Rows \cup {i}
  BY <1>0, <1>3, <1>5 DEF KeysType, Page!Rows, Page!Ids
<1>8. Page!Rows' = 1 .. i  BY <1>0, <1>1, <1>7
<1> QED  BY <1>3, <1>4, <1>5, <1>6, <1>8

(* A row is revoked.                                                       *)
LEMMA RevokedRow ==
  ASSUME KeysInv, NEW i \in Page!Rows, status' = [status EXCEPT ![i] = "revoked"]
  PROVE  /\ status' \in [1 .. MaxKeys -> KeyStates] /\ RowsGrow
         /\ status'[i] = "revoked" /\ \A j \in 1 .. MaxKeys \ {i} : status'[j] = status[j]
         /\ Page!Rows' = Page!Rows
<1>1. KeysType /\ i \in 1 .. MaxKeys /\ status[i] # "absent"  BY KeysTyped DEF Page!Rows, Page!Ids
<1> QED  BY <1>1 DEF KeysType, KeyStates, RowsGrow, Page!Rows, Page!Ids

(* The step as a whole, from what it does to the user's own request and    *)
(* page and to the rows.                                                   *)
LEMMA PageStep ==
  ASSUME Page!KeysAssumption, KeysInv, NEW u \in Users, RowsGrow, NEW n \in 1 .. MaxKeys, Page!Rows' = 1 .. n,
         status' \in [1 .. MaxKeys -> KeyStates],
         NEW req \in Requests, user' = [user EXCEPT ![u] = req],
         NEW tab1 \in [1 .. MaxKeys -> KeyStates], shown' = [shown EXCEPT ![u] = tab1],
         NEW did \in Clicks, doing' = [doing EXCEPT ![u] = did],
         doubt' \in [Users -> SUBSET (0 .. MaxKeys)], Counters',
         \A v \in Users \ {u} : doubt[v] \subseteq doubt'[v],
         \A v \in Users \ {u}, i \in 1 .. MaxKeys :
           status[i] = "active" /\ status'[i] = "revoked" /\ (shown[v][i] = "active" \/ user[v].key = i)
             => i \in doubt'[v],
         Clicked(u)' /\ Reached(u)' /\ Told(u)'
  PROVE  KeysInv'
<1>1. KeysType  BY KeysTyped
<1>2. KeysType'  BY <1>1 DEF KeysType
<1>3. Page!PageTypeOK'  BY <1>2, KeysTyped
<1>4. ASSUME NEW v \in Users \ {u} PROVE Clicked(v)' /\ Reached(v)' /\ Told(v)'
  <2>1. user'[v] = user[v] /\ shown'[v] = shown[v] /\ doing'[v] = doing[v]  BY <1>1 DEF KeysType
  <2> QED  BY <2>1, OthersKept
<1>5. \A v \in Users : Clicked(v)' /\ Reached(v)' /\ Told(v)'  BY <1>4
<1> QED  BY <1>3, <1>5 DEF KeysInv

LEMMA KeysStep ==
  ASSUME Page!KeysAssumption, KeysInv, [Page!Next]_(Page!allVars)
  PROVE  KeysInv'
<1> USE DEF Page!At, Page!Ids
<1>0. MaxKeys \in Nat \ {0} /\ MaxRevocations \in Nat /\ MaxLosses \in Nat  BY DEF Page!KeysAssumption
<1>a. KeysType /\ Counters  BY KeysTyped
<1>b. PICK n \in 1 .. MaxKeys : Page!Rows = 1 .. n  BY DEF KeysInv
<1>c. \A u \in Users : Clicked(u) /\ Reached(u) /\ Told(u)  BY DEF KeysInv
<1>d. 0 \in 0 .. MaxKeys /\ 1 .. MaxKeys \subseteq 0 .. MaxKeys /\ 0 \notin 1 .. MaxKeys  BY <1>0
<1>e. ASSUME NEW u \in Users
      PROVE  /\ user[u] \in Requests /\ shown[u] \in [1 .. MaxKeys -> KeyStates] /\ doing[u] \in Clicks
             /\ doubt[u] \in SUBSET (0 .. MaxKeys)
             /\ user = [user EXCEPT ![u] = user[u]] /\ shown = [shown EXCEPT ![u] = shown[u]]
             /\ doing = [doing EXCEPT ![u] = doing[u]]
  BY <1>a DEF KeysType
<1>f. UNCHANGED status => RowsGrow /\ Page!Rows' = 1 .. n /\ status' \in [1 .. MaxKeys -> KeyStates]
                          /\ \A i \in 1 .. MaxKeys : ~(status[i] = "active" /\ status'[i] = "revoked")
  BY <1>a, <1>b DEF RowsGrow, Page!Rows, KeysType
<1>1. ASSUME NEW u \in Users, Page!Load(u) PROVE KeysInv'
  <2>1. /\ UNCHANGED <<status, user, revocations, losses, known, doing>>
        /\ shown' = [shown EXCEPT ![u] = status] /\ doubt' = [doubt EXCEPT ![u] = {}]
        /\ Page!Free(u)
    BY <1>1 DEF Page!Load, Page!keyVars
  <2>2. user[u].pc = "idle"  BY <1>c, <2>1 DEF Clicked
  <2>3. /\ doubt' \in [Users -> SUBSET (0 .. MaxKeys)] /\ \A v \in Users \ {u} : doubt'[v] = doubt[v]
        /\ shown'[u] = status /\ user'[u] = user[u] /\ doing'[u] = doing[u]
    BY <1>a, <2>1 DEF KeysType
  <2>4. Clicked(u)'  BY <1>c, <2>3 DEF Clicked, Page!Free, Page!Nothing
  <2>5. Reached(u)'  BY <2>2, <2>3 DEF Reached
  <2>6. Told(u)'  BY <2>1, <2>3 DEF Told
  <2>7. Counters'  BY <1>a, <2>1 DEF Counters, Page!Rows
  <2>8. status \in [1 .. MaxKeys -> KeyStates]  BY <1>a DEF KeysType
  <2> QED
    BY <1>e, <1>f, <2>1, <2>3, <2>4, <2>5, <2>6, <2>7, <2>8, PageStep
<1>2. ASSUME NEW u \in Users, Page!Create(u) PROVE KeysInv'
  <2>1. PICK i \in 1 .. MaxKeys :
           /\ status[i] = "absent" /\ status' = [status EXCEPT ![i] = "active"]
           /\ user' = [user EXCEPT ![u] = [pc |-> "answer", key |-> i]]
           /\ UNCHANGED <<revocations, losses, known>>
           /\ RowsGrow /\ \E m \in 1 .. MaxKeys : Page!Rows' = 1 .. m
    BY <1>2, Inserted DEF Page!Create, Page!CreateApiKey
  <2>2. /\ Page!Free(u) /\ user[u].pc = "idle" /\ UNCHANGED <<shown, doubt>>
        /\ doing' = [doing EXCEPT ![u] = [click |-> "create", key |-> 0]]
    BY <1>2 DEF Page!Create, Page!CreateApiKey, Page!Click
  <2> DEFINE req == [pc |-> "answer", key |-> i]
             did == [click |-> "create", key |-> 0]
  <2>3. req \in Requests /\ did \in Clicks  BY <1>d DEF Requests, Clicks
  <2>4. user'[u] = req /\ doing'[u] = did /\ shown'[u] = shown[u] /\ doubt'[u] = doubt[u]
    BY <1>a, <2>1, <2>2 DEF KeysType
  <2>5. /\ status' \in [1 .. MaxKeys -> KeyStates] /\ status'[i] = "active"
        /\ \A j \in 1 .. MaxKeys \ {i} : status'[j] = status[j]
    BY <1>a, <2>1 DEF KeysType, KeyStates
  <2>6. Clicked(u)'  BY <2>4 DEF Clicked, Page!Free, Page!Nothing
  <2>7. Reached(u)'  BY <2>4, <2>5 DEF Reached, Page!Rows
  <2>8. Told(u)'
    <3>1. Told(u) /\ Untold(u) = {}  BY <1>c, <2>2 DEF Untold
    <3> QED  BY <2>1, <2>4, <2>5, <3>1 DEF Told
  <2>9. Counters'
    <3>1. Page!Rows \subseteq Page!Rows'  BY <1>a, <2>1, Grown
    <3> QED  BY <1>a, <2>1, <3>1 DEF Counters
  <2>10. \A j \in 1 .. MaxKeys : ~(status[j] = "active" /\ status'[j] = "revoked")  BY <2>1, <2>5
  <2>11. doubt' \in [Users -> SUBSET (0 .. MaxKeys)] /\ \A v \in Users \ {u} : doubt'[v] = doubt[v]
    BY <1>a, <2>2 DEF KeysType
  <2>12. doing' = [doing EXCEPT ![u] = did] /\ user' = [user EXCEPT ![u] = req]
         /\ shown' = [shown EXCEPT ![u] = shown[u]]
    BY <1>e, <2>1, <2>2
  <2> HIDE DEF req, did
  <2> QED  BY <1>e, <2>1, <2>3, <2>5, <2>6, <2>7, <2>8, <2>9, <2>10, <2>11, <2>12, PageStep
<1>3. ASSUME NEW u \in Users, NEW i \in 1 .. MaxKeys, Page!Rotate(u, i) PROVE KeysInv'
  <2> DEFINE req == [pc |-> "revoke", key |-> i]
             did == [click |-> "rotate", key |-> i]
  <2>1. /\ Page!Free(u) /\ user[u].pc = "idle" /\ i \in Page!Rows
        /\ user' = [user EXCEPT ![u] = req] /\ doing' = [doing EXCEPT ![u] = did]
        /\ UNCHANGED <<status, revocations, losses, known, shown, doubt>>
    BY <1>3 DEF Page!Rotate, Page!GetApiKey, Page!Goto, Page!Click
  <2>3. req \in Requests /\ did \in Clicks  BY <1>d DEF Requests, Clicks
  <2>4. user'[u] = req /\ doing'[u] = did /\ shown'[u] = shown[u] /\ doubt'[u] = doubt[u]
    BY <1>a, <2>1 DEF KeysType
  <2>6. Clicked(u)'  BY <2>4 DEF Clicked, Page!Free, Page!Nothing
  <2>7. Reached(u)'  BY <2>1, <2>4 DEF Reached, Page!Rows
  <2>8. Told(u)'
    <3>1. Told(u) /\ Untold(u) = {}  BY <1>c, <2>1 DEF Untold
    <3> QED  BY <2>1, <2>4, <3>1 DEF Told
  <2>9. Counters'  BY <1>a, <2>1 DEF Counters, Page!Rows
  <2>11. doubt' \in [Users -> SUBSET (0 .. MaxKeys)] /\ \A v \in Users \ {u} : doubt'[v] = doubt[v]
    BY <1>a, <2>1 DEF KeysType
  <2>12. shown' = [shown EXCEPT ![u] = shown[u]]  BY <1>e, <2>1
  <2> HIDE DEF req, did
  <2> QED  BY <1>e, <1>f, <2>1, <2>3, <2>6, <2>7, <2>8, <2>9, <2>11, <2>12, PageStep
<1>4. ASSUME NEW u \in Users, NEW i \in 1 .. MaxKeys, Page!Revoke(u, i), Page!RevokeApiKey(u, i) PROVE KeysInv'
  <2> DEFINE req == [pc |-> "revoked", key |-> i]
             did == [click |-> "revoke", key |-> i]
  <2>1. /\ Page!Free(u) /\ user[u].pc = "idle" /\ i \in Page!Rows
        /\ user' = [user EXCEPT ![u] = req] /\ doing' = [doing EXCEPT ![u] = did]
        /\ status' = [status EXCEPT ![i] = "revoked"]
        /\ revocations < MaxRevocations /\ revocations' = revocations + 1
        /\ UNCHANGED <<losses, known, shown>>
    BY <1>4 DEF Page!Revoke, Page!RevokeApiKey, Page!Goto, Page!Click, Page!Revocable, Page!Active, Page!Rows
  <2>2. /\ status' \in [1 .. MaxKeys -> KeyStates] /\ RowsGrow
        /\ status'[i] = "revoked" /\ \A j \in 1 .. MaxKeys \ {i} : status'[j] = status[j]
        /\ Page!Rows' = Page!Rows
    BY <2>1, RevokedRow
  <2>3. req \in Requests /\ did \in Clicks  BY <1>d DEF Requests, Clicks
  <2>4. user'[u] = req /\ doing'[u] = did /\ shown'[u] = shown[u]
    BY <1>a, <2>1 DEF KeysType
  <2>5. /\ doubt' \in [Users -> SUBSET (0 .. MaxKeys)] /\ \A v \in Users : doubt[v] \subseteq doubt'[v]
        /\ doubt'[u] = doubt[u]
        /\ \A v \in Users \ {u} : status[i] = "active" /\ (shown[v][i] = "active" \/ user[v].key = i) => i \in doubt'[v]
    <3>1. CASE i \in Page!Active
      <4>1. doubt' = [v \in Users |-> IF v # u /\ (shown[v][i] = "active" \/ user[v].key = i)
                                      THEN doubt[v] \cup {i} ELSE doubt[v]]
        BY <1>4, <3>1 DEF Page!Revoke, Page!Behind
      <4> QED  BY <1>a, <1>d, <4>1 DEF KeysType
    <3>2. CASE i \notin Page!Active
      <4>1. doubt' = doubt /\ status[i] # "active"  BY <1>4, <3>2 DEF Page!Revoke, Page!Active
      <4> QED  BY <1>a, <4>1 DEF KeysType
    <3> QED  BY <3>1, <3>2
  <2>6. Clicked(u)'  BY <2>4 DEF Clicked, Page!Free, Page!Nothing
  <2>7. Reached(u)'  BY <2>1, <2>2, <2>4 DEF Reached
  <2>8. Told(u)'
    <3>1. Told(u) /\ Untold(u) = {} /\ Untold(u)' = {i}  BY <1>c, <2>1, <2>4 DEF Untold
    <3> QED  BY <2>2, <2>4, <2>5, <3>1 DEF Told
  <2>9. Counters'  BY <1>0, <1>a, <2>1, <2>2 DEF Counters
  <2>12. shown' = [shown EXCEPT ![u] = shown[u]]  BY <1>e, <2>1
  <2>13. Page!Rows' = 1 .. n  BY <1>b, <2>2
  <2>14. \A v \in Users \ {u}, j \in 1 .. MaxKeys :
           status[j] = "active" /\ status'[j] = "revoked" /\ (shown[v][j] = "active" \/ user[v].key = j)
             => j \in doubt'[v]
    BY <2>2, <2>5
  <2> HIDE DEF req, did
  <2> QED  BY <1>e, <2>1, <2>2, <2>3, <2>5, <2>6, <2>7, <2>8, <2>9, <2>12, <2>13, <2>14, PageStep
<1>5. ASSUME NEW u \in Users, NEW i \in 1 .. MaxKeys, Page!Revoke(u, i), Page!RevokeMissing(u, i) PROVE KeysInv'
  <2> DEFINE req == [pc |-> "missing", key |-> i]
             did == [click |-> "revoke", key |-> i]
  <2>1. /\ Page!Free(u) /\ user[u].pc = "idle" /\ i \notin Page!Active
        /\ user' = [user EXCEPT ![u] = req] /\ doing' = [doing EXCEPT ![u] = did]
        /\ UNCHANGED <<status, revocations, losses, known, shown>>
    BY <1>5 DEF Page!Revoke, Page!RevokeMissing, Page!Goto, Page!Click, Page!Revocable, Page!Active, Page!Rows
  <2>2. UNCHANGED doubt  BY <1>5, <2>1 DEF Page!Revoke
  <2>3. req \in Requests /\ did \in Clicks  BY <1>d DEF Requests, Clicks
  <2>4. user'[u] = req /\ doing'[u] = did /\ shown'[u] = shown[u] /\ doubt'[u] = doubt[u]
    BY <1>a, <2>1, <2>2 DEF KeysType
  <2>6. Clicked(u)'  BY <2>4 DEF Clicked, Page!Free, Page!Nothing
  <2>7. Reached(u)'  BY <2>4 DEF Reached
  <2>8. Told(u)'
    <3>1. Told(u) /\ Untold(u) = {}  BY <1>c, <2>1 DEF Untold
    <3> QED  BY <2>1, <2>4, <3>1 DEF Told
  <2>9. Counters'  BY <1>a, <2>1 DEF Counters, Page!Rows
  <2>11. doubt' \in [Users -> SUBSET (0 .. MaxKeys)] /\ \A v \in Users \ {u} : doubt'[v] = doubt[v]
    BY <1>a, <2>2 DEF KeysType
  <2>12. shown' = [shown EXCEPT ![u] = shown[u]]  BY <1>e, <2>1
  <2> HIDE DEF req, did
  <2> QED  BY <1>e, <1>f, <2>1, <2>3, <2>6, <2>7, <2>8, <2>9, <2>11, <2>12, PageStep
<1>6. ASSUME NEW u \in Users, Page!RevokeRotated(u) PROVE KeysInv'
  <2> PICK i : i = user[u].key  OBVIOUS
  <2> DEFINE req == [pc |-> "create", key |-> i]
  <2>1. /\ user[u].pc = "revoke" /\ i \in Page!Rows /\ i \in 1 .. MaxKeys
        /\ doing[u].click = "rotate" /\ doing[u].key = i
        /\ user' = [user EXCEPT ![u] = req]
        /\ status' = [status EXCEPT ![i] = "revoked"]
        /\ doubt' = [v \in Users |-> IF v # u /\ (shown[v][i] = "active" \/ user[v].key = i)
                                     THEN doubt[v] \cup {i} ELSE doubt[v]]
        /\ UNCHANGED <<revocations, losses, known, shown, doing>>
    BY <1>6, <1>c DEF Page!RevokeRotated, Page!RevokeOld, Page!Goto, Page!Behind, Clicked, Reached, Page!Rows
  <2>2. /\ status' \in [1 .. MaxKeys -> KeyStates] /\ RowsGrow
        /\ status'[i] = "revoked" /\ \A j \in 1 .. MaxKeys \ {i} : status'[j] = status[j]
        /\ Page!Rows' = Page!Rows
    BY <2>1, RevokedRow
  <2>3. req \in Requests  BY <1>d, <2>1 DEF Requests
  <2>4. user'[u] = req /\ doing'[u] = doing[u] /\ shown'[u] = shown[u] /\ doubt'[u] = doubt[u]
    BY <1>a, <2>1 DEF KeysType
  <2>5. /\ doubt' \in [Users -> SUBSET (0 .. MaxKeys)] /\ \A v \in Users : doubt[v] \subseteq doubt'[v]
        /\ \A v \in Users \ {u} : shown[v][i] = "active" \/ user[v].key = i => i \in doubt'[v]
    BY <1>a, <1>d, <2>1 DEF KeysType
  <2>6. Clicked(u)'
    <3>1. Clicked(u)  BY <1>c
    <3>2. ~Page!Free(u)  BY <2>1, <3>1 DEF Clicked
    <3>3. ~Page!Free(u)'  BY <2>1, <3>2 DEF Page!Free, Page!Nothing
    <3> QED  BY <2>1, <2>4, <3>1, <3>3 DEF Clicked
  <2>7. Reached(u)'  BY <2>1, <2>2, <2>4 DEF Reached
  <2>8. Told(u)'
    <3>1. Told(u) /\ Untold(u) = {} /\ Untold(u)' = {i}  BY <1>c, <2>1, <2>4 DEF Untold
    <3> QED  BY <2>2, <2>4, <3>1 DEF Told
  <2>9. Counters'  BY <1>a, <2>1, <2>2 DEF Counters
  <2>12. shown' = [shown EXCEPT ![u] = shown[u]] /\ doing' = [doing EXCEPT ![u] = doing[u]]  BY <1>e, <2>1
  <2>13. Page!Rows' = 1 .. n  BY <1>b, <2>2
  <2>14. \A v \in Users \ {u}, j \in 1 .. MaxKeys :
           status[j] = "active" /\ status'[j] = "revoked" /\ (shown[v][j] = "active" \/ user[v].key = j)
             => j \in doubt'[v]
    BY <2>2, <2>5
  <2> HIDE DEF req
  <2> QED  BY <1>e, <2>1, <2>2, <2>3, <2>5, <2>6, <2>7, <2>8, <2>9, <2>12, <2>13, <2>14, PageStep
<1>7. ASSUME NEW u \in Users, Page!Replace(u) PROVE KeysInv'
  <2>1. PICK i \in 1 .. MaxKeys :
           /\ status[i] = "absent" /\ status' = [status EXCEPT ![i] = "active"]
           /\ user' = [user EXCEPT ![u] = [pc |-> "answer", key |-> i]]
           /\ UNCHANGED <<revocations, losses, known>>
           /\ RowsGrow /\ \E m \in 1 .. MaxKeys : Page!Rows' = 1 .. m
    BY <1>7, Inserted DEF Page!Replace, Page!CreateReplacement
  <2>2. user[u].pc = "create" /\ UNCHANGED <<shown, doing, doubt>> /\ doing[u].click = "rotate"
    BY <1>7, <1>c DEF Page!Replace, Page!CreateReplacement, Page!pageVars, Clicked
  <2> DEFINE req == [pc |-> "answer", key |-> i]
  <2>3. req \in Requests  BY <1>d DEF Requests
  <2>4. user'[u] = req /\ doing'[u] = doing[u] /\ shown'[u] = shown[u] /\ doubt'[u] = doubt[u]
    BY <1>a, <2>1, <2>2 DEF KeysType
  <2>5. /\ status' \in [1 .. MaxKeys -> KeyStates] /\ status'[i] = "active"
        /\ \A j \in 1 .. MaxKeys \ {i} : status'[j] = status[j]
    BY <1>a, <2>1 DEF KeysType, KeyStates
  <2>x. doing[u].key # i /\ status[doing[u].key] = "revoked" /\ doing[u].key \in 1 .. MaxKeys
    BY <1>c, <2>1, <2>2 DEF Reached, Clicked
  <2>6. Clicked(u)'
    <3>1. Clicked(u)  BY <1>c
    <3>2. ~Page!Free(u)  BY <2>2, <3>1 DEF Clicked
    <3>3. ~Page!Free(u)'  BY <2>2, <3>2 DEF Page!Free, Page!Nothing
    <3> QED  BY <2>2, <2>4, <3>1, <3>3 DEF Clicked
  <2>7. Reached(u)'  BY <2>4, <2>5, <2>x DEF Reached, Page!Rows
  <2>8. Told(u)'
    <3>1. Told(u) /\ Untold(u)' = Untold(u)  BY <1>c, <2>2, <2>4 DEF Untold
    <3> QED  BY <2>1, <2>4, <2>5, <3>1 DEF Told
  <2>9. Counters'
    <3>1. Page!Rows \subseteq Page!Rows'  BY <1>a, <2>1, Grown
    <3> QED  BY <1>a, <2>1, <3>1 DEF Counters
  <2>10. \A j \in 1 .. MaxKeys : ~(status[j] = "active" /\ status'[j] = "revoked")  BY <2>1, <2>5
  <2>11. doubt' \in [Users -> SUBSET (0 .. MaxKeys)] /\ \A v \in Users \ {u} : doubt'[v] = doubt[v]
    BY <1>a, <2>2 DEF KeysType
  <2>12. doing' = [doing EXCEPT ![u] = doing[u]] /\ user' = [user EXCEPT ![u] = req]
         /\ shown' = [shown EXCEPT ![u] = shown[u]]
    BY <1>e, <2>1, <2>2
  <2> HIDE DEF req
  <2> QED  BY <1>e, <2>1, <2>3, <2>5, <2>6, <2>7, <2>8, <2>9, <2>10, <2>11, <2>12, PageStep
<1>8. ASSUME NEW u \in Users, Page!ShowSecret(u) \/ Page!ShowRevoked(u) \/ Page!ShowError(u) PROVE KeysInv'
  <2> DEFINE req == [pc |-> "idle", key |-> 0]
             did == [click |-> "none", key |-> 0]
  <2>1. /\ user[u].pc # "idle" /\ UNCHANGED <<status, revocations>>
        /\ user' = [user EXCEPT ![u] = req] /\ doing' = [doing EXCEPT ![u] = did]
    BY <1>8 DEF Page!ShowSecret, Page!Answer, Page!ShowRevoked, Page!AnswerRevocation, Page!ShowError, Page!Lose,
                Page!Goto, Page!Nothing
  <2>2. req \in Requests /\ did \in Clicks  BY <1>d DEF Requests, Clicks
  <2>3. user'[u] = req /\ doing'[u] = did  BY <1>a, <2>1 DEF KeysType
  <2>4. Clicked(u)'  BY <2>3 DEF Clicked, Page!Free, Page!Nothing
  <2>5. Reached(u)'  BY <2>3 DEF Reached
  <2>6. Untold(u)' = {}  BY <2>3 DEF Untold
  <2> HIDE DEF req, did
  <2>c. Clicked(u) /\ Reached(u) /\ Told(u)  BY <1>c
  <2>7. CASE Page!ShowSecret(u)
    <3> DEFINE t == Page!Upserted(u, user[u].key)
    <3>1. /\ user[u].pc = "answer" /\ known' = known \cup {user[u].key}
          /\ shown' = [shown EXCEPT ![u] = t] /\ UNCHANGED <<losses, doubt>>
      BY <2>7 DEF Page!ShowSecret, Page!Answer
    <3>2. user[u].key \in Page!Rows  BY <2>c, <3>1 DEF Reached
    <3>3. t \in [1 .. MaxKeys -> KeyStates]
      BY <1>e DEF Page!Upserted, KeyStates
    <3>4. shown'[u] = t /\ doubt'[u] = doubt[u]  BY <1>a, <3>1 DEF KeysType
    <3>5. Told(u)'
      <4>1. ASSUME NEW j \in 1 .. MaxKeys
            PROVE  /\ t[j] = "revoked" => status[j] = "revoked"
                   /\ t[j] = "active" => status[j] = "active" \/ j \in doubt[u]
        <5>1. CASE j = user[u].key
          <6>1. t[j] = "active"  BY <5>1 DEF Page!Upserted
          <6> QED  BY <2>c, <3>1, <5>1, <6>1 DEF Reached
        <5>2. CASE j # user[u].key /\ doing[u].click = "rotate" /\ j = doing[u].key
          <6>1. t[j] = "revoked"  BY <5>2 DEF Page!Upserted
          <6> QED  BY <2>c, <3>1, <5>2, <6>1 DEF Reached
        <5>3. CASE j # user[u].key /\ ~(doing[u].click = "rotate" /\ j = doing[u].key)
          <6>1. t[j] = shown[u][j]  BY <5>3 DEF Page!Upserted
          <6>2. Untold(u) = {doing[u].key}  BY <3>1 DEF Untold
          <6>3. j # doing[u].key  BY <1>d, <2>c, <3>1, <5>3 DEF Clicked
          <6> QED  BY <2>c, <6>1, <6>2, <6>3 DEF Told
        <5> QED  BY <5>1, <5>2, <5>3
      <4> HIDE DEF t
      <4> QED  BY <2>1, <3>4, <4>1 DEF Told
    <3>6. Counters'  BY <1>a, <2>1, <3>1, <3>2 DEF Counters, Page!Rows
    <3>7. doubt' \in [Users -> SUBSET (0 .. MaxKeys)] /\ \A v \in Users \ {u} : doubt'[v] = doubt[v]
      BY <1>a, <3>1 DEF KeysType
    <3> HIDE DEF t
    <3> QED  BY <1>f, <2>1, <2>2, <2>4, <2>5, <3>1, <3>3, <3>5, <3>6, <3>7, PageStep
  <2>8. CASE Page!ShowRevoked(u)
    <3> DEFINE k == user[u].key
               t == IF user[u].pc = "revoked" THEN [shown[u] EXCEPT ![k] = "revoked"] ELSE shown[u]
    <3>1. /\ user[u].pc \in {"revoked", "missing"} /\ UNCHANGED <<losses, known, doubt>>
          /\ shown' = [shown EXCEPT ![u] = t]
      BY <1>a, <1>e, <2>8 DEF Page!ShowRevoked, Page!AnswerRevocation, KeysType
    <3>2. t \in [1 .. MaxKeys -> KeyStates]  BY <1>e DEF KeyStates
    <3>3. shown'[u] = t /\ doubt'[u] = doubt[u]  BY <1>a, <3>1 DEF KeysType
    <3>4. Told(u)'
      <4>1. ASSUME NEW j \in 1 .. MaxKeys
            PROVE  /\ t[j] = "revoked" => status[j] = "revoked"
                   /\ t[j] = "active" => status[j] = "active" \/ j \in doubt[u]
        <5>1. CASE user[u].pc = "revoked"
          <6>1. Untold(u) = {k} /\ status[k] = "revoked"  BY <2>c, <5>1 DEF Untold, Clicked, Reached
          <6>2. t[j] = IF j = k THEN "revoked" ELSE shown[u][j]  BY <1>e, <5>1
          <6> HIDE DEF t, k
          <6> QED  BY <2>c, <6>1, <6>2 DEF Told
        <5>2. CASE user[u].pc = "missing"
          <6>1. Untold(u) = {} /\ t = shown[u]  BY <5>2 DEF Untold
          <6> QED  BY <2>c, <6>1 DEF Told
        <5> QED  BY <3>1, <5>1, <5>2
      <4> HIDE DEF t
      <4> QED  BY <2>1, <3>3, <4>1 DEF Told
    <3>6. Counters'  BY <1>a, <2>1, <3>1 DEF Counters, Page!Rows
    <3>7. doubt' \in [Users -> SUBSET (0 .. MaxKeys)] /\ \A v \in Users \ {u} : doubt'[v] = doubt[v]
      BY <1>a, <3>1 DEF KeysType
    <3> HIDE DEF t
    <3> QED  BY <1>f, <2>1, <2>2, <2>4, <2>5, <3>1, <3>2, <3>4, <3>6, <3>7, PageStep
  <2>9. CASE Page!ShowError(u)
    <3>1. /\ losses < MaxLosses /\ losses' = losses + 1 /\ UNCHANGED <<known, shown>>
          /\ doubt' = [doubt EXCEPT ![u] = @ \cup {doing[u].key}]
      BY <2>9 DEF Page!ShowError, Page!Lose
    <3>2. doing[u].key \in 0 .. MaxKeys  BY <1>e DEF Clicks
    <3>3. /\ doubt' \in [Users -> SUBSET (0 .. MaxKeys)] /\ \A v \in Users \ {u} : doubt'[v] = doubt[v]
          /\ doubt'[u] = doubt[u] \cup {doing[u].key} /\ shown'[u] = shown[u]
      BY <1>a, <3>1, <3>2 DEF KeysType
    <3>4. Told(u)'
      <4>1. Untold(u) \subseteq {doing[u].key}  BY DEF Untold
      <4> QED  BY <2>1, <2>c, <3>3, <4>1 DEF Told
    <3>5. Counters'  BY <1>0, <1>a, <2>1, <3>1 DEF Counters, Page!Rows
    <3>6. shown' = [shown EXCEPT ![u] = shown[u]]  BY <1>e, <3>1
    <3> QED  BY <1>e, <1>f, <2>1, <2>2, <2>4, <2>5, <3>3, <3>4, <3>5, <3>6, PageStep
  <2> QED  BY <1>8, <2>7, <2>8, <2>9
<1>9. CASE UNCHANGED Page!allVars
  <2>1. UNCHANGED <<status, user, revocations, losses, known, shown, doing, doubt>>
    BY <1>9 DEF Page!allVars, Page!keyVars, Page!pageVars
  <2>2. Counters' /\ KeysType'  BY <1>a, <2>1 DEF Counters, KeysType, Page!Rows
  <2>3. Page!PageTypeOK'  BY <2>2, KeysTyped
  <2>4. Page!Rows' = 1 .. n /\ RowsGrow  BY <1>f, <2>1
  <2>5. ASSUME NEW u \in Users PROVE Clicked(u)' /\ Reached(u)' /\ Told(u)'
    <3>1. \A i \in 1 .. MaxKeys : ~(status[i] = "active" /\ status'[i] = "revoked")  BY <1>f, <2>1
    <3> QED  BY <2>1, <2>4, <3>1, OthersKept
  <2> QED  BY <2>3, <2>4, <2>5 DEF KeysInv
<1> QED
  BY <1>1, <1>2, <1>3, <1>4, <1>5, <1>6, <1>7, <1>8, <1>9 DEF Page!Next, Page!Proceed, Page!Revoke

(* What the table of the keys calls revoked is, and what it calls active   *)
(* is unless another has changed it or an answer about it was lost, for    *)
(* every number of admins, keys, rotations and losses                      *)
(* (ApiKeysManager.tsx:24).                                                *)
THEOREM KeysHold ==
  ASSUME Page!KeysAssumption
  PROVE  Page!Spec => []KeysTold
<1>1. Page!InitPage => KeysInv  BY KeysStart
<1>2. KeysInv /\ [Page!Next]_(Page!allVars) => KeysInv'  BY KeysStep
<1>3. KeysInv => KeysTold
  <2> SUFFICES ASSUME KeysInv PROVE KeysTold  OBVIOUS
  <2>1. ASSUME NEW u \in Users, Page!Free(u) PROVE Untold(u) = {}
    BY <2>1 DEF KeysInv, Clicked, Untold, Page!At
  <2>2. Page!TableTells
    BY <2>1 DEF KeysInv, Told, Page!TableTells
  <2> QED  BY <2>2 DEF KeysInv, KeysTold, Page!KeysTold
<1> QED  BY <1>1, <1>2, <1>3, PTL DEF Page!Spec
-----------------------------------------------------------------------------
(* The alert rules and the alerts they route.                              *)

(* The inductive invariant: nobody goes by a limit there has not been, and *)
(* who counted the rules is among the most who did; a delivery without a   *)
(* failure waits for the channels that do not have the event.              *)
Counted ==
  /\ MaxRules[plan] <= allowance
  /\ \A c \in Creators : creator[c].max <= allowance
  /\ Cardinality(Routes!Creating) <= peak

Delivered(a) ==
  LET d == dispatch[a]
  IN /\ d.pc \in {"idle", "handled"} => d.open = {}
     /\ d.pc = "failed" => d.failing
     /\ d.pc \in {"sending", "handled"} => ~d.failing /\ wanted[a] \ d.open \subseteq received[a]

RulesInv ==
  /\ Routes!TypeOK /\ Counted /\ Routes!RulesBounded
  /\ \A a \in Alerts : Delivered(a)

(* Routes' own Cardinality is that of FiniteSets.                          *)
LEMMA RuleSizes ==
  \A S : Routes!Cardinality(S) = Cardinality(S)
  BY DEF Routes!Cardinality, Cardinality

Creation == [Creators -> [pc : {"idle", "list", "create", "created", "refused"}, max : Nat]]
Dispatching ==
  [Alerts -> [pc : {"idle", "sending", "failed", "handled"}, open : SUBSET Channels,
              attempt : 0 .. Attempts, failing : BOOLEAN]]

LEMMA RulesStart ==
  ASSUME Routes!RulesAssumption, Routes!Init
  PROVE  RulesInv
<1>0. /\ MaxRules \in [Plans -> Nat \ {0}] /\ Attempts \in Nat \ {0} /\ MaxEdits \in Nat
      /\ IsFiniteSet(Creators)
  BY DEF Routes!RulesAssumption, Routes!IsFiniteSet, IsFiniteSet
<1>1. /\ plan \in Plans /\ rules = <<>> /\ edits = 0 /\ allowance = MaxRules[plan] /\ peak = 0
      /\ creator = [c \in Creators |-> [pc |-> "idle", max |-> 0]]
      /\ dispatch = [a \in Alerts |-> [pc |-> "idle", open |-> {}, attempt |-> 0, failing |-> FALSE]]
      /\ wanted = [a \in Alerts |-> {}] /\ received = [a \in Alerts |-> {}]
  BY DEF Routes!Init
<1>2. DOMAIN rules = {} /\ Routes!Creating = {}  BY <1>1 DEF Routes!Creating, Routes!At
<1>3. Cardinality({}) = 0  BY FS_EmptySet
<1>4. allowance \in Nat /\ creator \in Creation /\ dispatch \in Dispatching /\ edits \in 0 .. MaxEdits
  <2>1. 0 \in 0 .. Attempts  BY <1>0
  <2> QED  BY <1>0, <1>1, <2>1 DEF Creation, Dispatching
<1>5. Routes!TypeOK  BY <1>1, <1>2, <1>4 DEF Routes!TypeOK, Creation, Dispatching
<1>6. Counted /\ Routes!RulesBounded
  BY <1>0, <1>1, <1>2, <1>3, <1>4, RuleSizes DEF Counted, Routes!RulesBounded
<1>7. \A a \in Alerts : Delivered(a)  BY <1>1 DEF Delivered
<1> QED  BY <1>5, <1>6, <1>7 DEF RulesInv

(* The rules and their creators, and the parts of a step that are not about*)
(* the alerts.                                                             *)
RulesType ==
  /\ plan \in Plans /\ edits \in 0 .. MaxEdits /\ allowance \in Nat /\ peak \in Nat
  /\ DOMAIN rules \subseteq Creators
  /\ \A i \in DOMAIN rules : Routes!At(i, "created") /\ rules[i] \in Drafts
  /\ creator \in Creation

Numbered ==
  /\ IsFiniteSet(DOMAIN rules) /\ IsFiniteSet(Routes!Creating)
  /\ Cardinality(DOMAIN rules) \in Nat /\ Cardinality(Routes!Creating) \in Nat

LEMMA RulesNumbered ==
  ASSUME Routes!RulesAssumption, DOMAIN rules \subseteq Creators
  PROVE  Numbered
<1>1. IsFiniteSet(Creators)  BY DEF Routes!RulesAssumption, Routes!IsFiniteSet, IsFiniteSet
<1>2. IsFiniteSet(DOMAIN rules) /\ IsFiniteSet(Routes!Creating)
  BY <1>1, FS_Subset DEF Routes!Creating
<1> QED  BY <1>2, FS_CardinalityType DEF Numbered

LEMMA CountedSame ==
  (Counted /\ Routes!RulesBounded) <=>
    /\ MaxRules[plan] <= allowance
    /\ \A c \in Creators : creator[c].max <= allowance
    /\ Cardinality(Routes!Creating) <= peak
    /\ Cardinality(DOMAIN rules) + Cardinality(Routes!Creating) <= allowance + (IF peak = 0 THEN 0 ELSE peak - 1)
  BY RuleSizes DEF Counted, Routes!RulesBounded

LEMMA RulesStep ==
  ASSUME Routes!RulesAssumption, RulesInv, [Routes!Next]_(Routes!rulesVars)
  PROVE  RulesType' /\ Counted' /\ Routes!RulesBounded'
<1> USE DEF Routes!At
<1>0. /\ MaxRules \in [Plans -> Nat \ {0}] /\ MaxEdits \in Nat /\ IsFiniteSet(Creators)
  BY DEF Routes!RulesAssumption, Routes!IsFiniteSet, IsFiniteSet
<1>a. RulesType /\ Numbered
  BY RulesNumbered DEF RulesInv, Routes!TypeOK, RulesType, Creation
<1> DEFINE rows == Cardinality(DOMAIN rules)
           creating == Cardinality(Routes!Creating)
           rows1 == Cardinality(DOMAIN rules')
           creating1 == Cardinality(Routes!Creating')
           slack == IF peak = 0 THEN 0 ELSE peak - 1
           slack1 == IF peak' = 0 THEN 0 ELSE peak' - 1
<1>b. /\ MaxRules[plan] <= allowance /\ \A c \in Creators : creator[c].max <= allowance
      /\ creating <= peak /\ rows + creating <= allowance + slack
  BY CountedSame DEF RulesInv
<1>c. rows \in Nat /\ creating \in Nat /\ allowance \in Nat /\ peak \in Nat /\ slack \in Nat
  <2>1. rows \in Nat /\ creating \in Nat /\ allowance \in Nat /\ peak \in Nat
    BY <1>a DEF Numbered, RulesType
  <2> QED  BY <2>1
<1>d. ASSUME MaxRules[plan'] <= allowance', \A c \in Creators : creator'[c].max <= allowance',
             creating1 <= peak', rows1 + creating1 <= allowance' + slack'
      PROVE  Counted' /\ Routes!RulesBounded'
  BY <1>d, RuleSizes DEF Counted, Routes!RulesBounded
<1>1. ASSUME NEW c \in Creators, Routes!GetOrg(c) PROVE RulesType' /\ Counted' /\ Routes!RulesBounded'
  <2>1. /\ creator[c].pc = "idle"
        /\ creator' = [creator EXCEPT ![c] = [pc |-> "list", max |-> MaxRules[plan]]]
        /\ UNCHANGED <<plan, rules, edits, allowance, peak>>
    BY <1>1 DEF Routes!GetOrg
  <2>2. [pc |-> "list", max |-> MaxRules[plan]] \in [pc : {"idle", "list", "create", "created", "refused"}, max : Nat]
    BY <1>0, <1>a DEF RulesType
  <2>3. /\ creator' \in Creation /\ creator'[c] = [pc |-> "list", max |-> MaxRules[plan]]
        /\ \A d \in Creators \ {c} : creator'[d] = creator[d]
    BY <1>a, <2>1, <2>2 DEF RulesType, Creation
  <2>4. RulesType'  BY <1>a, <2>1, <2>3 DEF RulesType, Creation
  <2>5. Routes!Creating' = Routes!Creating /\ DOMAIN rules' = DOMAIN rules
    BY <2>1, <2>3 DEF Routes!Creating
  <2>6. \A d \in Creators : creator'[d].max <= allowance'  BY <1>b, <2>1, <2>3
  <2> HIDE DEF rows, creating
  <2> QED  BY <1>b, <1>d, <2>1, <2>4, <2>5, <2>6 DEF rows, creating
<1>2. ASSUME NEW c \in Creators, Routes!List(c) PROVE RulesType' /\ Counted' /\ Routes!RulesBounded'
  <2>1. /\ creator[c].pc = "list"
        /\ creator' = [creator EXCEPT ![c].pc = IF rows < creator[c].max THEN "create" ELSE "refused"]
        /\ peak' = IF rows < creator[c].max /\ creating = peak THEN peak + 1 ELSE peak
        /\ UNCHANGED <<plan, rules, edits, allowance>>
    BY <1>2, RuleSizes DEF Routes!List, Routes!Room
  <2> DEFINE pc == IF rows < creator[c].max THEN "create" ELSE "refused"
  <2>2. /\ creator' \in Creation /\ creator'[c].pc = pc /\ creator'[c].max = creator[c].max
        /\ \A d \in Creators \ {c} : creator'[d] = creator[d]
    <3> DEFINE R == [pc : {"idle", "list", "create", "created", "refused"}, max : Nat]
               r == [creator[c] EXCEPT !.pc = pc]
    <3>1. creator \in [Creators -> R]  BY <1>a DEF RulesType, Creation
    <3>2. pc \in {"idle", "list", "create", "created", "refused"}  OBVIOUS
    <3>3. creator' = [creator EXCEPT ![c] = r]  BY <2>1, <3>1
    <3> HIDE DEF pc
    <3>4. r \in R /\ r.pc = pc /\ r.max = creator[c].max  BY <3>1, <3>2
    <3> HIDE DEF R, r
    <3>5. creator' \in [Creators -> R] /\ creator'[c] = r /\ \A d \in Creators \ {c} : creator'[d] = creator[d]
      BY <3>1, <3>3, <3>4
    <3> QED  BY <3>4, <3>5 DEF R, Creation
  <2>3. peak' \in Nat  BY <1>c, <2>1
  <2>4. RulesType'
    <3>1. \A i \in DOMAIN rules : i # c /\ creator'[i] = creator[i]
      <4> HIDE DEF pc
      <4> QED  BY <1>a, <2>1, <2>2 DEF RulesType
    <3> QED  BY <1>a, <2>1, <2>2, <2>3, <3>1 DEF RulesType, Creation
  <2>5. \A d \in Creators : creator'[d].max <= allowance'
    <3> HIDE DEF pc
    <3> QED  BY <1>b, <2>1, <2>2
  <2>6. CASE rows < creator[c].max
    <3>1. pc = "create"  BY <2>6
    <3>2. c \notin Routes!Creating /\ Routes!Creating' = Routes!Creating \cup {c}
      <4> HIDE DEF rows, creating, pc
      <4> QED  BY <2>1, <2>2, <3>1 DEF Routes!Creating
    <3>3. creating1 = creating + 1  BY <1>a, <3>2, FS_AddElement DEF Numbered
    <3>4. rows1 = rows  BY <2>1
    <3>5. creator[c].max \in Nat /\ creator[c].max <= allowance  BY <1>a, <1>b DEF RulesType, Creation
    <3>6. peak' = (IF creating = peak THEN peak + 1 ELSE peak) /\ allowance' = allowance  BY <2>1, <2>6
    <3> HIDE DEF rows, creating, rows1, creating1, pc
    <3>7. creating1 <= peak' /\ rows1 + creating1 <= allowance' + slack'
      BY <1>b, <1>c, <2>6, <3>3, <3>4, <3>5, <3>6
    <3> QED  BY <1>b, <1>d, <2>1, <2>4, <2>5, <3>7
  <2>7. CASE ~(rows < creator[c].max)
    <3>1. pc = "refused" /\ peak' = peak  BY <2>1, <2>7
    <3>2. Routes!Creating' = Routes!Creating /\ DOMAIN rules' = DOMAIN rules
      <4> HIDE DEF rows, creating, pc
      <4> QED  BY <2>1, <2>2, <3>1 DEF Routes!Creating
    <3> HIDE DEF rows, creating, pc
    <3> QED  BY <1>b, <1>d, <2>1, <2>4, <2>5, <3>1, <3>2 DEF rows, creating
  <2> QED  BY <2>6, <2>7
<1>3. ASSUME NEW c \in Creators, Routes!Create(c) PROVE RulesType' /\ Counted' /\ Routes!RulesBounded'
  <2>1. PICK r \in Drafts : rules' = [i \in DOMAIN rules \cup {c} |-> IF i = c THEN r ELSE rules[i]]
    BY <1>3 DEF Routes!Create
  <2>2. /\ creator[c].pc = "create" /\ creator' = [creator EXCEPT ![c].pc = "created"]
        /\ UNCHANGED <<plan, edits, allowance, peak>>
    BY <1>3 DEF Routes!Create
  <2>3. /\ creator' \in Creation /\ creator'[c].pc = "created" /\ creator'[c].max = creator[c].max
        /\ \A d \in Creators \ {c} : creator'[d] = creator[d]
    BY <1>a, <2>2 DEF RulesType, Creation
  <2>4. DOMAIN rules' = DOMAIN rules \cup {c} /\ c \notin DOMAIN rules
    BY <1>a, <2>1, <2>2 DEF RulesType
  <2>5. RulesType'  BY <1>a, <2>1, <2>2, <2>3, <2>4 DEF RulesType, Creation
  <2>6. c \in Routes!Creating /\ Routes!Creating' = Routes!Creating \ {c}
    BY <2>2, <2>3 DEF Routes!Creating
  <2>7. rows1 = rows + 1  BY <1>a, <2>4, FS_AddElement DEF Numbered
  <2>8. creating1 = creating - 1  BY <1>a, <2>6, FS_RemoveElement DEF Numbered
  <2>9. \A d \in Creators : creator'[d].max <= allowance'  BY <1>b, <2>2, <2>3
  <2>10. allowance' = allowance /\ peak' = peak /\ plan' = plan  BY <2>2
  <2> HIDE DEF rows, creating, rows1, creating1
  <2>11. creating1 <= peak' /\ rows1 + creating1 <= allowance' + slack'
    BY <1>b, <1>c, <2>7, <2>8, <2>10
  <2> QED  BY <1>b, <1>d, <2>5, <2>9, <2>10, <2>11
<1>4. ASSUME Routes!Edit, UNCHANGED <<plan, creator, allowance, peak>>, DOMAIN rules' \subseteq DOMAIN rules,
             \A i \in DOMAIN rules' : rules'[i] \in Drafts
      PROVE  RulesType' /\ Counted' /\ Routes!RulesBounded'
  <2>1. edits' \in 0 .. MaxEdits  BY <1>0, <1>a, <1>4 DEF Routes!Edit, RulesType
  <2>2. RulesType'  BY <1>a, <1>4, <2>1 DEF RulesType, Creation
  <2>3. Routes!Creating' = Routes!Creating  BY <1>4 DEF Routes!Creating
  <2>4. rows1 \in Nat /\ rows1 <= rows
    BY <1>a, <1>4, FS_Subset, FS_CardinalityType DEF Numbered
  <2>5. creating1 = creating /\ allowance' = allowance /\ peak' = peak /\ plan' = plan  BY <1>4, <2>3
  <2>6. \A d \in Creators : creator'[d].max <= allowance'  BY <1>b, <1>4
  <2> HIDE DEF rows, creating, rows1, creating1
  <2>7. creating1 <= peak' /\ rows1 + creating1 <= allowance' + slack'
    BY <1>b, <1>c, <2>4, <2>5
  <2> QED  BY <1>b, <1>d, <2>2, <2>5, <2>6, <2>7
<1>5. CASE Routes!Update
  <2>1. PICK i \in DOMAIN rules, r \in Drafts : rules' = [rules EXCEPT ![i] = r]
    BY <1>5 DEF Routes!Update
  <2>2. DOMAIN rules' = DOMAIN rules /\ \A j \in DOMAIN rules' : rules'[j] \in Drafts
    BY <1>a, <2>1 DEF RulesType
  <2> QED  BY <1>4, <1>5, <2>2 DEF Routes!Update
<1>6. CASE Routes!Delete
  <2>1. PICK i \in DOMAIN rules : rules' = [j \in DOMAIN rules \ {i} |-> rules[j]]
    BY <1>6 DEF Routes!Delete
  <2>2. DOMAIN rules' \subseteq DOMAIN rules /\ \A j \in DOMAIN rules' : rules'[j] \in Drafts
    BY <1>a, <2>1 DEF RulesType
  <2> QED  BY <1>4, <1>6, <2>2 DEF Routes!Delete
<1>7. CASE Routes!ChangePlan
  <2>1. PICK p \in Plans : /\ plan' = p
                           /\ allowance' = IF MaxRules[p] > allowance THEN MaxRules[p] ELSE allowance
    BY <1>7 DEF Routes!ChangePlan
  <2>2. Routes!Edit /\ UNCHANGED <<rules, creator, peak>>  BY <1>7 DEF Routes!ChangePlan
  <2>3. MaxRules[p] \in Nat /\ allowance' \in Nat /\ allowance <= allowance' /\ MaxRules[p] <= allowance'
    BY <1>0, <1>c, <2>1
  <2>4. edits' \in 0 .. MaxEdits  BY <1>0, <1>a, <2>2 DEF Routes!Edit, RulesType
  <2>5. RulesType'  BY <1>a, <2>1, <2>2, <2>3, <2>4 DEF RulesType, Creation
  <2>6. \A d \in Creators : creator'[d].max <= allowance'
    <3>1. ASSUME NEW d \in Creators PROVE creator[d].max \in Nat /\ creator[d].max <= allowance
      BY <1>a, <1>b DEF RulesType, Creation
    <3> QED  BY <1>c, <2>2, <2>3, <3>1
  <2>7. creating1 = creating /\ rows1 = rows /\ peak' = peak  BY <2>2 DEF Routes!Creating
  <2> HIDE DEF rows, creating, rows1, creating1
  <2>8. creating1 <= peak' /\ rows1 + creating1 <= allowance' + slack'
    BY <1>b, <1>c, <2>3, <2>7
  <2> QED  BY <1>d, <2>1, <2>3, <2>5, <2>6, <2>8
<1>8. ASSUME UNCHANGED <<plan, rules, creator, edits, allowance, peak>>
      PROVE  RulesType' /\ Counted' /\ Routes!RulesBounded'
  <2>1. RulesType'  BY <1>a, <1>8 DEF RulesType, Creation
  <2>2. Routes!Creating' = Routes!Creating  BY <1>8 DEF Routes!Creating
  <2>3. creating1 <= peak' /\ rows1 + creating1 <= allowance' + slack'  BY <1>b, <1>8, <2>2
  <2> QED  BY <1>b, <1>d, <1>8, <2>1, <2>3
<1>9. CASE (\E a \in Alerts : Routes!Dispatch(a) \/ Routes!Sent(a) \/ Routes!SendFails(a)) \/ UNCHANGED Routes!rulesVars
  <2>1. UNCHANGED <<plan, rules, creator, edits, allowance, peak>>
    BY <1>9 DEF Routes!Dispatch, Routes!Sent, Routes!SendFails, Routes!rulesVars
  <2> QED  BY <1>8, <2>1
<1> QED  BY <1>1, <1>2, <1>3, <1>5, <1>6, <1>7, <1>9 DEF Routes!Next

AlertsType ==
  /\ dispatch \in Dispatching
  /\ wanted \in [Alerts -> SUBSET Channels] /\ received \in [Alerts -> SUBSET Channels]

LEMMA TargetsTyped ==
  ASSUME Routes!RulesAssumption, RulesType, NEW a \in Alerts
  PROVE  Routes!Targets(a) \subseteq Channels
BY DEF Routes!Targets

LEMMA AlertsStep ==
  ASSUME Routes!RulesAssumption, RulesInv, [Routes!Next]_(Routes!rulesVars)
  PROVE  AlertsType' /\ \A a \in Alerts : Delivered(a)'
<1>0. Attempts \in Nat \ {0}  BY DEF Routes!RulesAssumption
<1>a. AlertsType /\ RulesType
  BY DEF RulesInv, Routes!TypeOK, AlertsType, RulesType, Dispatching, Creation
<1>b. \A a \in Alerts : Delivered(a)  BY DEF RulesInv
<1> DEFINE R == [pc : {"idle", "sending", "failed", "handled"}, open : SUBSET Channels,
                 attempt : 0 .. Attempts, failing : BOOLEAN]
<1>c. dispatch \in [Alerts -> R] /\ Dispatching = [Alerts -> R]  BY <1>a DEF AlertsType, Dispatching
<1>1. ASSUME UNCHANGED <<dispatch, wanted, received>> PROVE AlertsType' /\ \A a \in Alerts : Delivered(a)'
  BY <1>a, <1>b, <1>1 DEF AlertsType, Dispatching, Delivered
<1>2. ASSUME NEW a \in Alerts, NEW r \in R, NEW got \in SUBSET Channels, NEW want \in SUBSET Channels,
             dispatch' = [dispatch EXCEPT ![a] = r], wanted' = [wanted EXCEPT ![a] = want],
             received' = [received EXCEPT ![a] = got],
             r.pc \in {"idle", "handled"} => r.open = {}, r.pc = "failed" => r.failing,
             r.pc \in {"sending", "handled"} => ~r.failing /\ want \ r.open \subseteq got
      PROVE  AlertsType' /\ \A b \in Alerts : Delivered(b)'
  <2> HIDE DEF R
  <2>1. dispatch' \in [Alerts -> R] /\ dispatch'[a] = r /\ \A b \in Alerts \ {a} : dispatch'[b] = dispatch[b]
    BY <1>c, <1>2
  <2>2. /\ wanted' \in [Alerts -> SUBSET Channels] /\ received' \in [Alerts -> SUBSET Channels]
        /\ wanted'[a] = want /\ received'[a] = got
        /\ \A b \in Alerts \ {a} : wanted'[b] = wanted[b] /\ received'[b] = received[b]
    BY <1>a, <1>2 DEF AlertsType
  <2>3. AlertsType'  BY <2>1, <2>2 DEF AlertsType, Dispatching, R
  <2>4. ASSUME NEW b \in Alerts PROVE Delivered(b)'
    <3>1. CASE b = a  BY <1>2, <2>1, <2>2, <3>1 DEF Delivered
    <3>2. CASE b # a  BY <1>b, <2>1, <2>2, <3>2 DEF Delivered
    <3> QED  BY <3>1, <3>2
  <2> QED  BY <2>3, <2>4
<1>3. ASSUME NEW a \in Alerts, Routes!Dispatch(a) PROVE AlertsType' /\ \A b \in Alerts : Delivered(b)'
  <2> DEFINE targets == Routes!Targets(a)
             r == [pc |-> IF targets = {} THEN "handled" ELSE "sending",
                   open |-> targets, attempt |-> dispatch[a].attempt + 1, failing |-> FALSE]
  <2>1. targets \subseteq Channels  BY <1>a, TargetsTyped
  <2>2. dispatch' = [dispatch EXCEPT ![a] = r] /\ dispatch[a].attempt < Attempts
    BY <1>3, <1>c DEF Routes!Dispatch
  <2>3. wanted' = [wanted EXCEPT ![a] = targets]  BY <1>3 DEF Routes!Dispatch
  <2>4. PICK late \in SUBSET dispatch[a].open : received' = [received EXCEPT ![a] = @ \cup late]
    BY <1>3 DEF Routes!Dispatch
  <2>5. dispatch[a].open \subseteq Channels /\ dispatch[a].attempt \in 0 .. Attempts  BY <1>c
  <2>6. received' = [received EXCEPT ![a] = received[a] \cup late] /\ received[a] \cup late \subseteq Channels
    BY <1>a, <2>4, <2>5 DEF AlertsType
  <2>7. dispatch[a].attempt + 1 \in 0 .. Attempts  BY <1>0, <2>2, <2>5
  <2> HIDE DEF targets
  <2>8. /\ r \in R /\ (r.pc = "handled" => r.open = {}) /\ r.pc \in {"handled", "sending"}
        /\ ~r.failing /\ targets \ r.open \subseteq received[a] \cup late
    BY <2>1, <2>7
  <2> HIDE DEF r, R
  <2> QED  BY <1>2, <2>1, <2>2, <2>3, <2>6, <2>8
<1>4. ASSUME NEW a \in Alerts, NEW c \in dispatch[a].open, NEW fails \in BOOLEAN, Routes!Settled(a, c, fails),
             UNCHANGED wanted,
             received' = IF fails THEN received ELSE [received EXCEPT ![a] = @ \cup {c}]
      PROVE  AlertsType' /\ \A b \in Alerts : Delivered(b)'
  <2> DEFINE d == dispatch[a]
             r == [d EXCEPT !.open = d.open \ {c}, !.failing = d.failing \/ fails,
                            !.pc = IF d.failing \/ fails THEN "failed"
                                   ELSE IF d.open = {c} THEN "handled" ELSE d.pc]
             got == IF fails THEN received[a] ELSE received[a] \cup {c}
  <2>1. d \in R /\ c \in d.open /\ d.open \subseteq Channels  BY <1>c, <1>4
  <2>2. dispatch' = [dispatch EXCEPT ![a] = r]  BY <1>c, <1>4 DEF Routes!Settled
  <2>3. received' = [received EXCEPT ![a] = got] /\ got \subseteq Channels
    BY <1>a, <1>4, <2>1 DEF AlertsType
  <2>4. wanted' = [wanted EXCEPT ![a] = wanted[a]] /\ wanted[a] \subseteq Channels
    BY <1>a, <1>4 DEF AlertsType
  <2>5. /\ d.pc \in {"idle", "handled"} => d.open = {}
        /\ d.pc = "failed" => d.failing
        /\ d.pc \in {"sending", "handled"} => ~d.failing /\ wanted[a] \ d.open \subseteq received[a]
    BY <1>b DEF Delivered
  <2> HIDE DEF d
  <2>6. r \in R /\ r.open = d.open \ {c} /\ r.failing = (d.failing \/ fails)
        /\ r.pc = (IF d.failing \/ fails THEN "failed" ELSE IF d.open = {c} THEN "handled" ELSE d.pc)
    BY <1>4, <2>1
  <2>7. (r.pc \in {"idle", "handled"} => r.open = {}) /\ (r.pc = "failed" => r.failing)
    BY <2>1, <2>5, <2>6
  <2>8. ASSUME r.pc \in {"sending", "handled"} PROVE ~r.failing /\ wanted[a] \ r.open \subseteq got
    <3>1. ~d.failing /\ ~fails  BY <2>6, <2>8
    <3>2. d.pc = "sending"  BY <2>1, <2>5, <3>1
    <3>3. got = received[a] \cup {c} /\ r.open = d.open \ {c}  BY <2>6, <3>1
    <3> HIDE DEF r, got
    <3> QED  BY <2>5, <2>6, <3>1, <3>2, <3>3
  <2> HIDE DEF r, R, got
  <2> QED  BY <1>2, <2>2, <2>3, <2>4, <2>6, <2>7, <2>8
<1>5. ASSUME NEW a \in Alerts, Routes!Sent(a) PROVE AlertsType' /\ \A b \in Alerts : Delivered(b)'
  <2>1. PICK c \in dispatch[a].open :
          Routes!Settled(a, c, FALSE) /\ received' = [received EXCEPT ![a] = @ \cup {c}]
    BY <1>5 DEF Routes!Sent
  <2>2. UNCHANGED wanted  BY <1>5 DEF Routes!Sent
  <2> QED  BY <1>4, <2>1, <2>2
<1>6. ASSUME NEW a \in Alerts, Routes!SendFails(a) PROVE AlertsType' /\ \A b \in Alerts : Delivered(b)'
  <2>1. PICK c \in dispatch[a].open : Routes!Settled(a, c, TRUE)  BY <1>6 DEF Routes!SendFails
  <2>2. UNCHANGED <<wanted, received>>  BY <1>6 DEF Routes!SendFails
  <2> QED  BY <1>4, <2>1, <2>2
<1>7. CASE (\E c \in Creators : Routes!GetOrg(c) \/ Routes!List(c) \/ Routes!Create(c)) \/ Routes!Update
             \/ Routes!Delete \/ Routes!ChangePlan \/ UNCHANGED Routes!rulesVars
  <2>1. UNCHANGED <<dispatch, wanted, received>>
    BY <1>7 DEF Routes!GetOrg, Routes!List, Routes!Create, Routes!Update, Routes!Delete, Routes!ChangePlan,
                Routes!rulesVars, Routes!dispatching
  <2> QED  BY <1>1, <2>1
<1> QED  BY <1>3, <1>5, <1>6, <1>7 DEF Routes!Next

(* The limit of a plan is overshot by as many rules as requests are        *)
(* between their count and their insertion, less one (service.ts:725); and *)
(* an event counts as handled only when each selected channel has it       *)
(* (alerts.ts:165), through all failures and overlapping deliveries.       *)
THEOREM AlertsHold ==
  ASSUME Routes!RulesAssumption
  PROVE  Routes!Spec => []AlertsSafe
<1>1. Routes!Init => RulesInv  BY RulesStart
<1>2. RulesInv /\ [Routes!Next]_(Routes!rulesVars) => RulesInv'
  <2> SUFFICES ASSUME RulesInv, [Routes!Next]_(Routes!rulesVars) PROVE RulesInv'  OBVIOUS
  <2>1. RulesType' /\ Counted' /\ Routes!RulesBounded'  BY RulesStep
  <2>2. AlertsType' /\ \A a \in Alerts : Delivered(a)'  BY AlertsStep
  <2>3. Routes!TypeOK'
    BY <2>1, <2>2 DEF Routes!TypeOK, RulesType, AlertsType, Creation, Dispatching
  <2> QED  BY <2>1, <2>2, <2>3 DEF RulesInv
<1>3. RulesInv => AlertsSafe
  BY DEF RulesInv, AlertsSafe, Routes!AlertsSafe, Routes!AlertsArrive, Delivered
<1> QED  BY <1>1, <1>2, <1>3, PTL DEF Routes!Spec
-----------------------------------------------------------------------------
(* The plan, as webhooks set it.                                           *)

(* The inductive invariant: as long as attempts come one at a time and in  *)
(* order, the one under way is about the latest event, and the plan is     *)
(* that of an event with which no later one that implies a plan was done.  *)
DoneWith(e) == e \in acked \/ \E a \in Deliveries : Paddle!At(a, "answer") /\ attempt[a].event = e

InOrder ==
  /\ acked \subseteq 1 .. latest
  /\ \A a \in Deliveries : ~Paddle!At(a, "idle") => attempt[a].event = latest
  /\ \E k \in 0 .. latest :
       /\ org.plan = IF k = 0 THEN "free" ELSE Paddle!ResolvePlan(k)
       /\ k # 0 => k \in Paddle!Telling
       /\ \A e \in Paddle!Telling : DoneWith(e) => e <= k

PlanInv ==
  /\ Paddle!TypeOK
  /\ \A a \in Deliveries : ~Paddle!At(a, "idle") => attempt[a].event \in 1 .. happened
  /\ happened # 0 => happened \in DOMAIN Events
  /\ \A a \in Deliveries : Paddle!At(a, "plan") /\ Events[attempt[a].event].type = "subscription"
       => org.customer # None
  /\ Paddle!PortalOpens
  /\ ~crossed => InOrder

LEMMA PlanStart ==
  ASSUME Paddle!BillingAssumption, Paddle!Init
  PROVE  PlanInv
<1>0. MaxFaults \in Nat  BY DEF Paddle!BillingAssumption
<1>1. /\ org.plan = "free" /\ org.customer = None /\ happened = 0 /\ acked = {} /\ faults = 0
      /\ latest = 0 /\ crossed = FALSE /\ attempt = [a \in Deliveries |-> [pc |-> "idle", event |-> 0]]
  BY DEF Paddle!Init, Paddle!Idle
<1>2. Paddle!TypeOK
  <2>1. latest \in 0 .. happened /\ acked \subseteq 1 .. happened /\ happened \in Nat /\ faults \in 0 .. MaxFaults
    BY <1>0, <1>1
  <2>2. org.plan \in Paddle!OrgPlans /\ org.customer \in {None}  BY <1>1 DEF Paddle!OrgPlans
  <2>3. attempt \in [Deliveries -> [pc : {"idle", "customer", "plan", "answer"}, event : 0 .. happened]]
    BY <1>1, <2>1
  <2> QED  BY <1>1, <2>1, <2>2, <2>3 DEF Paddle!TypeOK
<1>3. \A a \in Deliveries : Paddle!At(a, "idle") /\ ~Paddle!At(a, "plan")  BY <1>1 DEF Paddle!At
<1>4. Paddle!PortalOpens  BY <1>1 DEF Paddle!PortalOpens
<1>5. InOrder  BY <1>1, <1>3 DEF InOrder, Paddle!Telling
<1> QED  BY <1>1, <1>2, <1>3, <1>4, <1>5 DEF PlanInv

(* The plan that an event implies.                                         *)
LEMMA Resolved ==
  ASSUME Paddle!BillingAssumption, NEW e \in DOMAIN Events
  PROVE  /\ Paddle!ResolvePlan(e) \in Paddle!OrgPlans \cup {None}
         /\ Paddle!ResolvePlan(e) # "free" /\ Paddle!ResolvePlan(e) # None => Events[e].type = "subscription"
         /\ Events[e].type = "foreign" => Paddle!ResolvePlan(e) = None
         /\ None \notin Paddle!OrgPlans
  BY DEF Paddle!BillingAssumption, Paddle!ResolvePlan, Paddle!OrgPlans

Attempting == [Deliveries -> [pc : {"idle", "customer", "plan", "answer"}, event : 0 .. happened]]

LEMMA AttemptGoes ==
  ASSUME attempt \in Attempting, NEW a \in Deliveries, NEW pc \in {"customer", "plan", "answer"},
         Paddle!Goto(a, pc)
  PROVE  /\ attempt' \in Attempting
         /\ attempt'[a].pc = pc /\ attempt'[a].event = attempt[a].event
         /\ \A b \in Deliveries \ {a} : attempt'[b] = attempt[b]
<1> DEFINE R == [pc : {"idle", "customer", "plan", "answer"}, event : 0 .. happened]
           r == [attempt[a] EXCEPT !.pc = pc]
<1>1. attempt \in [Deliveries -> R]  BY DEF Attempting
<1>2. r \in R /\ r.pc = pc /\ r.event = attempt[a].event  BY <1>1
<1>3. attempt' = [attempt EXCEPT ![a] = r]  BY <1>1 DEF Paddle!Goto
<1> HIDE DEF R, r
<1>4. attempt' \in [Deliveries -> R] /\ attempt'[a] = r /\ \A b \in Deliveries \ {a} : attempt'[b] = attempt[b]
  BY <1>1, <1>2, <1>3
<1> QED  BY <1>2, <1>4 DEF R, Attempting

(* A step that leaves the plan as it is, and after which no event that     *)
(* implies one is done with that was not before.                           *)
LEMMA OrderKept ==
  ASSUME InOrder, UNCHANGED happened, org'.plan = org.plan, acked' \subseteq 1 .. latest',
         latest \in Nat, latest' \in Nat, latest <= latest',
         \A a \in Deliveries : attempt'[a].pc # "idle" => attempt'[a].event = latest',
         \A e \in Paddle!Telling : DoneWith(e)' => DoneWith(e)
  PROVE  InOrder'
<1>1. PICK k \in 0 .. latest :
        /\ org.plan = IF k = 0 THEN "free" ELSE Paddle!ResolvePlan(k)
        /\ k # 0 => k \in Paddle!Telling
        /\ \A e \in Paddle!Telling : DoneWith(e) => e <= k
  BY DEF InOrder
<1>2. k \in 0 .. latest'  OBVIOUS
<1>3. Paddle!Telling' = Paddle!Telling /\ Paddle!ResolvePlan(k)' = Paddle!ResolvePlan(k)
  BY DEF Paddle!Telling, Paddle!ResolvePlan
<1>4. \A e \in Paddle!Telling : DoneWith(e)' => e <= k  BY <1>1
<1>5. \A a \in Deliveries : ~Paddle!At(a, "idle")' => attempt'[a].event = latest'  BY DEF Paddle!At
<1> HIDE DEF DoneWith
<1> QED  BY <1>1, <1>2, <1>3, <1>4, <1>5 DEF InOrder

LEMMA PlanStep ==
  ASSUME Paddle!BillingAssumption, PlanInv, [Paddle!Next]_(Paddle!billingVars)
  PROVE  PlanInv'
<1> USE DEF Paddle!At
<1>0. MaxFaults \in Nat /\ \A e \in DOMAIN Events : e \in Nat /\ 1 .. e \subseteq DOMAIN Events
  BY DEF Paddle!BillingAssumption
<1>a. /\ org.plan \in Paddle!OrgPlans /\ org.customer \in {None} \cup {Events[e].customer : e \in DOMAIN Events}
      /\ happened \in Nat /\ acked \subseteq 1 .. happened /\ latest \in 0 .. happened
      /\ attempt \in Attempting
      /\ faults \in 0 .. MaxFaults /\ crossed \in BOOLEAN
  BY DEF PlanInv, Paddle!TypeOK, Attempting, Paddle!Numbers
<1>b. 1 .. happened \subseteq DOMAIN Events  BY <1>0, <1>a DEF PlanInv
<1>c. /\ \A a \in Deliveries : attempt[a].pc # "idle" => attempt[a].event \in 1 .. happened
      /\ \A a \in Deliveries : attempt[a].pc = "plan" /\ Events[attempt[a].event].type = "subscription"
           => org.customer # None
      /\ org.plan # "free" => org.customer # None
      /\ ~crossed => InOrder
      /\ happened # 0 => happened \in DOMAIN Events
  BY DEF PlanInv, Paddle!PortalOpens
<1>d. ~crossed => /\ acked \subseteq 1 .. latest
                  /\ \A a \in Deliveries : attempt[a].pc # "idle" => attempt[a].event = latest
  BY <1>c DEF InOrder
<1>e. ASSUME /\ org'.plan \in Paddle!OrgPlans
             /\ org'.customer \in {None} \cup {Events[e].customer : e \in DOMAIN Events}
             /\ UNCHANGED happened /\ acked' \subseteq 1 .. happened /\ latest' \in 0 .. happened
             /\ attempt' \in Attempting /\ faults' \in 0 .. MaxFaults /\ crossed' \in BOOLEAN,
             \A a \in Deliveries : attempt'[a].pc # "idle" => attempt'[a].event \in 1 .. happened,
             \A a \in Deliveries : attempt'[a].pc = "plan" /\ Events[attempt'[a].event].type = "subscription"
               => org'.customer # None,
             org'.plan # "free" => org'.customer # None,
             ~crossed' => InOrder'
      PROVE  PlanInv'
  <2>1. Paddle!TypeOK'
    BY <1>e, <1>a DEF Paddle!TypeOK, Attempting, Paddle!OrgPlans, Paddle!Numbers
  <2>2. Paddle!PortalOpens'  BY <1>e DEF Paddle!PortalOpens
  <2>3. happened' # 0 => happened' \in DOMAIN Events  BY <1>e, <1>c
  <2> QED  BY <1>e, <2>1, <2>2, <2>3 DEF PlanInv
<1>1. CASE Paddle!Happen
  <2>1. happened + 1 \in DOMAIN Events /\ happened' = happened + 1
        /\ UNCHANGED <<org, acked, attempt, faults, latest, crossed>>
    BY <1>1 DEF Paddle!Happen, Paddle!Numbers
  <2>2. acked' \subseteq 1 .. happened' /\ latest' \in 0 .. happened' /\ happened' \in Nat
    BY <1>a, <2>1
  <2>3. attempt' \in [Deliveries -> [pc : {"idle", "customer", "plan", "answer"}, event : 0 .. happened']]
    <3>1. 0 .. happened \subseteq 0 .. happened'  BY <1>a, <2>1
    <3> QED  BY <1>a, <2>1, <3>1 DEF Attempting
  <2>4. Paddle!TypeOK'
    BY <1>a, <2>1, <2>2, <2>3 DEF Paddle!TypeOK, Paddle!OrgPlans, Paddle!Numbers
  <2>5. \A a \in Deliveries : attempt'[a].pc # "idle" => attempt'[a].event \in 1 .. happened'
    BY <1>a, <1>c, <2>1
  <2>6. Paddle!PortalOpens'  BY <2>1 DEF PlanInv, Paddle!PortalOpens
  <2>7. ASSUME ~crossed' PROVE InOrder'
    <3>1. InOrder  BY <1>c, <2>1, <2>7
    <3>2. PICK k \in 0 .. latest :
            /\ org.plan = IF k = 0 THEN "free" ELSE Paddle!ResolvePlan(k)
            /\ k # 0 => k \in Paddle!Telling
            /\ \A e \in Paddle!Telling : DoneWith(e) => e <= k
      BY <3>1 DEF InOrder
    <3>3. /\ Paddle!Telling \subseteq Paddle!Telling'
          /\ \A e \in Paddle!Telling' : e \in Paddle!Telling \/ e = happened + 1
          /\ Paddle!ResolvePlan(k)' = Paddle!ResolvePlan(k)
      BY <1>a, <2>1 DEF Paddle!Telling, Paddle!ResolvePlan
    <3>4. \A e \in Nat : DoneWith(e)' <=> DoneWith(e)  BY <2>1 DEF DoneWith
    <3>5. ~DoneWith(happened + 1)
      <4>1. happened + 1 \notin 1 .. happened  BY <1>a
      <4> QED  BY <1>a, <1>c, <4>1 DEF DoneWith
    <3>6. \A e \in Paddle!Telling' : DoneWith(e)' => e <= k
      <4>1. Paddle!Telling' \subseteq Nat  BY DEF Paddle!Telling
      <4> HIDE DEF DoneWith
      <4> QED  BY <3>2, <3>3, <3>4, <3>5, <4>1
    <3>7. acked' \subseteq 1 .. latest' /\ \A a \in Deliveries : attempt'[a].pc # "idle" => attempt'[a].event = latest'
      BY <3>1, <2>1 DEF InOrder
    <3> HIDE DEF DoneWith
    <3> QED  BY <2>1, <3>2, <3>3, <3>6, <3>7 DEF InOrder
  <2> QED  BY <1>c, <2>1, <2>4, <2>5, <2>6, <2>7 DEF PlanInv
<1>2. ASSUME NEW a \in Deliveries, Paddle!Deliver(a) PROVE PlanInv'
  <2>1. PICK e \in DOMAIN Events :
          /\ attempt[a].pc = "idle" /\ e \in 1 .. happened /\ e \notin acked
          /\ crossed' = (crossed \/ e < latest \/ \E b \in Deliveries : attempt[b].pc # "idle")
          /\ latest' = IF e > latest THEN e ELSE latest
          /\ attempt' = [attempt EXCEPT ![a] =
               [pc |-> IF Events[e].type = "foreign" THEN "answer" ELSE "customer", event |-> e]]
    BY <1>2 DEF Paddle!Deliver, Paddle!Begin, Paddle!Numbers
  <2>2. UNCHANGED <<org, happened, acked, faults>>  BY <1>2 DEF Paddle!Deliver
  <2> DEFINE pc == IF Events[e].type = "foreign" THEN "answer" ELSE "customer"
  <2>3. /\ attempt' \in Attempting /\ attempt'[a].pc = pc /\ attempt'[a].event = e
        /\ \A b \in Deliveries \ {a} : attempt'[b] = attempt[b]
    <3>1. [pc |-> pc, event |-> e] \in [pc : {"idle", "customer", "plan", "answer"}, event : 0 .. happened]
      BY <1>a, <2>1
    <3>2. attempt' = [attempt EXCEPT ![a] = [pc |-> pc, event |-> e]]  BY <2>1
    <3> HIDE DEF pc
    <3> QED  BY <1>a, <3>1, <3>2 DEF Attempting
  <2>4. latest' \in 0 .. happened /\ latest <= latest'  BY <1>a, <2>1
  <2>5. crossed' \in BOOLEAN  BY <2>1
  <2>6. \A b \in Deliveries : attempt'[b].pc # "idle" => attempt'[b].event \in 1 .. happened
    BY <1>c, <2>1, <2>3
  <2>7. \A b \in Deliveries : attempt'[b].pc = "plan" => b # a /\ attempt'[b] = attempt[b]
    BY <2>3
  <2>8. ASSUME ~crossed' PROVE InOrder'
    <3>1. ~crossed /\ ~(e < latest) /\ \A b \in Deliveries : attempt[b].pc = "idle"
      BY <2>1, <2>8, <1>a
    <3>2. latest' = e  BY <1>a, <2>1, <3>1
    <3>3. \A b \in Deliveries : attempt'[b].pc # "idle" => attempt'[b].event = latest'
      BY <2>3, <3>1, <3>2
    <3>4. acked' \subseteq 1 .. latest'
      <4>1. acked \subseteq 1 .. latest  BY <1>d, <3>1
      <4> QED  BY <1>a, <2>2, <2>4, <4>1
    <3>5. \A f \in Paddle!Telling : DoneWith(f)' => DoneWith(f)
      <4>1. e \notin Paddle!Telling \/ attempt'[a].pc # "answer"
        BY <2>3, Resolved DEF Paddle!Telling
      <4> QED  BY <2>2, <2>3, <4>1 DEF DoneWith
    <3>6. InOrder  BY <1>c, <3>1
    <3>7. latest \in Nat /\ latest' \in Nat  BY <1>a, <2>4
    <3> QED  BY <2>2, <2>4, <3>3, <3>4, <3>5, <3>6, <3>7, OrderKept
  <2> QED  BY <1>a, <1>c, <1>e, <2>2, <2>3, <2>4, <2>5, <2>6, <2>7, <2>8
<1>3. ASSUME NEW a \in Deliveries, Paddle!SetOrgPaddleCustomer(a) PROVE PlanInv'
  <2> DEFINE e == attempt[a].event
  <2>1. attempt[a].pc = "customer" /\ e \in 1 .. happened /\ e \in DOMAIN Events
    BY <1>3, <1>b, <1>c DEF Paddle!SetOrgPaddleCustomer
  <2>2. /\ org' = IF Events[e].customer = None THEN org ELSE [org EXCEPT !.customer = Events[e].customer]
        /\ Paddle!Goto(a, "plan") /\ UNCHANGED <<happened, acked, faults, latest, crossed>>
    BY <1>3 DEF Paddle!SetOrgPaddleCustomer
  <2>3. /\ attempt' \in Attempting /\ attempt'[a].pc = "plan" /\ attempt'[a].event = e
        /\ \A b \in Deliveries \ {a} : attempt'[b] = attempt[b]
    BY <1>a, <2>2, AttemptGoes
  <2>4. /\ org'.plan = org.plan
        /\ org'.customer \in {None} \cup {Events[f].customer : f \in DOMAIN Events}
        /\ org.customer # None => org'.customer # None
        /\ Events[e].type = "subscription" => org'.customer # None
    BY <1>a, <2>1, <2>2 DEF Paddle!BillingAssumption
  <2> HIDE DEF e
  <2>5. ASSUME ~crossed' PROVE InOrder'
    <3>1. InOrder /\ \A b \in Deliveries : attempt[b].pc # "idle" => attempt[b].event = latest
      BY <1>c, <1>d, <2>2, <2>5
    <3>2. \A f \in Paddle!Telling : DoneWith(f)' => DoneWith(f)
      BY <2>2, <2>3 DEF DoneWith
    <3>3. \A b \in Deliveries : attempt'[b].pc # "idle" => attempt'[b].event = latest'
      BY <2>1, <2>2, <2>3, <3>1 DEF e
    <3>4. acked' \subseteq 1 .. latest' /\ latest \in Nat /\ latest' \in Nat /\ latest <= latest'
      BY <1>a, <2>2, <3>1 DEF InOrder
    <3> QED  BY <2>2, <2>4, <3>1, <3>2, <3>3, <3>4, OrderKept
  <2>6. \A b \in Deliveries : attempt'[b].pc # "idle" => attempt'[b].event \in 1 .. happened
    BY <1>c, <2>1, <2>3
  <2>7. \A b \in Deliveries : attempt'[b].pc = "plan" /\ Events[attempt'[b].event].type = "subscription"
          => org'.customer # None
    BY <1>c, <2>3, <2>4
  <2>8. org'.plan \in Paddle!OrgPlans /\ (org'.plan # "free" => org'.customer # None)
    BY <1>a, <1>c, <2>4
  <2> QED  BY <1>a, <1>e, <2>2, <2>3, <2>4, <2>5, <2>6, <2>7, <2>8
<1>4. ASSUME NEW a \in Deliveries, Paddle!SetOrgPlan(a) PROVE PlanInv'
  <2> DEFINE e == attempt[a].event
             p == Paddle!ResolvePlan(e)
  <2>1. attempt[a].pc = "plan" /\ e \in 1 .. happened /\ e \in DOMAIN Events
    BY <1>4, <1>b, <1>c DEF Paddle!SetOrgPlan
  <2>2. /\ org' = IF p = None THEN org ELSE [org EXCEPT !.plan = p]
        /\ Paddle!Goto(a, "answer") /\ UNCHANGED <<happened, acked, faults, latest, crossed>>
    BY <1>4 DEF Paddle!SetOrgPlan
  <2>3. /\ attempt' \in Attempting /\ attempt'[a].pc = "answer" /\ attempt'[a].event = e
        /\ \A b \in Deliveries \ {a} : attempt'[b] = attempt[b]
    BY <1>a, <2>2, AttemptGoes
  <2>4. /\ p \in Paddle!OrgPlans \cup {None} /\ None \notin Paddle!OrgPlans
        /\ p # "free" /\ p # None => Events[e].type = "subscription"
    BY <2>1, Resolved
  <2> HIDE DEF e, p
  <2>5. org'.customer = org.customer /\ (p # None => org'.plan = p) /\ (p = None => org'.plan = org.plan)
    BY <2>2
  <2>6. ASSUME ~crossed' PROVE InOrder'
    <3>1. InOrder /\ e = latest /\ acked \subseteq 1 .. latest
          /\ \A b \in Deliveries : attempt[b].pc # "idle" => attempt[b].event = latest
      BY <1>c, <1>d, <2>1, <2>2, <2>6 DEF e
    <3>2. \A b \in Deliveries : attempt'[b].pc # "idle" => attempt'[b].event = latest'
      BY <2>2, <2>3, <3>1
    <3>3. acked' \subseteq 1 .. latest' /\ latest \in Nat /\ latest' \in Nat /\ latest <= latest'
      BY <1>a, <2>2, <3>1
    <3>4. CASE p = None
      <4>1. e \notin Paddle!Telling  BY <3>4 DEF Paddle!Telling, p
      <4>2. \A f \in Paddle!Telling : DoneWith(f)' => DoneWith(f)
        BY <2>2, <2>3, <4>1 DEF DoneWith
      <4> QED  BY <2>2, <2>5, <3>1, <3>2, <3>3, <3>4, <4>2, OrderKept
    <3>5. CASE p # None
      <4>1. e \in Paddle!Telling /\ e \in 0 .. latest' /\ e # 0
        BY <2>1, <2>2, <3>1, <3>3, <3>5 DEF Paddle!Telling, p
      <4>2. Paddle!Telling' = Paddle!Telling  BY <2>2 DEF Paddle!Telling, Paddle!ResolvePlan
      <4>3. \A f \in Paddle!Telling : DoneWith(f)' => f <= e
        <5>1. ASSUME NEW f \in Paddle!Telling, DoneWith(f)' PROVE f <= e
          <6>1. f \in acked \/ f = latest  BY <2>2, <3>2, <5>1 DEF DoneWith
          <6>2. f \in 1 .. latest \/ f = latest  BY <3>1, <6>1
          <6> QED  BY <3>1, <3>3, <6>2
        <5> QED  BY <5>1
      <4>4. org'.plan = p  BY <2>5, <3>5
      <4>5. PICK k : k = e  OBVIOUS
      <4>6. Paddle!ResolvePlan(k)' = Paddle!ResolvePlan(k) /\ p = Paddle!ResolvePlan(k)
        BY <4>5 DEF Paddle!ResolvePlan, p
      <4>7. org'.plan = Paddle!ResolvePlan(k)' /\ k \in Paddle!Telling' /\ k \in 0 .. latest' /\ k # 0
        BY <4>1, <4>2, <4>4, <4>5, <4>6
      <4>8. \A f \in Paddle!Telling' : DoneWith(f)' => f <= k  BY <4>2, <4>3, <4>5
      <4> HIDE DEF DoneWith
      <4> QED  BY <3>2, <3>3, <4>7, <4>8 DEF InOrder
    <3> QED  BY <3>4, <3>5
  <2>7. \A b \in Deliveries : attempt'[b].pc # "idle" => attempt'[b].event \in 1 .. happened
    BY <1>c, <2>1, <2>3
  <2>8. \A b \in Deliveries : attempt'[b].pc = "plan" /\ Events[attempt'[b].event].type = "subscription"
          => org'.customer # None
    BY <1>c, <2>3, <2>5
  <2>9. org'.plan \in Paddle!OrgPlans /\ (org'.plan # "free" => org'.customer # None)
    <3>1. CASE p = None  BY <1>a, <1>c, <2>5, <3>1
    <3>2. CASE p # None  BY <1>c, <2>1, <2>4, <2>5, <3>2 DEF e
    <3> QED  BY <3>1, <3>2
  <2> QED  BY <1>a, <1>e, <2>2, <2>3, <2>5, <2>6, <2>7, <2>8, <2>9
<1>5. ASSUME NEW a \in Deliveries, Paddle!Answer(a) \/ Paddle!Lose(a) PROVE PlanInv'
  <2> DEFINE e == attempt[a].event
  <2>1. /\ attempt[a].pc # "idle" /\ attempt' = [attempt EXCEPT ![a] = [pc |-> "idle", event |-> 0]]
        /\ UNCHANGED <<org, happened, latest, crossed>>
        /\ faults' \in 0 .. MaxFaults
        /\ \/ attempt[a].pc = "answer" /\ acked' = acked \cup {e}
           \/ acked' = acked
    BY <1>5, <1>0, <1>a DEF Paddle!Answer, Paddle!Lose, Paddle!Idle
  <2>2. e \in 1 .. happened  BY <1>c, <2>1
  <2>3. /\ attempt' \in Attempting /\ attempt'[a].pc = "idle"
        /\ \A b \in Deliveries \ {a} : attempt'[b] = attempt[b]
    <3>1. [pc |-> "idle", event |-> 0] \in [pc : {"idle", "customer", "plan", "answer"}, event : 0 .. happened]
      BY <1>a
    <3> QED  BY <1>a, <2>1, <3>1 DEF Attempting
  <2>4. acked' \subseteq 1 .. happened  BY <1>a, <2>1, <2>2
  <2>5. ASSUME ~crossed' PROVE InOrder'
    <3>1. InOrder /\ e = latest /\ acked \subseteq 1 .. latest
          /\ \A b \in Deliveries : attempt[b].pc # "idle" => attempt[b].event = latest
      BY <1>c, <1>d, <2>1, <2>5
    <3>2. \A b \in Deliveries : attempt'[b].pc # "idle" => attempt'[b].event = latest'
      BY <2>1, <2>3, <3>1
    <3>3. acked' \subseteq 1 .. latest' /\ latest \in Nat /\ latest' \in Nat /\ latest <= latest'
      <4>1. latest \in Nat /\ latest' = latest /\ e \in 1 .. latest  BY <1>a, <2>1, <2>2, <3>1
      <4> HIDE DEF e
      <4>2. acked' \subseteq 1 .. latest  BY <2>1, <3>1, <4>1
      <4> QED  BY <4>1, <4>2
    <3>4. \A f \in Paddle!Telling : DoneWith(f)' => DoneWith(f)
      BY <2>1, <2>3 DEF DoneWith
    <3> HIDE DEF e
    <3> QED  BY <2>1, <3>1, <3>2, <3>3, <3>4, OrderKept
  <2> HIDE DEF e
  <2>6. \A b \in Deliveries : attempt'[b].pc # "idle" => attempt'[b].event \in 1 .. happened
    BY <1>c, <2>3
  <2>7. \A b \in Deliveries : attempt'[b].pc = "plan" /\ Events[attempt'[b].event].type = "subscription"
          => org'.customer # None
    BY <1>c, <2>1, <2>3
  <2> QED  BY <1>a, <1>c, <1>e, <2>1, <2>3, <2>4, <2>5, <2>6, <2>7
<1>6. CASE UNCHANGED Paddle!billingVars
  <2>1. UNCHANGED <<org, happened, acked, attempt, faults, latest, crossed>>  BY <1>6 DEF Paddle!billingVars
  <2>2. ASSUME ~crossed' PROVE InOrder'
    <3>1. InOrder  BY <1>c, <2>1, <2>2
    <3>2. \A f \in Paddle!Telling : DoneWith(f)' => DoneWith(f)  BY <2>1 DEF DoneWith
    <3> QED  BY <1>a, <1>d, <2>1, <2>2, <3>1, <3>2, OrderKept
  <2> QED  BY <1>a, <1>c, <1>e, <2>1, <2>2
<1> QED  BY <1>1, <1>2, <1>3, <1>4, <1>5, <1>6 DEF Paddle!Next, Paddle!Proceed

LEMMA PlansKept ==
  ASSUME Paddle!BillingAssumption, PlanInv
  PROVE  PlansSafe
<1>1. ASSUME acked = 1 .. happened, ~crossed, NEW T, T = Paddle!Telling
      PROVE  org.plan = IF T = {} THEN "free" ELSE Paddle!ResolvePlan(CHOOSE e \in T : \A f \in T : f <= e)
  <2>1. PICK k \in 0 .. latest :
          /\ org.plan = IF k = 0 THEN "free" ELSE Paddle!ResolvePlan(k)
          /\ k # 0 => k \in T
          /\ \A e \in T : DoneWith(e) => e <= k
    BY <1>1 DEF PlanInv, InOrder
  <2>2. T \subseteq 1 .. happened /\ \A e \in T : DoneWith(e)
    BY <1>1 DEF Paddle!Telling, DoneWith
  <2>3. \A e \in T : e <= k  BY <2>1, <2>2
  <2>4. happened \in Nat /\ k \in Nat  BY <2>1 DEF PlanInv, Paddle!TypeOK
  <2>5. CASE k = 0
    <3>1. T = {}  BY <2>2, <2>3, <2>4, <2>5
    <3> QED  BY <2>1, <2>5, <3>1
  <2>6. CASE k # 0
    <3> DEFINE m == CHOOSE e \in T : \A f \in T : f <= e
    <3>1. m \in T /\ \A f \in T : f <= m  BY <2>1, <2>3, <2>6
    <3> HIDE DEF m
    <3>2. m = k  BY <2>1, <2>2, <2>3, <2>4, <2>6, <3>1
    <3> QED  BY <2>1, <2>6, <3>2 DEF m
  <2> QED  BY <2>5, <2>6
<1>2. Paddle!PlanFollows  BY <1>1 DEF Paddle!PlanFollows
<1> QED  BY <1>2 DEF PlanInv, PlansSafe, Paddle!PlansSafe

(* The plan is that of the last event, whatever queries and answers fail,  *)
(* as long as attempts come one at a time and in order, and whoever pays   *)
(* can open the portal in every overlap of attempts (paddle.ts:218).       *)
THEOREM PlansHold ==
  ASSUME Paddle!BillingAssumption
  PROVE  Paddle!Spec => []PlansSafe
<1>1. Paddle!Init => PlanInv  BY PlanStart
<1>2. PlanInv /\ [Paddle!Next]_(Paddle!billingVars) => PlanInv'  BY PlanStep
<1>3. PlanInv => PlansSafe  BY PlansKept
<1> QED  BY <1>1, <1>2, <1>3, PTL DEF Paddle!Spec
-----------------------------------------------------------------------------
(* The notices of the usage.                                               *)

(* The inductive invariant: a process that is about to send a notice has   *)
(* marked it and is the only one to send it; what is marked was sent, will *)
(* be sent, or its sending failed.                                         *)
Sender(e, n) == Notifier!At(e, "send") /\ event[e].notice = n

NoticeInv ==
  /\ Notifier!TypeOK
  /\ \A e \in Inserts : event[e].pc \in {"mark", "send"} => event[e].notice \in Notifier!Notices
  /\ \A e \in Inserts : Notifier!At(e, "send") => event[e].notice \in seen
  /\ \A e, f \in Inserts : \A n \in Notifier!Notices : Sender(e, n) /\ Sender(f, n) => e = f
  /\ \A n \in Notifier!Notices :
       /\ sent[n] <= 1 + restarts
       /\ n \notin seen \/ (\E e \in Inserts : Sender(e, n)) => sent[n] <= restarts
       /\ restarts = 0 /\ n \in seen => sent[n] = 1 \/ n \in missed \/ \E e \in Inserts : Sender(e, n)

LEMMA NoticesStart ==
  ASSUME Notifier!NoticesAssumption, Notifier!Init
  PROVE  NoticeInv
  BY DEF Notifier!NoticesAssumption, Notifier!Init, Notifier!Notices, Notifier!Levels, Notifier!NoNotice,
         Notifier!At, Notifier!TypeOK, NoticeInv, Sender

(* Where a handling is when it has moved on.                               *)
LEMMA NoticeGoes ==
  ASSUME NoticeInv, NEW e \in Inserts,
         NEW pc \in {"none", "usage", "mark", "send", "done"},
         NEW n \in Notifier!Notices \cup {Notifier!NoNotice},
         Notifier!Goto(e, pc, n)
  PROVE  /\ event' \in [Inserts -> [pc : {"none", "usage", "mark", "send", "done"}, attempt : 1 .. Attempts,
                                    notice : Notifier!Notices \cup {Notifier!NoNotice}]]
         /\ event'[e].pc = pc /\ event'[e].notice = n
         /\ \A f \in Inserts \ {e} : event'[f] = event[f]
<1> DEFINE R == [pc : {"none", "usage", "mark", "send", "done"}, attempt : 1 .. Attempts,
                 notice : Notifier!Notices \cup {Notifier!NoNotice}]
           r == [event[e] EXCEPT !.pc = pc, !.notice = n]
<1>1. event \in [Inserts -> R]  BY DEF NoticeInv, Notifier!TypeOK
<1>2. r \in R /\ r.pc = pc /\ r.notice = n  BY <1>1
<1>3. event' = [event EXCEPT ![e] = r]  BY <1>1 DEF Notifier!Goto
<1> HIDE DEF R, r
<1> QED  BY <1>1, <1>2, <1>3 DEF R

(* A step after which nobody else sends, and which neither marks nor sends.*)
LEMMA NoticeKept ==
  ASSUME Notifier!NoticesAssumption, NoticeInv,
         Notifier!TypeOK', UNCHANGED <<seen, sent, missed, restarts>>,
         \A f \in Inserts : \/ event'[f].pc \notin {"mark", "send"}
                            \/ event'[f].pc = "mark" /\ event'[f].notice \in Notifier!Notices
                            \/ event'[f].pc = event[f].pc /\ event'[f].notice = event[f].notice,
         \A f \in Inserts : event[f].pc = "send" => event'[f].pc = "send" /\ event'[f].notice = event[f].notice
  PROVE  NoticeInv'
<1>1. \A f \in Inserts, n \in Notifier!Notices : Sender(f, n)' <=> Sender(f, n)
  BY DEF Sender, Notifier!At
<1>2. \A f \in Inserts : event'[f].pc \in {"mark", "send"} => event'[f].notice \in Notifier!Notices
  BY DEF NoticeInv
<1>3. \A f \in Inserts : Notifier!At(f, "send")' => event'[f].notice \in seen'
  BY DEF NoticeInv, Notifier!At
<1>4. Notifier!Notices' = Notifier!Notices  BY DEF Notifier!Notices
<1> QED  BY <1>1, <1>2, <1>3, <1>4 DEF NoticeInv

LEMMA NoticesStep ==
  ASSUME Notifier!NoticesAssumption, NoticeInv, [Notifier!Next]_(Notifier!noticesVars)
  PROVE  NoticeInv'
<1> USE DEF Notifier!At
<1>0. /\ Limit \in Nat \ {0} /\ Near \in Nat \ {0} /\ Attempts \in Nat \ {0} /\ Periods \in Nat \ {0}
      /\ MaxReserved \in Nat /\ MaxFailures \in Nat /\ MaxRestarts \in Nat
  BY DEF Notifier!NoticesAssumption
<1>1. Notifier!NoNotice \in Notifier!Notices \cup {Notifier!NoNotice}  OBVIOUS
<1>a. /\ period \in 1 .. Periods /\ used \in [1 .. Periods -> Nat]
      /\ event \in [Inserts -> [pc : {"none", "usage", "mark", "send", "done"}, attempt : 1 .. Attempts,
                                notice : Notifier!Notices \cup {Notifier!NoNotice}]]
      /\ reserved \in 0 .. MaxReserved /\ {seen, missed} \subseteq SUBSET Notifier!Notices
      /\ sent \in [Notifier!Notices -> Nat]
      /\ failures \in 0 .. MaxFailures /\ restarts \in 0 .. MaxRestarts
  BY DEF NoticeInv, Notifier!TypeOK
<1>2. ASSUME NEW e \in Inserts, Notifier!Insert(e) PROVE NoticeInv'
  <2>1. /\ event' \in [Inserts -> [pc : {"none", "usage", "mark", "send", "done"}, attempt : 1 .. Attempts,
                                    notice : Notifier!Notices \cup {Notifier!NoNotice}]]
        /\ event'[e].pc = "usage" /\ \A f \in Inserts \ {e} : event'[f] = event[f]
    BY <1>2, <1>1, NoticeGoes DEF Notifier!Insert
  <2>2. Notifier!TypeOK'  BY <1>2, <1>0, <1>a, <2>1 DEF Notifier!Insert, Notifier!TypeOK
  <2> QED  BY <1>2, <2>1, <2>2, NoticeKept DEF Notifier!Insert, NoticeInv
<1>3. ASSUME NEW e \in Inserts, Notifier!Usage(e) PROVE NoticeInv'
  <2> DEFINE n == <<period, IF used[period] >= Limit THEN "over" ELSE "near">>
  <2>1. n \in Notifier!Notices  BY <1>a DEF Notifier!Notices, Notifier!Levels
  <2> HIDE DEF n
  <2>2. /\ event' \in [Inserts -> [pc : {"none", "usage", "mark", "send", "done"}, attempt : 1 .. Attempts,
                                    notice : Notifier!Notices \cup {Notifier!NoNotice}]]
        /\ event'[e].pc = "done" \/ (event'[e].pc = "mark" /\ event'[e].notice \in Notifier!Notices)
        /\ \A f \in Inserts \ {e} : event'[f] = event[f]
    <3>1. CASE used[period] < Near
      <4>1. Notifier!Goto(e, "done", Notifier!NoNotice)  BY <1>3, <3>1 DEF Notifier!Usage
      <4> QED  BY <1>1, <4>1, NoticeGoes
    <3>2. CASE ~(used[period] < Near)
      <4>1. Notifier!Goto(e, "mark", n)  BY <1>3, <3>2 DEF Notifier!Usage, n
      <4> QED  BY <2>1, <4>1, NoticeGoes
    <3> QED  BY <3>1, <3>2
  <2>3. Notifier!TypeOK'  BY <1>3, <1>a, <2>2 DEF Notifier!Usage, Notifier!TypeOK
  <2> QED  BY <1>3, <2>2, <2>3, NoticeKept DEF Notifier!Usage, NoticeInv
<1>4. ASSUME NEW e \in Inserts, Notifier!MarkIfFirst(e) PROVE NoticeInv'
  <2> DEFINE n == event[e].notice
             pc == IF n \in seen THEN "done" ELSE "send"
  <2>1. n \in Notifier!Notices /\ n \in Notifier!Notices \cup {Notifier!NoNotice}
    BY <1>4 DEF Notifier!MarkIfFirst, NoticeInv
  <2>2. /\ event' \in [Inserts -> [pc : {"none", "usage", "mark", "send", "done"}, attempt : 1 .. Attempts,
                                    notice : Notifier!Notices \cup {Notifier!NoNotice}]]
        /\ event'[e].pc = pc /\ event'[e].notice = n
        /\ \A f \in Inserts \ {e} : event'[f] = event[f]
    <3>1. Notifier!Goto(e, pc, n) /\ pc \in {"none", "usage", "mark", "send", "done"}
      BY <1>4 DEF Notifier!MarkIfFirst
    <3> HIDE DEF n, pc
    <3> QED  BY <2>1, <3>1, NoticeGoes
  <2>3. seen' = seen \cup {n} /\ UNCHANGED <<period, used, reserved, failures, restarts, sent, missed>>
    BY <1>4 DEF Notifier!MarkIfFirst
  <2> PICK m : m = n  OBVIOUS
  <2>4. event[e].notice = m /\ event[e].pc = "mark" /\ m \in Notifier!Notices /\ seen' = seen \cup {m}
        /\ event'[e].notice = m /\ event'[e].pc = IF m \in seen THEN "done" ELSE "send"
    BY <1>4, <2>1, <2>2, <2>3 DEF Notifier!MarkIfFirst
  <2>5. Notifier!TypeOK'  BY <1>a, <2>2, <2>3, <2>4 DEF Notifier!TypeOK
  <2> HIDE DEF n, pc
  <2>6. \A f \in Inserts, k \in Notifier!Notices :
          Sender(f, k)' <=> Sender(f, k) \/ (f = e /\ k = m /\ m \notin seen)
    <3>1. ASSUME NEW f \in Inserts, NEW k \in Notifier!Notices, f # e PROVE Sender(f, k)' <=> Sender(f, k)
      BY <2>2, <3>1 DEF Sender
    <3>2. ASSUME NEW k \in Notifier!Notices PROVE ~Sender(e, k) /\ (Sender(e, k)' <=> k = m /\ m \notin seen)
      BY <2>4 DEF Sender
    <3> QED  BY <3>1, <3>2
  <2>7. \A f \in Inserts : /\ event'[f].pc \in {"mark", "send"} => event'[f].notice \in Notifier!Notices
                           /\ event'[f].pc = "send" => event'[f].notice \in seen'
    BY <2>2, <2>4 DEF NoticeInv
  <2>8. m \notin seen => \A f \in Inserts : ~Sender(f, m)
    BY DEF NoticeInv, Sender
  <2>9. \A f, g \in Inserts : \A k \in Notifier!Notices : Sender(f, k)' /\ Sender(g, k)' => f = g
    BY <2>6, <2>8 DEF NoticeInv
  <2>10. ASSUME NEW k \in Notifier!Notices
         PROVE  /\ sent'[k] <= 1 + restarts'
                /\ k \notin seen' \/ (\E f \in Inserts : Sender(f, k)') => sent'[k] <= restarts'
                /\ restarts' = 0 /\ k \in seen' =>
                     sent'[k] = 1 \/ k \in missed' \/ \E f \in Inserts : Sender(f, k)'
    <3>1. CASE k = m
      <4>1. CASE m \in seen
        <5>1. seen' = seen /\ \A f \in Inserts : Sender(f, m)' <=> Sender(f, m)  BY <2>4, <2>6, <4>1
        <5> QED  BY <2>3, <3>1, <4>1, <5>1 DEF NoticeInv
      <4>2. CASE m \notin seen
        <5>1. m \in seen' /\ Sender(e, m)'  BY <2>4, <2>6, <4>2
        <5>2. sent[m] <= 1 + restarts /\ sent[m] <= restarts  BY <2>4, <4>2 DEF NoticeInv
        <5> QED  BY <2>3, <3>1, <5>1, <5>2
      <4> QED  BY <4>1, <4>2
    <3>2. CASE k # m
      <4>1. (k \in seen' <=> k \in seen) /\ \A f \in Inserts : Sender(f, k)' <=> Sender(f, k)
        BY <2>4, <2>6, <3>2
      <4> QED  BY <2>3, <4>1 DEF NoticeInv
    <3> QED  BY <3>1, <3>2
  <2> QED  BY <2>5, <2>7, <2>9, <2>10 DEF NoticeInv, Notifier!Notices
<1>5. ASSUME NEW e \in Inserts, Notifier!Send(e) PROVE NoticeInv'
  <2> PICK m : m = event[e].notice  OBVIOUS
  <2>1. m \in Notifier!Notices /\ m \in Notifier!Notices \cup {Notifier!NoNotice} /\ Sender(e, m) /\ m \in seen
    BY <1>5 DEF Notifier!Send, NoticeInv, Sender
  <2>2. /\ event' \in [Inserts -> [pc : {"none", "usage", "mark", "send", "done"}, attempt : 1 .. Attempts,
                                    notice : Notifier!Notices \cup {Notifier!NoNotice}]]
        /\ event'[e].pc = "done" /\ \A f \in Inserts \ {e} : event'[f] = event[f]
    <3>1. Notifier!Goto(e, "done", m)  BY <1>5 DEF Notifier!Send
    <3> QED  BY <2>1, <3>1, NoticeGoes
  <2>3. sent' = [sent EXCEPT ![m] = @ + 1] /\ UNCHANGED <<period, used, reserved, seen, failures, restarts, missed>>
    BY <1>5 DEF Notifier!Send
  <2>4. Notifier!TypeOK'  BY <1>a, <2>1, <2>2, <2>3 DEF Notifier!TypeOK
  <2>5. \A f \in Inserts, k \in Notifier!Notices : Sender(f, k)' <=> Sender(f, k) /\ f # e
    BY <2>2 DEF Sender
  <2>6. \A f \in Inserts : ~Sender(f, m)'  BY <2>1, <2>5 DEF NoticeInv
  <2>7. \A f \in Inserts : /\ event'[f].pc \in {"mark", "send"} => event'[f].notice \in Notifier!Notices
                           /\ event'[f].pc = "send" => event'[f].notice \in seen'
    BY <2>2, <2>3 DEF NoticeInv
  <2>8. \A f, g \in Inserts : \A k \in Notifier!Notices : Sender(f, k)' /\ Sender(g, k)' => f = g
    BY <2>5 DEF NoticeInv
  <2>9. sent[m] <= restarts /\ sent[m] \in Nat /\ restarts \in Nat /\ sent'[m] = sent[m] + 1
    BY <1>0, <1>a, <2>1, <2>3 DEF NoticeInv
  <2>10. ASSUME NEW k \in Notifier!Notices
         PROVE  /\ sent'[k] <= 1 + restarts'
                /\ k \notin seen' \/ (\E f \in Inserts : Sender(f, k)') => sent'[k] <= restarts'
                /\ restarts' = 0 /\ k \in seen' =>
                     sent'[k] = 1 \/ k \in missed' \/ \E f \in Inserts : Sender(f, k)'
    <3>1. CASE k = m  BY <2>1, <2>3, <2>6, <2>9, <3>1
    <3>2. CASE k # m
      <4>1. sent'[k] = sent[k]  BY <1>a, <2>3, <3>2
      <4>2. \A f \in Inserts : Sender(f, k)' <=> Sender(f, k)  BY <2>1, <2>5, <3>2 DEF Sender
      <4> QED  BY <2>3, <4>1, <4>2 DEF NoticeInv
    <3> QED  BY <3>1, <3>2
  <2> QED  BY <2>4, <2>7, <2>8, <2>10 DEF NoticeInv, Notifier!Notices
<1>6. ASSUME NEW e \in Inserts, Notifier!Fail(e) PROVE NoticeInv'
  <2> DEFINE R == [pc : {"none", "usage", "mark", "send", "done"}, attempt : 1 .. Attempts,
                   notice : Notifier!Notices \cup {Notifier!NoNotice}]
             k == event[e].attempt
             r == [pc |-> IF k = Attempts THEN "done" ELSE "usage",
                   attempt |-> IF k = Attempts THEN Attempts ELSE k + 1,
                   notice |-> Notifier!NoNotice]
  <2>1. k \in 1 .. Attempts  BY <1>a
  <2>2. r \in R /\ r.pc \in {"done", "usage"}  BY <1>0, <1>1, <2>1
  <2>3. event' = [event EXCEPT ![e] = r]  BY <1>6, <1>a DEF Notifier!Fail
  <2> HIDE DEF r
  <2>4. event' \in [Inserts -> R] /\ event'[e].pc \in {"done", "usage"} /\ \A f \in Inserts \ {e} : event'[f] = event[f]
    BY <1>a, <2>2, <2>3
  <2>5. failures' = failures + 1 /\ failures < MaxFailures /\ UNCHANGED <<period, used, reserved, seen, restarts, sent>>
        /\ missed' = (IF event[e].pc = "send" THEN missed \cup {event[e].notice} ELSE missed)
    BY <1>6 DEF Notifier!Fail
  <2>6. event[e].pc = "send" => event[e].notice \in Notifier!Notices  BY DEF NoticeInv
  <2>7. Notifier!TypeOK'  BY <1>0, <1>a, <2>4, <2>5, <2>6 DEF Notifier!TypeOK
  <2>8. \A f \in Inserts, n \in Notifier!Notices : Sender(f, n)' <=> Sender(f, n) /\ f # e
    BY <2>4 DEF Sender
  <2>9. \A n \in Notifier!Notices : Sender(e, n) => n \in missed'
    BY <2>5 DEF Sender
  <2>10. missed \subseteq missed'  BY <2>5
  <2>11. \A f \in Inserts : /\ event'[f].pc \in {"mark", "send"} => event'[f].notice \in Notifier!Notices
                            /\ event'[f].pc = "send" => event'[f].notice \in seen'
    BY <2>4, <2>5 DEF NoticeInv
  <2>12. \A f, g \in Inserts : \A n \in Notifier!Notices : Sender(f, n)' /\ Sender(g, n)' => f = g
    BY <2>8 DEF NoticeInv
  <2>13. ASSUME NEW n \in Notifier!Notices
         PROVE  /\ sent'[n] <= 1 + restarts'
                /\ n \notin seen' \/ (\E f \in Inserts : Sender(f, n)') => sent'[n] <= restarts'
                /\ restarts' = 0 /\ n \in seen' =>
                     sent'[n] = 1 \/ n \in missed' \/ \E f \in Inserts : Sender(f, n)'
    BY <2>5, <2>8, <2>9, <2>10 DEF NoticeInv
  <2> QED  BY <2>7, <2>11, <2>12, <2>13 DEF NoticeInv, Notifier!Notices
<1>7. CASE Notifier!Restart
  <2> DEFINE R == [pc : {"none", "usage", "mark", "send", "done"}, attempt : 1 .. Attempts,
                   notice : Notifier!Notices \cup {Notifier!NoNotice}]
             open == {e \in Inserts : event[e].pc \in {"usage", "mark", "send"}}
  <2>1. PICK pc \in {"usage", "done"} :
          event' = [e \in Inserts |-> IF e \in open THEN [event[e] EXCEPT !.pc = pc, !.notice = Notifier!NoNotice]
                                      ELSE event[e]]
    BY ZenonT(30), <1>7 DEF Notifier!Restart
  <2>2. \A e \in Inserts : [event[e] EXCEPT !.pc = pc, !.notice = Notifier!NoNotice] \in R
    BY <1>a, <2>1
  <2>3. event' \in [Inserts -> R] /\ \A e \in Inserts : event'[e].pc \notin {"mark", "send"}
    <3>1. \A e \in Inserts : [event[e] EXCEPT !.pc = pc, !.notice = Notifier!NoNotice].pc = pc  BY <1>a
    <3>2. \A e \in Inserts \ open : event[e].pc \notin {"mark", "send"}  OBVIOUS
    <3> HIDE DEF open
    <3> QED  BY <1>a, <2>1, <2>2, <3>1, <3>2
  <2>4. restarts < MaxRestarts /\ restarts' = restarts + 1 /\ seen' = {}
        /\ missed' = missed \cup {event[e].notice : e \in {o \in open : event[o].pc = "send"}}
        /\ UNCHANGED <<period, used, reserved, failures, sent>>
    BY <1>7 DEF Notifier!Restart
  <2>5. missed' \subseteq Notifier!Notices  BY <1>a, <2>4 DEF NoticeInv
  <2>6. Notifier!TypeOK'
    <3> HIDE DEF open
    <3> QED  BY SMTT(30), <1>0, <1>a, <2>3, <2>4, <2>5 DEF Notifier!TypeOK
  <2>7. \A e \in Inserts, n \in Notifier!Notices : ~Sender(e, n)'  BY <2>3 DEF Sender
  <2>8. \A n \in Notifier!Notices : sent'[n] <= restarts'  /\ restarts' # 0 /\ sent'[n] <= 1 + restarts'
    <3>1. ASSUME NEW n \in Notifier!Notices PROVE sent[n] \in Nat /\ sent[n] <= 1 + restarts
      BY SMTT(30), <1>a DEF NoticeInv
    <3> QED  BY SMTT(30), <1>0, <1>a, <2>4, <3>1
  <2> QED  BY <2>3, <2>6, <2>7, <2>8 DEF NoticeInv, Notifier!Notices
<1>8. CASE Notifier!Reserve \/ Notifier!Return \/ Notifier!NewPeriod
  <2>1. UNCHANGED <<event, seen, sent, missed, restarts, failures>>
    BY <1>8 DEF Notifier!Reserve, Notifier!Return, Notifier!NewPeriod
  <2>2. Notifier!TypeOK'
    <3>1. CASE Notifier!Reserve  BY <1>0, <1>a, <3>1, <2>1 DEF Notifier!TypeOK, Notifier!Reserve
    <3>2. CASE Notifier!Return  BY <1>0, <1>a, <3>2, <2>1 DEF Notifier!TypeOK, Notifier!Return
    <3>3. CASE Notifier!NewPeriod  BY <1>0, <1>a, <3>3, <2>1 DEF Notifier!TypeOK, Notifier!NewPeriod
    <3> QED  BY <1>8, <3>1, <3>2, <3>3
  <2> QED  BY <2>1, <2>2, NoticeKept
<1>9. CASE UNCHANGED Notifier!noticesVars
  <2>1. UNCHANGED <<event, seen, sent, missed, restarts, failures, period, used, reserved>>
    BY <1>9 DEF Notifier!noticesVars
  <2>2. Notifier!TypeOK'  BY <1>a, <2>1 DEF Notifier!TypeOK
  <2> QED  BY <2>1, <2>2, NoticeKept
<1> QED  BY <1>2, <1>3, <1>4, <1>5, <1>6, <1>7, <1>8, <1>9 DEF Notifier!Next, Notifier!Handle

(* No notice is sent twice by one process (usageNotifier.ts:57), and one   *)
(* that is due is sent or a sending of it failed, for every number of      *)
(* events, deliveries, failures and restarts.                              *)
THEOREM NoticesHold ==
  ASSUME Notifier!NoticesAssumption
  PROVE  Notifier!Spec => []NoticesSafe
<1>1. Notifier!Init => NoticeInv  BY NoticesStart
<1>2. NoticeInv /\ [Notifier!Next]_(Notifier!noticesVars) => NoticeInv'  BY NoticesStep
<1>3. NoticeInv => NoticesSafe
  <2>1. NoticeInv => seen \subseteq Notifier!Notices  BY DEF NoticeInv, Notifier!TypeOK
  <2>2. NoticeInv => Notifier!NoticeOnce  BY DEF NoticeInv, Notifier!NoticeOnce
  <2>3. NoticeInv => Notifier!NoticeSent
    BY <2>1 DEF NoticeInv, Notifier!NoticeSent, Sender, Notifier!At
  <2> QED  BY <2>2, <2>3 DEF NoticeInv, NoticesSafe, Notifier!NoticesSafe
<1> QED  BY <1>1, <1>2, <1>3, PTL DEF Notifier!Spec

(* The two of them together are what the runs check of billing: the plan   *)
(* follows its events, and the notices are sent once or have failed.       *)
THEOREM BillingHolds ==
  ASSUME Paddle!BillingAssumption, Notifier!NoticesAssumption
  PROVE  Paddle!Spec /\ Notifier!Spec => []BillingSafe
<1>1. Paddle!Spec => []PlansSafe  BY PlansHold
<1>2. Notifier!Spec => []NoticesSafe  BY NoticesHold
<1>3. PlansSafe /\ NoticesSafe => BillingSafe  BY DEF BillingSafe
<1> QED  BY <1>1, <1>2, <1>3, PTL
=============================================================================
