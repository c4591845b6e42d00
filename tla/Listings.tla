------------------------------ MODULE Listings ------------------------------
(***************************************************************************)
(* Paging through the actions of an organisation while they are inserted   *)
(* and change status: iterateActions() of hosted.ts over pageActions() of  *)
(* service.ts, with pageRecent(), pageByStatus(), buildActionPage() and    *)
(* the cursors of store.ts and pgStore.ts.                                 *)
(*                                                                         *)
(* A cursor holds the time and the key of the last row of a page, the time *)
(* in milliseconds of Micro ticks each.  The store in memory has times in  *)
(* milliseconds too; it sorts by localeCompare() and cuts at the cursor by *)
(* the code units of the keys (store.ts:324-332, 344-352).  Postgres has   *)
(* one order for both, and times with microseconds that toIso() drops from *)
(* the cursor (pgStore.ts:45).                                             *)
(***************************************************************************)
EXTENDS Integers, Sequences, FiniteSets, FiniteSetsExt, SequencesExt

CONSTANTS
  Keys,             \* idempotency keys, their code units ordered as the numbers they are
  Collated,         \* [key -> its place by localeCompare()]
  Micro,            \* ticks in a millisecond
  Limits,           \* page sizes
  MaxTick,          \* bound: the last tick
  MaxChanges,       \* bound: changes of status
  MaxRead           \* bound: rows read by one iteration

ListingsAssumption ==
  /\ Keys \subseteq Nat /\ Collated \in [Keys -> Nat] /\ IsInjective(Collated)
  /\ Limits \subseteq Nat \ {0}
  /\ Micro \in Nat \ {0} /\ {MaxTick, MaxChanges, MaxRead} \subseteq Nat

VARIABLES
  store,            \* "memory" or "postgres"
  now,              \* the tick
  rows,             \* [key -> when the action was created and whether its status is the one asked for]
  reader,           \* the iteration: what it asks for, its cursor, what it has yielded
  changes,
  steady            \* history: the rows that have been on the list since the iteration began

listingsVars == <<store, now, rows, reader, changes, steady>>

Start == [at |-> 0, key |-> 0]

Init ==
  /\ store \in {"memory", "postgres"}
  /\ now = Micro /\ rows = <<>> /\ changes = 0 /\ steady = {}
  /\ reader \in [pc : {"idle"}, recent : BOOLEAN, limit : Limits, cursor : {Start}, seen : {<<>>}]

-----------------------------------------------------------------------------
(* toISOString() drops what is less than a millisecond.                    *)
Iso(tick) == (tick \div Micro) * Micro

(* insertPending(): created now, in the status every action begins with.   *)
Insert(k) ==
  LET at == IF store = "memory" THEN Iso(now) ELSE now
  IN /\ k \notin DOMAIN rows
     /\ rows' = [i \in DOMAIN rows \cup {k} |-> IF i = k THEN [at |-> at, wanted |-> TRUE] ELSE rows[i]]
     /\ UNCHANGED <<store, now, reader, changes, steady>>

Tick ==
  /\ now < MaxTick /\ now' = now + 1
  /\ UNCHANGED <<store, rows, reader, changes, steady>>

(* applyTransition(), to the status asked for or away from it.             *)
Change(k) ==
  /\ changes < MaxChanges /\ changes' = changes + 1
  /\ k \in DOMAIN rows
  /\ rows' = [rows EXCEPT ![k].wanted = ~@]
  /\ steady' = IF reader.recent THEN steady ELSE steady \ {k}
  /\ UNCHANGED <<store, now, reader>>

-----------------------------------------------------------------------------
(* In ascending order of (created_at, idempotency_key), as rows are cut    *)
(* and as they are sorted.                                                 *)
Before(a, b) == a.at < b.at \/ (a.at = b.at /\ a.key < b.key)
Place(k) == [at |-> rows[k].at, key |-> IF store = "memory" THEN Collated[k] ELSE k]
Entry(k) == [at |-> rows[k].at, key |-> k]
Listed == {k \in DOMAIN rows : reader.recent \/ rows[k].wanted}

(* A faulty Beyond: the cursor is compared by its time alone.              *)
BeyondTime(k) ==
  IF reader.recent THEN rows[k].at < reader.cursor.at ELSE reader.cursor.at < rows[k].at

(* pageRecent() goes down from the cursor, pageByStatus() up.              *)
Beyond(k) ==
  IF reader.recent THEN Before(Entry(k), reader.cursor) ELSE Before(reader.cursor, Entry(k))

(* encodeCursor(): what is left of the time in an ISO string.              *)
Cursor(k) == [at |-> Iso(rows[k].at), key |-> k]

Fetched ==
  LET after == {k \in Listed : reader.cursor = Start \/ Beyond(k)}
  IN SetToSortSeq(after, LAMBDA j, k : IF reader.recent THEN Before(Place(k), Place(j))
                                                        ELSE Before(Place(j), Place(k)))

Begin ==
  /\ reader.pc = "idle"
  /\ reader' = [reader EXCEPT !.pc = "reading"]
  /\ steady' = Listed
  /\ UNCHANGED <<store, now, rows, changes>>

(* One page: limit + 1 rows are fetched, and one too many means that there *)
(* is another page.                                                        *)
Page ==
  LET more == Len(Fetched) > reader.limit
      items == SubSeq(Fetched, 1, Min({reader.limit, Len(Fetched)}))
  IN /\ reader.pc = "reading" /\ Len(reader.seen) < MaxRead
     /\ reader' = [reader EXCEPT !.pc = IF more THEN "reading" ELSE "done",
                                 !.cursor = IF more THEN Cursor(Last(items)) ELSE @,
                                 !.seen = @ \o items]
     /\ UNCHANGED <<store, now, rows, changes, steady>>

Next == (\E k \in Keys : Insert(k) \/ Change(k)) \/ Tick \/ Begin \/ Page

Spec == Init /\ [][Next]_listingsVars
-----------------------------------------------------------------------------
(* Type correctness.                                                       *)
TypeOK ==
  /\ store \in {"memory", "postgres"}
  /\ now \in Micro .. MaxTick /\ changes \in 0 .. MaxChanges /\ steady \subseteq DOMAIN rows
  /\ DOMAIN rows \subseteq Keys
  /\ \A k \in DOMAIN rows : rows[k] \in [at : Micro .. MaxTick, wanted : BOOLEAN]
  /\ reader.pc \in {"idle", "reading", "done"} /\ reader.seen \in Seq(Keys)

(* The two orders of memory differ on this row and another of its time;    *)
Twisted(k) ==
  \E j \in DOMAIN rows : rows[j].at = rows[k].at /\ ~(j < k <=> Collated[j] < Collated[k])

(* a cursor of Postgres does not tell this row from another.               *)
Crowded(k) == \E j \in DOMAIN rows \ {k} : Iso(rows[j].at) = Iso(rows[k].at)

MaySkip(k) == IF store = "memory" THEN Twisted(k) ELSE reader.recent /\ Crowded(k)
MayRepeat(k) ==
  IF store = "memory" THEN Twisted(k) ELSE ~reader.recent /\ (Crowded(k) \/ rows[k].at # Iso(rows[k].at))

(* "Pages through all recent actions with no gaps or duplicates" (test/    *)
(* pagination.test.ts:42), also while rows come and change: no row comes   *)
(* twice, and when the iteration ends each row that was there all along    *)
(* has come.  All but rows created in one millisecond, as far as the store *)
(* confuses those; and in Postgres, going up, a row that was not created on*)
(* a whole millisecond comes again.                                        *)
NoGapsNoRepeats ==
  /\ \A i, j \in DOMAIN reader.seen :
       i # j /\ reader.seen[i] = reader.seen[j] => MayRepeat(reader.seen[i])
  /\ reader.pc = "done" =>
       \A k \in steady : k \in ToSet(reader.seen) \/ MaySkip(k)
=============================================================================
