----------------------------- MODULE Migrations -----------------------------
(***************************************************************************)
(* The two migration runners on one database: runMigrations() as an API    *)
(* instance boots (migrations.ts, migrate.ts), serialised by an advisory   *)
(* lock, and scripts/migrate.mjs, which takes none.  Each keeps a table of *)
(* its own.  A transaction is one step, as Postgres makes it: a crash in   *)
(* the middle leaves nothing of it.                                        *)
(*                                                                         *)
(* A migration is its index in the list; a checksum is any other value.    *)
(***************************************************************************)
EXTENDS Integers, Sequences, FiniteSets

CONSTANTS
  Boots,            \* API instances, which the platform restarts when they exit
  Scripts,          \* runs of the script
  None,             \* a model value: not recorded, no lock
  List,             \* the checksums of the migrations each process ships with
  AllowDrift,       \* QUORVEL_MIGRATIONS_ALLOW_DRIFT
  Force,            \* --force
  MaxFaults         \* bound: failed queries and crashes

MigrationsAssumption ==
  /\ Boots \cap Scripts = {} /\ {AllowDrift, Force} \subseteq BOOLEAN /\ MaxFaults \in Nat
  /\ None \notin Boots
  /\ \A p \in Boots \cup Scripts :
       /\ Len(List[p]) \in Nat /\ DOMAIN List[p] = 1 .. Len(List[p])
       /\ None \notin {List[p][i] : i \in DOMAIN List[p]}

Processes == Boots \cup Scripts
TableOf(p) == IF p \in Boots THEN "schema_migrations" ELSE "belay_migrations"
Tables == {"schema_migrations", "belay_migrations"}
Ids == UNION {DOMAIN List[p] : p \in Processes}
Places == {"off", "creating", "waiting", "reading", "applying", "done", "exited"}

VARIABLES
  made,             \* the tables that exist
  recorded,         \* per table: the checksum of each migration, or None
  lock,             \* who has the advisory lock
  process,          \* per process: where it is, its copy of the table, and the next id
  faults,
  \* history variables
  executed,         \* per table: how often each migration's SQL was committed
  overlapped,       \* whether two runs of the script were ever under way at once
  clashed           \* whether an insert of a boot ever met another's row

migrationVars == <<made, recorded, lock, process, faults, executed, overlapped, clashed>>

Nothing == [i \in Ids |-> None]
Off == [pc |-> "off", seen |-> Nothing, next |-> 1]

Init ==
  /\ made = {}
  /\ recorded = [t \in Tables |-> Nothing]
  /\ lock = None
  /\ process = [p \in Processes |-> Off]
  /\ faults = 0
  /\ executed = [t \in Tables |-> [i \in Ids |-> 0]]
  /\ overlapped = FALSE /\ clashed = FALSE

-----------------------------------------------------------------------------
At(p, pc) == process[p].pc = pc
Goto(p, pc) == process' = [process EXCEPT ![p].pc = pc]

(* However a process stops, its session ends and with it the lock.         *)
Exit(p) ==
  /\ process' = [process EXCEPT ![p] = [Off EXCEPT !.pc = "exited"]]
  /\ lock' = IF lock = p THEN None ELSE lock

Running(p) == ~At(p, "off") /\ ~At(p, "done") /\ ~At(p, "exited")

(* A process starts, or the platform starts an instance again: "create     *)
(* table if not exists" finds no table, or has nothing to do.              *)
Start(p) ==
  /\ At(p, "off") \/ (p \in Boots /\ At(p, "exited"))
  /\ Goto(p, IF TableOf(p) \notin made THEN "creating" ELSE IF p \in Boots THEN "waiting" ELSE "reading")
  /\ overlapped' = (overlapped \/ (p \in Scripts /\ \E q \in Scripts \ {p} : Running(q)))
  /\ UNCHANGED <<made, recorded, lock, faults, executed, clashed>>

(* External: of two that create the table at once, the later fails.        *)
Create(p) ==
  /\ At(p, "creating")
  /\ IF TableOf(p) \in made
     THEN Exit(p) /\ UNCHANGED made
     ELSE /\ made' = made \cup {TableOf(p)}
          /\ Goto(p, IF p \in Boots THEN "waiting" ELSE "reading")
          /\ UNCHANGED lock
  /\ UNCHANGED <<recorded, faults, executed, overlapped, clashed>>

(* A faulty Lock: it does not wait.                                        *)
LockAnyway(p) ==
  /\ At(p, "waiting")
  /\ lock' = p
  /\ Goto(p, "reading")
  /\ UNCHANGED <<made, recorded, faults, executed, overlapped, clashed>>

(* pg_advisory_lock(), which waits.                                        *)
Lock(p) ==
  /\ At(p, "waiting") /\ lock = None
  /\ lock' = p
  /\ Goto(p, "reading")
  /\ UNCHANGED <<made, recorded, faults, executed, overlapped, clashed>>

(* appliedMap, getApplied().                                               *)
Read(p) ==
  /\ At(p, "reading")
  /\ process' = [process EXCEPT ![p] = [pc |-> "applying", seen |-> recorded[TableOf(p)], next |-> 1]]
  /\ UNCHANGED <<made, recorded, lock, faults, executed, overlapped, clashed>>

Changed(p, i) == process[p].seen[i] \notin {None, List[p][i]}

(* A changed migration stops a boot when it comes to it, and the script    *)
(* before it applies any.                                                  *)
Drifted(p) ==
  IF p \in Boots
  THEN ~AllowDrift /\ process[p].next \in DOMAIN List[p] /\ Changed(p, process[p].next)
  ELSE ~Force /\ \E i \in DOMAIN List[p] : Changed(p, i)

(* A migration to skip: applied before, and not forced to run again.       *)
Skipped(p, i) == process[p].seen[i] # None /\ ~(p \in Scripts /\ Changed(p, i))

Drift(p) ==
  /\ At(p, "applying") /\ Drifted(p)
  /\ Exit(p)
  /\ UNCHANGED <<made, recorded, faults, executed, overlapped, clashed>>

Skip(p) ==
  /\ At(p, "applying") /\ ~Drifted(p)
  /\ process[p].next \in DOMAIN List[p] /\ Skipped(p, process[p].next)
  /\ process' = [process EXCEPT ![p].next = @ + 1]
  /\ UNCHANGED <<made, recorded, lock, faults, executed, overlapped, clashed>>

ToApply(p) ==
  /\ At(p, "applying") /\ ~Drifted(p)
  /\ process[p].next \in DOMAIN List[p] /\ ~Skipped(p, process[p].next)

(* BEGIN, the SQL, the record, COMMIT: a boot's insert fails on a row that *)
(* is there, the script's overwrites it.                                   *)
Apply(p) ==
  LET i == process[p].next
      t == TableOf(p)
  IN /\ ToApply(p)
     /\ \/ /\ p \in Boots /\ recorded[t][i] # None
           /\ clashed' = TRUE
           /\ Exit(p)
           /\ UNCHANGED <<recorded, executed>>
        \/ /\ p \in Scripts \/ recorded[t][i] = None
           /\ recorded' = [recorded EXCEPT ![t][i] = List[p][i]]
           /\ executed' = [executed EXCEPT ![t][i] = @ + 1]
           /\ process' = [process EXCEPT ![p].next = @ + 1]
           /\ UNCHANGED <<lock, clashed>>
     /\ UNCHANGED <<made, faults, overlapped>>

(* A faulty ApplyFails: without the transaction, the SQL stays.            *)
ApplyHalf(p) ==
  /\ ToApply(p) /\ faults < MaxFaults
  /\ faults' = faults + 1
  /\ executed' = [executed EXCEPT ![TableOf(p)][process[p].next] = @ + 1]
  /\ Exit(p)
  /\ UNCHANGED <<made, recorded, overlapped, clashed>>

(* The SQL fails: ROLLBACK, and the error ends the process.                *)
ApplyFails(p) ==
  /\ ToApply(p) /\ faults < MaxFaults
  /\ faults' = faults + 1
  /\ Exit(p)
  /\ UNCHANGED <<made, recorded, executed, overlapped, clashed>>

(* A faulty Finish: the lock is kept by the session, back in its pool.     *)
FinishLocked(p) ==
  /\ At(p, "applying") /\ ~Drifted(p) /\ process[p].next \notin DOMAIN List[p]
  /\ process' = [process EXCEPT ![p] = [Off EXCEPT !.pc = "done"]]
  /\ UNCHANGED <<made, recorded, lock, faults, executed, overlapped, clashed>>

(* The list is done: unlock; the instance serves, the script ends.         *)
Finish(p) ==
  /\ At(p, "applying") /\ ~Drifted(p) /\ process[p].next \notin DOMAIN List[p]
  /\ process' = [process EXCEPT ![p] = [Off EXCEPT !.pc = "done"]]
  /\ lock' = IF lock = p THEN None ELSE lock
  /\ UNCHANGED <<made, recorded, faults, executed, overlapped, clashed>>

(* A process dies, or loses its connection.                                *)
Crash(p) ==
  /\ Running(p) /\ faults < MaxFaults
  /\ faults' = faults + 1
  /\ Exit(p)
  /\ UNCHANGED <<made, recorded, executed, overlapped, clashed>>

Step(p) == Create(p) \/ Read(p) \/ Drift(p) \/ Skip(p) \/ Apply(p) \/ ApplyFails(p) \/ Finish(p)

Next == \E p \in Processes : Start(p) \/ Lock(p) \/ Step(p) \/ Crash(p)

Spec == Init /\ [][Next]_migrationVars

-----------------------------------------------------------------------------
(* What a table says is what happened: each migration's SQL was committed  *)
(* once if it is recorded and never if not, and none before those it       *)
(* follows, through failures, crashes and redeployments.  Of the script    *)
(* this holds while its runs do not overlap (migrations.ts:128,            *)
(* migrate.mjs:135).                                                       *)
AppliedOnce ==
  \A t \in Tables :
    \/ t = "belay_migrations" /\ (overlapped \/ Force)
    \/ \A i \in Ids :
         /\ executed[t][i] = IF recorded[t][i] = None THEN 0 ELSE 1
         /\ \A j \in 1 .. i - 1 : recorded[t][i] # None => recorded[t][j] # None

(* The advisory lock keeps two boots from applying one migration: no       *)
(* insert ever meets the row of another (migrations.ts:100).               *)
NoClash == ~clashed

(* An instance that serves finds the schema it ships with: each of its     *)
(* migrations is recorded, and as it has it (migrations.ts:113).           *)
ServesItsSchema ==
  \A p \in Boots : At(p, "done") =>
    \A i \in DOMAIN List[p] :
      recorded["schema_migrations"][i] \in
        IF AllowDrift THEN {List[q][i] : q \in {r \in Boots : i \in DOMAIN List[r]}} ELSE {List[p][i]}

(* Of boots and scripts alike; a script serves nothing.                    *)
BootsSafe == AppliedOnce /\ NoClash /\ ServesItsSchema
=============================================================================
