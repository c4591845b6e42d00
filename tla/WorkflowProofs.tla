--------------------------- MODULE WorkflowProofs ---------------------------
(* Proofs about Workflow, for all bodies, versions and numbers of workers. *)
EXTENDS Workflow, NumberLemmas, FiniteSetTheorems, TLAPS

LEMMA PositionsBound ==
  ASSUME WorkflowAssumption
  PROVE  /\ \E n \in Nat : Positions = 1 .. n
         /\ \A v \in 1 .. Versions : 1 .. Len(Body[v]) \subseteq Positions
<1> DEFINE f == [v \in 1 .. Versions |-> Len(Body[v])]
           T == {Len(Body[v]) : v \in 1 .. Versions}
<1>1. Versions \in Nat \ {0} /\ \A v \in 1 .. Versions : Len(Body[v]) \in Nat
  BY DEF WorkflowAssumption
<1>2. f \in [1 .. Versions -> Nat]  BY <1>1
<1> HIDE DEF f
<1>3. PICK b \in Nat : \A v \in 1 .. Versions : f[v] <= b  BY <1>1, <1>2, Bounded
<1>a. \A v \in 1 .. Versions : Len(Body[v]) \in 0 .. b  BY <1>1, <1>3 DEF f
<1>b. 1 \in 1 .. Versions  BY <1>1
<1>c. T # {}  BY <1>b
<1>d. \A n \in T : n \in 0 .. b  BY <1>a
<1>4. T \in SUBSET (0 .. b) /\ T # {}
  <2> HIDE DEF T
  <2> QED  BY <1>c, <1>d
<1>5. Max(T) \in T /\ \A n \in T : n <= Max(T)  BY <1>4, MaxBetween
<1>6. Positions = 1 .. Max(T)  BY DEF Positions
<1> HIDE DEF T
<1>7. Max(T) \in Nat
  <2>1. Max(T) \in 0 .. b  BY <1>4, <1>5
  <2> QED  BY <2>1
<1>8. ASSUME NEW v \in 1 .. Versions PROVE 1 .. Len(Body[v]) \subseteq Positions
  <2>1. Len(Body[v]) \in T  BY DEF T
  <2>2. Len(Body[v]) <= Max(T)  BY <1>5, <2>1
  <2> QED  BY <1>1, <1>6, <1>7, <2>2
<1> QED  BY <1>6, <1>7, <1>8

-----------------------------------------------------------------------------
(* What TypeOK says of one worker.                                         *)
DriveOK(w) ==
  LET d == drive[w]
  IN /\ d.version <= deployed
     /\ d.pc \in {"begin", "load", "work", "consume", "append"} => Here(d) <= Len(Body[d.version])
     /\ d.pc \in {"send", "buffer", "deliver"} => d.signal # None
     /\ d.pc \in {"deliver", "fire"} => events[d.seq] # None

(* A drive is at an await its command gets to, only signals bring a value  *)
(* to an event from outside, and tick() completes timers.  Alone, the event*)
(* a call is about to complete is still pending.                           *)
Sound(w) ==
  LET d == drive[w]
  IN /\ d.pc = "work" => Command(d).type \in {"step", "value"}
     /\ d.pc = "consume" => Command(d).type = "signal"
     /\ d.pc = "append" /\ Command(d).type = "sleep" => d.value = None
     /\ d.pc = "fire" => d.signal = None /\ events[d.seq].type = "sleep"
     /\ d.pc = "deliver" => events[d.seq].type = "signal"
     /\ Alone /\ d.pc \in {"deliver", "fire"} => events[d.seq].status = "pending"
     /\ w \notin callers => d.pc = "idle"

(* A timer has no value.                                                   *)
Timers == \A i \in Positions : events[i] # None /\ events[i].type = "sleep" => events[i].value = None

IInv == TypeOK /\ (\A w \in Workers : Sound(w)) /\ Timers

(* What is recorded keeps its type.                                        *)
Kept == \A i \in Positions : events[i] # None =>
          events'[i] # None /\ events'[i].type = events[i].type

LEMMA OthersKept ==
  ASSUME drive \in [Workers -> Locals], \A u \in Workers : DriveOK(u) /\ Sound(u),
         NEW w \in Workers, w \in callers, NEW l \in Locals, Become(w, l), Kept, UNCHANGED <<callers, deployed>>
  PROVE  /\ drive' \in [Workers -> Locals] /\ drive'[w] = l
         /\ \A u \in Workers \ {w} : DriveOK(u)' /\ Sound(u)'
<1>1. drive' \in [Workers -> Locals] /\ drive'[w] = l /\ \A u \in Workers \ {w} : drive'[u] = drive[u]
  BY DEF Become
<1>2. ASSUME NEW u \in Workers \ {w} PROVE DriveOK(u)' /\ Sound(u)'
  <2>1. drive'[u] = drive[u] /\ drive[u].seq \in Positions  BY <1>1 DEF Locals
  <2>2. u \in callers => ~Alone  BY DEF Alone
  <2>3. DriveOK(u)'  BY <2>1 DEF DriveOK, Kept, Here
  <2>4. Sound(u)'  BY <2>1, <2>2 DEF Sound, DriveOK, Kept, Here, Command, Alone
  <2> QED  BY <2>3, <2>4
<1> QED  BY <1>1, <1>2

LEMMA IdleLocals ==
  ASSUME WorkflowAssumption
  PROVE  Idle \in Locals /\ Idle.pc = "idle" /\ Idle.version = 1 /\ Idle.seen = <<>>
         /\ Idle.signal = None
<1>1. 1 \in Positions
  <2>1. 1 \in 1 .. Versions /\ Body[1] # <<>> /\ Len(Body[1]) \in Nat
    BY DEF WorkflowAssumption
  <2>2. 1 \in 1 .. Len(Body[1])  BY <2>1 DEF WorkflowAssumption
  <2> QED  BY <2>1, <2>2, PositionsBound
<1> QED  BY <1>1 DEF Idle, Locals, Places, Histories, Values, WorkflowAssumption

LEMMA GotoLocals ==
  ASSUME NEW d \in Locals, NEW place \in Places
  PROVE  LET e == [d EXCEPT !.pc = place]
         IN  /\ e \in Locals /\ e.pc = place /\ e.version = d.version /\ e.seen = d.seen
             /\ e.value = d.value /\ e.signal = d.signal /\ e.seq = d.seq
BY DEF Locals

LEMMA Element ==
  ASSUME NEW S, NEW q \in Seq(S), NEW i \in 1 .. Len(q)
  PROVE  q[i] \in S
OBVIOUS

LEMMA Concatenation ==
  ASSUME NEW S, NEW q \in Seq(S), NEW r \in Seq(S)
  PROVE  q \o r \in Seq(S) /\ Len(q \o r) = Len(q) + Len(r)
OBVIOUS

LEMMA HerePosition ==
  ASSUME WorkflowAssumption, NEW d \in Locals, Here(d) <= Len(Body[d.version])
  PROVE  /\ Here(d) \in Positions /\ Here(d) \in DOMAIN Body[d.version]
         /\ Command(d) \in [type : Types, name : Names]
<1>1. d.version \in 1 .. Versions /\ Len(d.seen) \in Nat  BY DEF Locals
<1>2. Body[d.version] \in Seq([type : Types, name : Names])  BY <1>1 DEF WorkflowAssumption
<1>3. Here(d) \in 1 .. Len(Body[d.version])  BY <1>1, <1>2 DEF Here
<1>4. Here(d) \in Positions  BY <1>1, <1>3, PositionsBound
<1>5. Here(d) \in DOMAIN Body[d.version]  BY <1>2, <1>3
<1>6. Command(d) \in [type : Types, name : Names]  BY <1>2, <1>3, Element DEF Command
<1> QED  BY <1>4, <1>5, <1>6

(* Where the body goes on, it is at a command that fits the await.         *)
LEMMA ProceedEffect ==
  ASSUME WorkflowAssumption, NEW d \in Locals, Here(d) <= Len(Body[d.version]) + 1
  PROVE  LET e == Proceed(d)
         IN  /\ e \in Locals /\ e.version = d.version /\ e.signal = d.signal /\ e.value = None
             /\ e.pc \in {"complete", "suspend", "fail", "work", "append", "consume"}
             /\ e.pc \in {"work", "append", "consume"} => Here(e) <= Len(Body[e.version])
             /\ e.pc = "work" => Command(e).type \in {"step", "value"}
             /\ e.pc = "consume" => Command(e).type = "signal"
             /\ e.pc = "append" => Command(e).type = "sleep"
             /\ e.pc = "complete" => Here(e) = Len(Body[e.version]) + 1
             /\ e.past = d.past /\ Here(e) >= Here(d)
             /\ e.pc \in {"work", "append", "consume"} => d.past[Here(e)] = None
             /\ \A i \in 1 .. Len(d.seen) : e.seen[i] = d.seen[i]
             /\ \A i \in Here(d) .. Len(e.seen) :
                  d.past[i] # None /\ d.past[i].status = "completed" /\ e.seen[i] = d.past[i].value
<1> DEFINE body == Body[d.version]
           replayed(i) == /\ d.past[i] # None
                          /\ d.past[i].status = "completed"
                          /\ Matches(d.past[i], body[i])
           T == {n \in Here(d) .. Len(body) + 1 : \A i \in Here(d) .. n - 1 : replayed(i)}
           stop == Max(T)
           more == [i \in 1 .. stop - Here(d) |-> d.past[Here(d) + i - 1].value]
           place ==
             CASE stop > Len(body) -> "complete"
               [] stop <= Len(body) /\ d.past[stop] # None ->
                    IF Matches(d.past[stop], body[stop]) THEN "suspend" ELSE "fail"
               [] OTHER ->
                    CASE body[stop].type \in {"step", "value"} -> "work"
                      [] body[stop].type = "sleep" -> "append"
                      [] body[stop].type = "signal" -> "consume"
           e == [d EXCEPT !.pc = place, !.value = None, !.attempt = 0, !.seen = d.seen \o more]
<1>1. Proceed(d) = e  BY DEF Proceed
<1>2. /\ d.version \in 1 .. Versions /\ d.seen \in Seq(Values) /\ d.past \in Histories
      /\ body \in Seq([type : Types, name : Names])
  BY DEF Locals, WorkflowAssumption
<1>3. Len(body) \in Nat /\ Here(d) \in Nat /\ Here(d) >= 1  BY <1>2 DEF Here
<1>4. stop \in Here(d) .. Len(body) + 1 /\ \A i \in Here(d) .. stop - 1 : replayed(i)
  <2> HIDE DEF replayed, body
  <2>1. T \in SUBSET (Here(d) .. Len(body) + 1)  OBVIOUS
  <2>2. Here(d) \in T  BY <1>3 DEF body
  <2>3. stop \in T
    <3> HIDE DEF T
    <3>1. Here(d) \in Nat /\ Len(body) + 1 \in Nat /\ T # {}  BY <1>3, <2>2
    <3> QED  BY <2>1, <3>1, MaxBetween
  <2> QED  BY <2>3
<1> HIDE DEF stop, replayed, T
<1>5. more \in Seq(Values) /\ Len(more) = stop - Here(d)
  <2>1. stop - Here(d) \in Nat  BY <1>3, <1>4
  <2>2. ASSUME NEW i \in 1 .. stop - Here(d) PROVE d.past[Here(d) + i - 1].value \in Values
    <3>1. Here(d) + i - 1 \in Here(d) .. stop - 1 /\ Here(d) + i - 1 \in 1 .. Len(body)
      BY <1>3, <1>4
    <3>2. Here(d) + i - 1 \in Positions  BY <1>2, <3>1, PositionsBound
    <3>3. d.past[Here(d) + i - 1] # None  BY <1>4, <3>1 DEF replayed
    <3>4. d.past[Here(d) + i - 1] \in Events  BY <1>2, <3>2, <3>3 DEF Histories
    <3> QED  BY <3>4 DEF Events
  <2> QED  BY <2>1, <2>2
<1>s. \A i \in 1 .. stop - Here(d) : more[i] = d.past[Here(d) + i - 1].value  OBVIOUS
<1> HIDE DEF more
<1>6. d.seen \o more \in Seq(Values) /\ Len(d.seen \o more) + 1 = stop
  <2>1. Len(d.seen \o more) = Len(d.seen) + (stop - Here(d))
    BY <1>2, <1>5, Concatenation
  <2>2. Len(d.seen) \in Nat /\ stop \in Nat  BY <1>2, <1>3, <1>4
  <2> QED  BY <1>2, <1>5, <2>1, <2>2, Concatenation DEF Here
<1>7. stop <= Len(body) => body[stop] \in [type : Types, name : Names]
  <2> HIDE DEF body
  <2> SUFFICES ASSUME stop <= Len(body) PROVE stop \in 1 .. Len(body)  BY <1>2, Element
  <2> QED  BY <1>3, <1>4
<1>8. /\ place \in {"complete", "suspend", "fail", "work", "append", "consume"}
      /\ place \in {"work", "append", "consume"} => stop <= Len(body)
      /\ place = "work" => body[stop].type \in {"step", "value"}
      /\ place = "consume" => body[stop].type = "signal"
      /\ place = "append" => body[stop].type = "sleep"
      /\ place = "complete" => stop = Len(body) + 1
      /\ place \in {"work", "append", "consume"} => d.past[stop] = None
  BY <1>3, <1>4, <1>7 DEF Types
<1> HIDE DEF place
<1>9. /\ e \in Locals /\ e.version = d.version /\ e.signal = d.signal /\ e.value = None
      /\ e.pc = place /\ e.seen = d.seen \o more /\ e.past = d.past
  <2>1. place \in Places  BY <1>8 DEF Places
  <2>2. d.seen \o more \in Seq(Values)  BY <1>6
  <2> DEFINE q == d.seen \o more
  <2>3. e = [d EXCEPT !.pc = place, !.value = None, !.attempt = 0, !.seen = q]  OBVIOUS
  <2> HIDE DEF e, q
  <2>4. None \in Values /\ 0 \in 0 .. Retries  BY DEF Values, WorkflowAssumption
  <2>5. q \in Seq(Values)  BY <2>2 DEF q
  <2>6. e.seen = q /\ e \in Locals  BY <2>1, <2>3, <2>4, <2>5 DEF Locals
  <2>7. e.version = d.version /\ e.signal = d.signal /\ e.value = None /\ e.pc = place
        /\ e.past = d.past
    BY <2>3 DEF Locals
  <2> QED  BY <2>6, <2>7 DEF q
<1>10. Here(e) = stop /\ Command(e) = body[stop]  BY <1>6, <1>9 DEF Here, Command
<1>11. \A i \in 1 .. Len(d.seen) : e.seen[i] = d.seen[i]  BY <1>2, <1>5, <1>9
<1>12. ASSUME NEW i \in Here(d) .. Len(e.seen)
       PROVE  d.past[i] # None /\ d.past[i].status = "completed" /\ e.seen[i] = d.past[i].value
  <2>1. Len(e.seen) = stop - 1 /\ stop \in Nat /\ Len(d.seen) \in Nat /\ Here(d) = Len(d.seen) + 1
    BY <1>2, <1>3, <1>4, <1>5, <1>6, <1>9 DEF Here
  <2>2. i \in Here(d) .. stop - 1 /\ i - Len(d.seen) \in 1 .. stop - Here(d)  BY <2>1
  <2>3. e.seen[i] = more[i - Len(d.seen)]  BY <1>2, <1>5, <1>9, <2>1, <2>2
  <2>4. more[i - Len(d.seen)] = d.past[i].value  BY SMTT(30), <1>s, <2>1, <2>2
  <2> QED  BY <1>4, <2>2, <2>3, <2>4 DEF replayed
<1>13. Here(e) >= Here(d)  BY <1>3, <1>4, <1>10
<1> HIDE DEF e
<1> QED  BY <1>1, <1>8, <1>9, <1>10, <1>11, <1>12, <1>13

-----------------------------------------------------------------------------
(* The inductive invariant in three parts.                                 *)
DriveT == callers \in SUBSET Workers /\ drive \in [Workers -> Locals] /\ \A w \in Workers : DriveOK(w) /\ Sound(w)
EventsT == events \in Histories /\ Timers
RestT ==
  /\ status \in Statuses \cup {None}
  /\ result = None \/ result \in Seq(Values)
  /\ inbox \in Seq(Signals)
  /\ deployed \in 1 .. Versions
  /\ unsent \subseteq Signals
  /\ crashes \in 0 .. MaxCrashes /\ faults \in 0 .. MaxFaults
  /\ ran \in [Positions -> Nat]

LEMMA InvParts == IInv <=> DriveT /\ EventsT /\ RestT
BY DEF IInv, TypeOK, DriveT, EventsT, RestT, DriveOK

LEMMA DriveStep ==
  ASSUME DriveT, NEW w \in Workers, w \in callers, NEW l \in Locals, Become(w, l), Kept, UNCHANGED <<callers, deployed>>,
         drive'[w] = l => DriveOK(w)' /\ Sound(w)'
  PROVE  DriveT'
<1>1. drive' \in [Workers -> Locals] /\ drive'[w] = l
      /\ \A u \in Workers \ {w} : DriveOK(u)' /\ Sound(u)'
  BY OthersKept DEF DriveT
<1> QED  BY <1>1 DEF DriveT

(* A call that is at an await where it knows nothing in particular.        *)
LEMMA CalmStep ==
  ASSUME DriveT, NEW w \in Workers, w \in callers, NEW l \in Locals, Become(w, l), Kept, UNCHANGED <<callers, deployed>>,
         l.pc \in {"idle", "getRun", "suspend", "complete", "fail"}, l.version <= deployed
  PROVE  DriveT'
<1>1. drive'[w] = l => DriveOK(w)' /\ Sound(w)'  BY DEF DriveOK, Sound
<1> QED  BY <1>1, DriveStep

LEMMA ReturnStep ==
  ASSUME WorkflowAssumption, DriveT, RestT, NEW w \in Workers, w \in callers, Return(w), Kept,
         UNCHANGED <<callers, deployed>>
  PROVE  DriveT'
<1>1. 1 <= deployed  BY DEF RestT, WorkflowAssumption
<1> QED  BY <1>1, IdleLocals, CalmStep DEF Return

LEMMA CalmGoto ==
  ASSUME DriveT, NEW w \in Workers, w \in callers, Kept, UNCHANGED <<callers, deployed>>,
         NEW place \in {"getRun", "suspend", "complete", "fail"}, Goto(w, place)
  PROVE  DriveT'
<1>1. drive[w] \in Locals /\ drive[w].version <= deployed /\ place \in Places
  BY DEF DriveT, DriveOK, Places
<1>2. LET l == [drive[w] EXCEPT !.pc = place]
      IN  l \in Locals /\ l.pc = place /\ l.version <= deployed
  BY <1>1, GotoLocals
<1> QED  BY <1>2, CalmStep DEF Goto

LEMMA BeginStep ==
  ASSUME WorkflowAssumption, DriveT, RestT, NEW w \in Workers, w \in callers, Kept, UNCHANGED <<callers, deployed>>,
         Become(w, [Idle EXCEPT !.pc = "begin", !.version = deployed])
  PROVE  DriveT'
<1> DEFINE l == [Idle EXCEPT !.pc = "begin", !.version = deployed]
<1>1. deployed \in 1 .. Versions  BY DEF RestT
<1>2. Body[deployed] # <<>> /\ Body[deployed] \in Seq([type : Types, name : Names])
  BY <1>1 DEF WorkflowAssumption
<1>3. l \in Locals /\ l.pc = "begin" /\ l.version = deployed /\ l.seen = <<>>
  BY <1>1, IdleLocals DEF Locals, Places
<1>4. Here(l) <= Len(Body[deployed])  BY <1>2, <1>3 DEF Here
<1>5. deployed <= deployed  BY <1>1 DEF WorkflowAssumption
<1> HIDE DEF l
<1>6. drive'[w] = l => DriveOK(w)' /\ Sound(w)'  BY <1>3, <1>4, <1>5 DEF DriveOK, Sound, Here
<1> QED  BY <1>3, <1>6, DriveStep DEF l

LEMMA ProceedStep ==
  ASSUME WorkflowAssumption, DriveT, NEW w \in Workers, w \in callers, Kept, UNCHANGED <<callers, deployed>>,
         NEW d \in Locals, d.version <= deployed, Here(d) <= Len(Body[d.version]) + 1,
         Become(w, Proceed(d))
  PROVE  DriveT'
<1> DEFINE e == Proceed(d)
<1>1. /\ e \in Locals /\ e.version = d.version /\ e.signal = d.signal /\ e.value = None
      /\ e.pc \in {"complete", "suspend", "fail", "work", "append", "consume"}
      /\ e.pc \in {"work", "append", "consume"} => Here(e) <= Len(Body[e.version])
      /\ e.pc = "work" => Command(e).type \in {"step", "value"}
      /\ e.pc = "consume" => Command(e).type = "signal"
  BY ProceedEffect
<1>2. Become(w, e)  OBVIOUS
<1> HIDE DEF e
<1>3. drive'[w] = e => DriveOK(w)' /\ Sound(w)'
  BY <1>1 DEF DriveOK, Sound, Here, Command
<1> QED  BY <1>1, <1>2, <1>3, DriveStep

(* What appendEvent and completeEvent do to the history.                   *)
LEMMA RecordEffect ==
  ASSUME WorkflowAssumption, DriveT, EventsT, NEW w \in Workers, At(w, "append"),
         Record(drive[w])
  PROVE  EventsT' /\ Kept /\ HistoryKept
<1> DEFINE d == drive[w]
           s == Here(d)
<1>1. d \in Locals /\ s <= Len(Body[d.version])
      /\ (Command(d).type = "sleep" => d.value = None)
  BY DEF DriveT, DriveOK, Sound, At
<1>2. s \in Positions /\ Command(d) \in [type : Types, name : Names]  BY <1>1, HerePosition
<1>3. d.value \in Values  BY <1>1 DEF Locals
<1>4. Event(d) \in Events /\ (Event(d).type = "sleep" => Event(d).value = None)
  BY <1>1, <1>2, <1>3 DEF Event, Events
<1>5. Event(d) # None  BY <1>4 DEF WorkflowAssumption
<1>6. events' = [events EXCEPT ![s] = IF @ = None THEN Event(d) ELSE @]  BY DEF Record
<1> HIDE DEF d, s
<1>7. events' \in Histories  BY <1>2, <1>4, <1>6 DEF EventsT, Histories
<1>a. ASSUME NEW i \in Positions
      PROVE  events'[i] = IF i = s /\ events[i] = None THEN Event(d) ELSE events[i]
  BY <1>2, <1>6 DEF EventsT, Histories
<1>8. \A i \in Positions : \/ events'[i] = events[i]
                           \/ events[i] = None /\ events'[i] = Event(d)
  BY <1>a
<1>9. Timers'  BY <1>4, <1>8 DEF EventsT, Timers
<1>10. Kept /\ HistoryKept  BY <1>8 DEF Kept, HistoryKept, Completed
<1> QED  BY <1>7, <1>9, <1>10 DEF EventsT

LEMMA CompleteEffect ==
  ASSUME WorkflowAssumption, DriveT, EventsT, NEW w \in Workers, CompleteEvent(w)
  PROVE  EventsT' /\ Kept /\ (Signals = {} \/ Alone => HistoryKept)
<1> DEFINE d == drive[w]
           s == d.seq
<1>1. d \in Locals /\ s \in Positions /\ d.signal \in Signals \cup {None}
  BY DEF DriveT, Locals
<1>2. events[s] \in Events
  BY <1>1 DEF CompleteEvent, At, DriveT, DriveOK, EventsT, Histories
<1>3. events' = [events EXCEPT ![s] = [@ EXCEPT !.status = "completed", !.value = d.signal]]
  BY DEF CompleteEvent
<1>4. At(w, "fire") => d.signal = None /\ events[s].type = "sleep"
  BY DEF DriveT, Sound, At
<1>5. At(w, "deliver") => d.signal # None  BY DEF DriveT, DriveOK, At
<1>6. Alone => events[s].status = "pending"
  BY DEF DriveT, Sound, At, CompleteEvent
<1>a. At(w, "deliver") \/ At(w, "fire")  BY DEF CompleteEvent
<1>c. At(w, "deliver") => events[s].type = "signal"  BY DEF DriveT, Sound, At
<1>b. events[s].type = "sleep" => events[s].value = None
  BY <1>1, <1>2 DEF EventsT, Timers, WorkflowAssumption
<1> HIDE DEF d, s
<1> DEFINE e == [events[s] EXCEPT !.status = "completed", !.value = d.signal]
<1>7. e \in Events /\ e.type = events[s].type /\ e.value = d.signal
  BY <1>1, <1>2 DEF Events, Values
<1>8. e # None  BY <1>7 DEF WorkflowAssumption
<1>9. Signals = {} => At(w, "fire")  BY <1>1, <1>5, <1>a
<1>10. ASSUME Signals = {}, events[s].status = "completed" PROVE e = events[s]
  <2>1. d.signal = None /\ events[s].value = None  BY <1>4, <1>9, <1>10, <1>b
  <2> QED  BY <1>2, <1>10, <2>1 DEF Events
<1>11. ASSUME NEW i \in Positions PROVE events'[i] = IF i = s THEN e ELSE events[i]
  BY <1>1, <1>3 DEF EventsT, Histories
<1>12. events' \in Histories
  <2> HIDE DEF e
  <2>1. events' = [events EXCEPT ![s] = e]  BY <1>3 DEF e
  <2> QED  BY <1>1, <1>7, <2>1 DEF EventsT, Histories
<1> HIDE DEF e
<1>13. Kept  BY <1>7, <1>8, <1>11 DEF Kept
<1>14. Timers'
  <2> SUFFICES ASSUME events[s].type = "sleep" PROVE e.value = None
    BY <1>7, <1>11 DEF EventsT, Timers
  <2> QED  BY <1>4, <1>7, <1>a, <1>c
<1>15. Signals = {} => HistoryKept  BY <1>10, <1>11 DEF HistoryKept, Completed
<1>16. Alone => HistoryKept  BY <1>6, <1>11 DEF HistoryKept, Completed
<1> QED  BY <1>12, <1>13, <1>14, <1>15, <1>16 DEF EventsT

(* After an error step() tries again, or the drive fails.                  *)
LEMMA CaughtStep ==
  ASSUME WorkflowAssumption, DriveT, NEW w \in Workers, w \in callers, Kept, UNCHANGED <<callers, deployed>>,
         At(w, "work") \/ At(w, "append"), Command(drive[w]).type = "step", Caught(w)
  PROVE  DriveT'
<1> DEFINE d == drive[w]
           l == [d EXCEPT !.pc = "work", !.attempt = @ + 1]
<1>1. d \in Locals /\ d.version <= deployed /\ Here(d) <= Len(Body[d.version])
  BY DEF DriveT, DriveOK, At
<1>2. CASE Goto(w, "fail")  BY <1>2, CalmGoto
<1>3. CASE d.attempt < Retries /\ Become(w, l)
  <2>1. d.attempt + 1 \in 0 .. Retries
    BY <1>1, <1>3 DEF Locals, WorkflowAssumption
  <2>2. l \in Locals /\ l.pc = "work" /\ l.version = d.version /\ l.seen = d.seen
    BY <1>1, <2>1 DEF Locals, Places
  <2>3. Become(w, l)  BY <1>3
  <2>4. Command(l).type = "step" /\ Here(l) = Here(d)  BY <2>2 DEF Command, Here
  <2> HIDE DEF l
  <2>5. drive'[w] = l => DriveOK(w)' /\ Sound(w)'
    BY <1>1, <2>2, <2>4 DEF DriveOK, Sound, Here, Command
  <2> QED  BY <2>2, <2>3, <2>5, DriveStep
<1> QED  BY <1>2, <1>3 DEF Caught

(* A claim, or the run's completion, that throws.                          *)
Throws(w) == ConsumeThrows(w) \/ CompleteThrows(w)

Cut(m) == inbox' = [i \in 1 .. Len(inbox) - 1 |-> IF i < m THEN inbox[i] ELSE inbox[i + 1]]

LEMMA ClaimEffect ==
  ASSUME RestT, NEW w \in Workers, Fitting(w) # {}, Claim(Min(Fitting(w)))
  PROVE  LET m == Min(Fitting(w))
         IN  m \in 1 .. Len(inbox) /\ inbox[m] \in Signals /\ Cut(m) /\ inbox' \in Seq(Signals)
<1> DEFINE m == Min(Fitting(w))
<1>1. inbox \in Seq(Signals) /\ Len(inbox) \in Nat  BY DEF RestT
<1>2. m \in 1 .. Len(inbox)
  <2>1. Fitting(w) \in SUBSET (1 .. Len(inbox))  BY <1>1 DEF Fitting
  <2>2. m \in Fitting(w)  BY <1>1, <2>1, MinMember
  <2> QED  BY <1>1, <2>1, <2>2
<1>3. Cut(m)  BY DEF Claim, Cut
<1> HIDE DEF m
<1>4. inbox[m] \in Signals  BY <1>1, <1>2, Element
<1>5. inbox' \in Seq(Signals)
  <2>1. Len(inbox) - 1 \in Nat  BY <1>1, <1>2
  <2>2. ASSUME NEW i \in 1 .. Len(inbox) - 1
        PROVE  (IF i < m THEN inbox[i] ELSE inbox[i + 1]) \in Signals
    <3>1. i \in 1 .. Len(inbox) /\ i + 1 \in 1 .. Len(inbox)  BY <1>1
    <3>2. inbox[i] \in Signals /\ inbox[i + 1] \in Signals  BY <1>1, <3>1, Element
    <3> QED  BY <3>2
  <2> QED  BY <1>3, <2>1, <2>2 DEF Cut
<1> QED  BY <1>2, <1>3, <1>4, <1>5 DEF m

LEMMA ThrowsEffect ==
  ASSUME WorkflowAssumption, RestT, NEW w \in Workers, Throws(w)
  PROVE  /\ Goto(w, "fail") /\ drive[w].pc \in {"consume", "complete"}
         /\ UNCHANGED <<events, callers, deployed, unsent, crashes, ran>>
         /\ faults' = faults + 1 /\ faults' \in 0 .. MaxFaults /\ inbox' \in Seq(Signals)
         /\ UNCHANGED inbox \/ \E m \in 1 .. Len(inbox) : Cut(m)
<1>1. /\ Goto(w, "fail") /\ drive[w].pc \in {"consume", "complete"} /\ Fault
      /\ UNCHANGED <<events, ran>>
  BY DEF Throws, ConsumeThrows, CompleteThrows, At
<1>2. /\ UNCHANGED <<callers, deployed, unsent, crashes>>
      /\ faults' = faults + 1 /\ faults' \in 0 .. MaxFaults
  BY <1>1 DEF Fault, RestT, WorkflowAssumption
<1>3. UNCHANGED inbox \/ (Fitting(w) # {} /\ Claim(Min(Fitting(w))))
  BY DEF Throws, ConsumeThrows, CompleteThrows
<1>4. CASE UNCHANGED inbox  BY <1>1, <1>2, <1>4 DEF RestT
<1>5. CASE Fitting(w) # {} /\ Claim(Min(Fitting(w)))  BY <1>1, <1>2, <1>5, ClaimEffect
<1> QED  BY <1>3, <1>4, <1>5

(* One step of the engine.                                                 *)
LEMMA NextInv ==
  ASSUME WorkflowAssumption, IInv, [Next]_vars
  PROVE  IInv' /\ (Signals = {} \/ Alone => HistoryKept)
<1> DEFINE H == Signals = {} \/ Alone => HistoryKept
<1>0. DriveT /\ EventsT /\ RestT  BY InvParts
<1>i. DriveT' /\ EventsT' /\ RestT' => IInv'
  BY DEF IInv, TypeOK, DriveT, EventsT, RestT, DriveOK
<1>k. events' = events => EventsT' /\ Kept /\ H
  BY <1>0 DEF EventsT, Timers, Kept, HistoryKept
<1>d. \A w \in Workers : drive[w] \in Locals /\ DriveOK(w) /\ Sound(w)  BY <1>0 DEF DriveT
<1> SUFFICES DriveT' /\ EventsT' /\ RestT' /\ H  BY <1>i
<1>w. callers \subseteq Workers  BY <1>0 DEF DriveT
<1> USE <1>0, <1>w DEF run, world
<1>1. ASSUME NEW w \in callers, Start(w) \/ Resume(w) \/ GetRun(w) PROVE DriveT' /\ EventsT' /\ RestT' /\ H
  <2>1. EventsT' /\ Kept /\ H  BY <1>1, <1>k DEF Start, Resume, GetRun
  <2>2. RestT'  BY <1>1 DEF Start, Resume, GetRun, RestT, Statuses
  <2>3. UNCHANGED <<callers, deployed>>  BY <1>1 DEF Start, Resume, GetRun
  <2>4. CASE Goto(w, "getRun")  BY <2>1, <2>2, <2>3, <2>4, CalmGoto
  <2>5. CASE Return(w)  BY <2>1, <2>2, <2>3, <2>5, ReturnStep
  <2>6. CASE Become(w, [Idle EXCEPT !.pc = "begin", !.version = deployed])
    BY <2>1, <2>2, <2>3, <2>6, BeginStep
  <2> QED  BY <1>1, <2>4, <2>5, <2>6 DEF Start, Resume, GetRun
<1>2. ASSUME NEW w \in callers, Begin(w) PROVE DriveT' /\ EventsT' /\ RestT' /\ H
  <2>1. EventsT' /\ Kept /\ H  BY <1>2, <1>k DEF Begin
  <2>2. RestT'  BY <1>2 DEF Begin, RestT, Statuses
  <2> DEFINE l == [drive[w] EXCEPT !.pc = "load"]
  <2>3. "load" \in Places  BY DEF Places
  <2>4. /\ l \in Locals /\ l.pc = "load" /\ l.version = drive[w].version /\ l.seen = drive[w].seen
    BY <1>d, <2>3, GotoLocals
  <2>5. drive[w].version <= deployed /\ Here(drive[w]) <= Len(Body[drive[w].version])
    BY <1>d, <1>2 DEF DriveOK, Begin, At
  <2>6. Become(w, l) /\ UNCHANGED <<callers, deployed>>  BY <1>2 DEF Begin, Goto
  <2> HIDE DEF l
  <2>7. drive'[w] = l => DriveOK(w)' /\ Sound(w)'
    BY <2>4, <2>5, <2>6 DEF DriveOK, Sound, Here
  <2> QED  BY <2>1, <2>2, <2>4, <2>6, <2>7, DriveStep
<1>3. ASSUME NEW w \in callers, Load(w) PROVE DriveT' /\ EventsT' /\ RestT' /\ H
  <2>1. EventsT' /\ Kept /\ H  BY <1>3, <1>k DEF Load
  <2>2. RestT'  BY <1>3 DEF Load, RestT
  <2> DEFINE d == [drive[w] EXCEPT !.past = events]
  <2>3. d \in Locals /\ d.version = drive[w].version /\ d.seen = drive[w].seen
    BY <1>d DEF EventsT, Locals
  <2>4. drive[w].version <= deployed /\ Here(drive[w]) <= Len(Body[drive[w].version])
    BY <1>d, <1>3 DEF DriveOK, Load, At
  <2>5. Become(w, Proceed(d)) /\ UNCHANGED <<callers, deployed>>  BY <1>3 DEF Load
  <2>6. drive[w].version \in 1 .. Versions  BY <1>d DEF Locals
  <2>7. Len(Body[drive[w].version]) \in Nat /\ Len(drive[w].seen) \in Nat
    BY <1>d, <2>6 DEF WorkflowAssumption, Locals
  <2> HIDE DEF d
  <2>8. Here(d) <= Len(Body[d.version]) + 1 /\ d.version <= deployed
    BY <2>3, <2>4, <2>7 DEF Here
  <2> QED  BY <2>1, <2>2, <2>3, <2>5, <2>8, ProceedStep
<1>4. ASSUME NEW w \in callers, Work(w) PROVE DriveT' /\ EventsT' /\ RestT' /\ H
  <2>1. EventsT' /\ Kept /\ H  BY <1>4, <1>k DEF Work
  <2>2. Here(drive[w]) <= Len(Body[drive[w].version]) /\ drive[w].version <= deployed
        /\ Command(drive[w]).type \in {"step", "value"}
    BY <1>d, <1>4 DEF Work, At, DriveOK, Sound
  <2>3. Here(drive[w]) \in Positions  BY <1>d, <2>2, HerePosition
  <2>4. ran[Here(drive[w])] \in Nat /\ ran' \in [Positions -> Nat]
    BY <1>4, <2>3 DEF Work, RestT
  <2>5. RestT'  BY <1>4, <2>4 DEF Work, RestT
  <2> DEFINE n == ran[Here(drive[w])] + 1
             l == [drive[w] EXCEPT !.pc = "append", !.value = n]
  <2>a. n \in Values  BY <2>4 DEF Values
  <2> HIDE DEF n
  <2>6. l \in Locals /\ l.pc = "append" /\ l.version = drive[w].version /\ l.seen = drive[w].seen
    BY ZenonT(30), <1>d, <2>a DEF Locals, Places
  <2>7. Become(w, l) /\ UNCHANGED <<callers, deployed>>  BY <1>4 DEF Work, n
  <2> HIDE DEF l
  <2>8. drive'[w] = l => DriveOK(w)' /\ Sound(w)'
    BY <2>2, <2>6, <2>7 DEF DriveOK, Sound, Here, Command
  <2> QED  BY <2>1, <2>5, <2>6, <2>7, <2>8, DriveStep
<1>5. ASSUME NEW w \in callers, WorkThrows(w) PROVE DriveT' /\ EventsT' /\ RestT' /\ H
  <2>1. EventsT' /\ Kept /\ H  BY <1>5, <1>k DEF WorkThrows
  <2>2. RestT' /\ UNCHANGED <<callers, deployed>>  BY <1>5 DEF WorkThrows, RestT
  <2> QED  BY <1>5, <2>1, <2>2, CaughtStep DEF WorkThrows
<1>6. ASSUME NEW w \in callers, Consume(w) PROVE DriveT' /\ EventsT' /\ RestT' /\ H
  <2>1. EventsT' /\ Kept /\ H  BY <1>6, <1>k DEF Consume
  <2>2. /\ drive[w].version <= deployed /\ Here(drive[w]) <= Len(Body[drive[w].version])
        /\ Command(drive[w]).type = "signal"
    BY <1>d, <1>6 DEF Consume, At, DriveOK, Sound
  <2>3. ASSUME NEW v \in Values, Become(w, [drive[w] EXCEPT !.pc = "append", !.value = v])
        PROVE  DriveT'
    <3> DEFINE l == [drive[w] EXCEPT !.pc = "append", !.value = v]
    <3>1. l \in Locals /\ l.pc = "append" /\ l.version = drive[w].version /\ l.seen = drive[w].seen
      BY <1>d DEF Locals, Places
    <3>2. Become(w, l) /\ UNCHANGED <<callers, deployed>>  BY <1>6, <2>3 DEF Consume
    <3> HIDE DEF l
    <3>3. drive'[w] = l => DriveOK(w)' /\ Sound(w)'
      BY <2>2, <3>1, <3>2 DEF DriveOK, Sound, Here, Command
    <3> QED  BY <2>1, <3>1, <3>2, <3>3, DriveStep
  <2>4. CASE Fitting(w) = {}
    <3>1. Goto(w, "append") /\ UNCHANGED inbox  BY <1>6, <2>4 DEF Consume
    <3>2. drive[w].value \in Values /\ drive[w] \in Locals  BY <1>d DEF Locals
    <3>3. Become(w, [drive[w] EXCEPT !.pc = "append", !.value = drive[w].value])
      BY <3>1, <3>2 DEF Goto, Locals
    <3>4. RestT'  BY <1>6, <3>1 DEF Consume, RestT
    <3> QED  BY <2>1, <2>3, <3>2, <3>3, <3>4
  <2>5. CASE Fitting(w) # {}
    <3> DEFINE m == Min(Fitting(w))
    <3>1. Become(w, [drive[w] EXCEPT !.pc = "append", !.value = inbox[m]]) /\ Claim(m)
      BY <1>6, <2>5 DEF Consume
    <3>2. m \in 1 .. Len(inbox) /\ inbox[m] \in Signals /\ inbox' \in Seq(Signals)
      BY <2>5, <3>1, ClaimEffect
    <3> HIDE DEF m
    <3>3. inbox[m] \in Values  BY <3>2 DEF Values
    <3>4. RestT'  BY <1>6, <3>2 DEF Consume, RestT
    <3> QED  BY <2>1, <2>3, <3>1, <3>3, <3>4
  <2> QED  BY <2>4, <2>5
<1>7. ASSUME NEW w \in callers, AppendEvent(w) PROVE DriveT' /\ EventsT' /\ RestT' /\ H
  <2>1. EventsT' /\ Kept /\ H  BY <1>7, RecordEffect DEF AppendEvent
  <2>2. RestT' /\ UNCHANGED <<callers, deployed>>  BY <1>7 DEF AppendEvent, RestT
  <2>3. CASE Goto(w, "suspend")  BY <2>1, <2>2, <2>3, CalmGoto
  <2> DEFINE d == [drive[w] EXCEPT !.seen = Append(@, drive[w].value)]
  <2>4. CASE Become(w, Proceed(d))
    <3>1. drive[w].version <= deployed /\ Here(drive[w]) <= Len(Body[drive[w].version])
      BY <1>d, <1>7 DEF DriveOK, AppendEvent, At
    <3>2. drive[w].seen \in Seq(Values) /\ drive[w].value \in Values
          /\ drive[w].version \in 1 .. Versions
      BY <1>d DEF Locals
    <3>3. Append(drive[w].seen, drive[w].value) \in Seq(Values)
          /\ Len(Append(drive[w].seen, drive[w].value)) = Len(drive[w].seen) + 1
      BY <3>2
    <3>4. Len(Body[drive[w].version]) \in Nat /\ Len(drive[w].seen) \in Nat
      BY <3>2 DEF WorkflowAssumption
    <3>5. d \in Locals /\ d.version = drive[w].version
          /\ d.seen = Append(drive[w].seen, drive[w].value)
      BY <1>d, <3>3 DEF Locals
    <3> HIDE DEF d
    <3>6. Here(d) <= Len(Body[d.version]) + 1 /\ d.version <= deployed
      BY <3>1, <3>3, <3>4, <3>5 DEF Here
    <3> QED  BY <2>1, <2>2, <2>4, <3>5, <3>6, ProceedStep
  <2> QED  BY <1>7, <2>3, <2>4 DEF AppendEvent
<1>8. ASSUME NEW w \in callers, AppendThrows(w) PROVE DriveT' /\ EventsT' /\ RestT' /\ H
  <2>1. EventsT' /\ Kept /\ H
    <3>1. CASE UNCHANGED events  BY <1>k, <3>1
    <3>2. CASE Record(drive[w])  BY <1>8, <3>2, RecordEffect DEF AppendThrows
    <3> QED  BY <1>8, <3>1, <3>2 DEF AppendThrows
  <2>2. RestT' /\ UNCHANGED <<callers, deployed>>
    BY <1>8 DEF AppendThrows, Fault, RestT, WorkflowAssumption
  <2>3. CASE Goto(w, "fail")  BY <2>1, <2>2, <2>3, CalmGoto
  <2>4. CASE Command(drive[w]).type = "step" /\ Caught(w)
    BY <1>8, <2>1, <2>2, <2>4, CaughtStep DEF AppendThrows
  <2> QED  BY <1>8, <2>3, <2>4 DEF AppendThrows
<1>9. ASSUME NEW w \in callers, Suspend(w) \/ Complete(w) \/ Fail(w)
      PROVE DriveT' /\ EventsT' /\ RestT' /\ H
  <2>1. EventsT' /\ Kept /\ H  BY <1>9, <1>k DEF Suspend, Complete, Fail
  <2>2. drive[w].seen \in Seq(Values)  BY <1>d DEF Locals
  <2>3. RestT' /\ UNCHANGED <<callers, deployed>>
    BY <1>9, <2>2 DEF Suspend, Complete, Fail, RestT, Statuses
  <2>4. Return(w)  BY <1>9 DEF Suspend, Complete, Fail
  <2> QED  BY <2>1, <2>3, <2>4, ReturnStep
<1>t. ASSUME NEW w \in callers, Throws(w) PROVE DriveT' /\ EventsT' /\ RestT' /\ H
  <2>1. /\ Goto(w, "fail") /\ UNCHANGED <<events, callers, deployed, unsent, crashes, ran>>
        /\ faults' \in 0 .. MaxFaults /\ inbox' \in Seq(Signals)
    BY <1>t, ThrowsEffect
  <2>2. EventsT' /\ Kept /\ H  BY <1>k, <2>1
  <2>3. drive[w].seen \in Seq(Values)  BY <1>d DEF Locals
  <2>4. RestT'
    <3>1. CASE ConsumeThrows(w)  BY <2>1, <3>1 DEF ConsumeThrows, RestT
    <3>2. CASE CompleteThrows(w)  BY <2>1, <2>3, <3>2 DEF CompleteThrows, RestT, Statuses
    <3> QED  BY <1>t, <3>1, <3>2 DEF Throws
  <2> QED  BY <2>1, <2>2, <2>4, CalmGoto
<1>10. ASSUME NEW w \in callers, NEW x \in unsent, Signal(w, x)
       PROVE DriveT' /\ EventsT' /\ RestT' /\ H
  <2>1. EventsT' /\ Kept /\ H  BY <1>10, <1>k DEF Signal
  <2>2. RestT' /\ UNCHANGED <<callers, deployed>>  BY <1>10 DEF Signal, RestT
  <2> DEFINE l == [Idle EXCEPT !.pc = "send", !.signal = x]
  <2>3. x \in Signals /\ x # None  BY <1>10 DEF RestT, WorkflowAssumption
  <2>4. l \in Locals /\ l.pc = "send" /\ l.signal = x /\ l.version = 1
    BY <2>3, IdleLocals DEF Locals, Places
  <2>5. 1 <= deployed  BY DEF RestT, WorkflowAssumption
  <2>6. Become(w, l)  BY <1>10 DEF Signal
  <2> HIDE DEF l
  <2>7. drive'[w] = l => DriveOK(w)' /\ Sound(w)'
    BY <2>2, <2>3, <2>4, <2>5 DEF DriveOK, Sound
  <2> QED  BY <2>1, <2>2, <2>4, <2>6, <2>7, DriveStep
<1>11. ASSUME NEW w \in callers, Send(w) PROVE DriveT' /\ EventsT' /\ RestT' /\ H
  <2> DEFINE waiting == {i \in Pending("signal") : events[i].name = NameOf[drive[w].signal]}
  <2>1. EventsT' /\ Kept /\ H  BY <1>11, <1>k DEF Send
  <2>2. RestT' /\ UNCHANGED <<callers, deployed>>  BY <1>11 DEF Send, RestT
  <2>3. drive[w].signal # None /\ drive[w].version <= deployed
    BY <1>d, <1>11 DEF DriveOK, Send, At
  <2>4. CASE waiting = {}
    <3> DEFINE l == [drive[w] EXCEPT !.pc = "buffer"]
    <3>1. "buffer" \in Places  BY DEF Places
    <3>2. l \in Locals /\ l.pc = "buffer" /\ l.signal = drive[w].signal /\ l.version = drive[w].version
      BY <1>d, <3>1, GotoLocals
    <3>3. Become(w, l)  BY <1>11, <2>4 DEF Send, Goto
    <3> HIDE DEF l
    <3>4. drive'[w] = l => DriveOK(w)' /\ Sound(w)'
      BY <2>2, <2>3, <3>2 DEF DriveOK, Sound
    <3> QED  BY <2>1, <2>2, <3>2, <3>3, <3>4, DriveStep
  <2>5. CASE waiting # {}
    <3> DEFINE m == Min(waiting)
               l == [drive[w] EXCEPT !.pc = "deliver", !.seq = m]
    <3>1. waiting \in SUBSET Nat
      <4>1. PICK n \in Nat : Positions = 1 .. n  BY SMTT(30), PositionsBound
      <4> QED  BY <4>1 DEF Pending
    <3>2. m \in waiting
      <4> HIDE DEF waiting
      <4> QED  BY <2>5, <3>1, MinMember
    <3>3. /\ m \in Positions /\ events[m] # None
          /\ events[m].type = "signal" /\ events[m].status = "pending"
      BY <3>2 DEF Pending
    <3>4. Become(w, l)  BY <1>11, <2>5 DEF Send
    <3> HIDE DEF m
    <3>5. /\ l \in Locals /\ l.pc = "deliver" /\ l.signal = drive[w].signal /\ l.seq = m
          /\ l.version = drive[w].version
      BY <1>d, <3>3 DEF Locals, Places
    <3>6. UNCHANGED events  BY <1>11 DEF Send
    <3> HIDE DEF l
    <3>7. drive'[w] = l => DriveOK(w)' /\ Sound(w)'
      BY <2>2, <2>3, <3>3, <3>5, <3>6 DEF DriveOK, Sound
    <3> QED  BY <2>1, <2>2, <3>4, <3>5, <3>7, DriveStep
  <2> QED  BY <2>4, <2>5
<1>12. ASSUME NEW w \in callers, Buffer(w) PROVE DriveT' /\ EventsT' /\ RestT' /\ H
  <2>1. EventsT' /\ Kept /\ H  BY <1>12, <1>k DEF Buffer
  <2>2. drive[w].signal \in Signals
    BY <1>d, <1>12 DEF Buffer, At, DriveOK, Locals
  <2>a. inbox' \in Seq(Signals)
    <3>1. Append(inbox, drive[w].signal) \in Seq(Signals)  BY <2>2 DEF RestT
    <3> QED  BY <1>12, <3>1 DEF Buffer, RestT
  <2>b. unsent' \subseteq Signals  BY <1>12, <2>2 DEF Buffer, RestT
  <2>3. RestT' /\ UNCHANGED <<callers, deployed>>  BY <1>12, <2>a, <2>b DEF Buffer, RestT
  <2>4. Return(w)  BY <1>12 DEF Buffer
  <2> QED  BY <2>1, <2>3, <2>4, ReturnStep
<1>13. ASSUME NEW w \in callers, Tick(w) PROVE DriveT' /\ EventsT' /\ RestT' /\ H
  <2>1. EventsT' /\ Kept /\ H  BY <1>13, <1>k DEF Tick
  <2>2. RestT' /\ UNCHANGED <<callers, deployed, events>>  BY <1>13 DEF Tick, RestT
  <2>3. PICK i \in Pending("sleep") : Become(w, [Idle EXCEPT !.pc = "fire", !.seq = i])
    BY <1>13 DEF Tick
  <2> DEFINE l == [Idle EXCEPT !.pc = "fire", !.seq = i]
  <2>4. /\ i \in Positions /\ events[i] # None
        /\ events[i].type = "sleep" /\ events[i].status = "pending"
    BY <2>3 DEF Pending
  <2>5. l \in Locals /\ l.pc = "fire" /\ l.seq = i /\ l.signal = None /\ l.version = 1
    BY <2>4, IdleLocals DEF Locals, Places
  <2>6. 1 <= deployed  BY DEF RestT, WorkflowAssumption
  <2>7. Become(w, l)  BY <2>3
  <2> HIDE DEF l
  <2>8. drive'[w] = l => DriveOK(w)' /\ Sound(w)'
    BY <2>2, <2>4, <2>5, <2>6 DEF DriveOK, Sound
  <2> QED  BY <2>1, <2>2, <2>5, <2>7, <2>8, DriveStep
<1>14. ASSUME NEW w \in callers, CompleteEvent(w) PROVE DriveT' /\ EventsT' /\ RestT' /\ H
  <2>1. EventsT' /\ Kept /\ H  BY <1>14, CompleteEffect
  <2>2. RestT' /\ UNCHANGED <<callers, deployed>>  BY <1>14 DEF CompleteEvent, RestT
  <2> DEFINE l == [Idle EXCEPT !.pc = "getRun"]
  <2>3. "getRun" \in Places  BY DEF Places
  <2>4. l \in Locals /\ l.pc = "getRun" /\ l.version = 1
    BY <2>3, IdleLocals DEF Locals
  <2>5. 1 <= deployed  BY DEF RestT, WorkflowAssumption
  <2>6. Become(w, l)  BY <1>14 DEF CompleteEvent
  <2> HIDE DEF l
  <2> QED  BY <2>1, <2>2, <2>4, <2>5, <2>6, CalmStep
<1>15. ASSUME NEW w \in callers, Crash(w) PROVE DriveT' /\ EventsT' /\ RestT' /\ H
  <2>1. EventsT' /\ Kept /\ H  BY <1>15, <1>k DEF Crash
  <2>2. RestT' /\ UNCHANGED <<callers, deployed>>  BY <1>15 DEF Crash, RestT, WorkflowAssumption
  <2>3. Return(w)  BY <1>15 DEF Crash
  <2> QED  BY <2>1, <2>2, <2>3, ReturnStep
<1>16. CASE Deploy
  <2>1. EventsT' /\ Kept /\ H  BY <1>16, <1>k DEF Deploy
  <2>2. RestT'  BY <1>16 DEF Deploy, RestT, WorkflowAssumption
  <2>3. UNCHANGED <<callers, drive, events>> /\ deployed' = deployed + 1  BY <1>16 DEF Deploy
  <2>4. ASSUME NEW w \in Workers PROVE DriveOK(w)' /\ Sound(w)'
    <3>1. drive[w].version \in Nat /\ deployed \in Nat  BY <1>d DEF Locals, RestT
    <3> QED  BY <1>d, <2>3, <3>1 DEF DriveOK, Sound, Alone
  <2> QED  BY <2>1, <2>2, <2>3, <2>4 DEF DriveT
<1>17. CASE UNCHANGED vars
  <2>1. EventsT' /\ Kept /\ H  BY SMTT(30), <1>17, <1>k DEF vars
  <2> QED  BY <1>17, <1>d, <2>1 DEF vars, DriveT, RestT, DriveOK, Sound, Alone
<1> QED
  BY <1>1, <1>2, <1>3, <1>4, <1>5, <1>6, <1>7, <1>8, <1>9, <1>10, <1>11, <1>12, <1>13, <1>14,
     <1>15, <1>16, <1>17, <1>t DEF Next, Step, Throws

LEMMA CallersStay ==
  ASSUME [Next]_vars
  PROVE  UNCHANGED callers
BY DEF Next, vars, world, Start, Resume, Tick, Signal, Step, GetRun, Begin, Load, Work, WorkThrows,
  Consume, ConsumeThrows, AppendEvent, AppendThrows, Suspend, Complete, CompleteThrows, Fail, Send, Buffer,
  CompleteEvent, Crash, Deploy, Fault

LEMMA InitInv == WorkflowAssumption /\ Init => IInv
<1> SUFFICES ASSUME WorkflowAssumption, Init PROVE DriveT /\ EventsT /\ RestT  BY InvParts
<1>1. EventsT  BY DEF Init, EventsT, Histories, Timers
<1>2. RestT  BY DEF Init, RestT, WorkflowAssumption
<1>3. DriveT
  <2>1. 1 <= deployed  BY DEF Init
  <2> QED  BY <2>1, IdleLocals DEF Init, DriveT, DriveOK, Sound
<1> QED  BY <1>1, <1>2, <1>3

(* Types, for every body, version and number of workers.                   *)
THEOREM TypeCorrect ==
  ASSUME WorkflowAssumption
  PROVE  Spec => []TypeOK
<1>1. Init => IInv  BY InitInv
<1>2. IInv /\ [Next]_vars => IInv'  BY NextInv
<1>3. IInv => TypeOK  BY DEF IInv
<1> QED  BY <1>1, <1>2, <1>3, PTL DEF Spec

(* What a command recorded as completed is never changed, whatever crashes,*)
(* fails to append or is deployed: with any number of workers where no     *)
(* signals are sent, and with signals where one call is under way at a time*)
(* (workflow-store.ts:70-72).                                              *)
THEOREM HistoryStays ==
  ASSUME WorkflowAssumption
  PROVE  Spec /\ (Signals = {} \/ Alone) => HistoryFixed
<1>1. Init => IInv  BY InitInv
<1> DEFINE H == Signals = {} \/ Alone
<1>2. IInv /\ H /\ [Next]_vars => IInv' /\ H' /\ [HistoryKept]_vars  BY NextInv, CallersStay DEF Alone
<1> QED  BY <1>1, <1>2, PTL DEF Spec, HistoryFixed
-----------------------------------------------------------------------------
(* What a step of one call does, said once for the invariants that follow. *)
AtCommand(d) == d.pc \in {"work", "consume", "append"}
Driving(d) == AtCommand(d) \/ d.pc \in {"begin", "load"}

(* A step of w takes it away from its commands, to the start of a drive,   *)
(* or back to the step it is at.                                           *)
Leaves(w) ==
  /\ ~Driving(drive'[w]) /\ drive'[w].pc # "complete"
  /\ drive'[w].past \in {drive[w].past, Idle.past}

Enters(w) ==
  /\ drive'[w].pc \in {"begin", "load"}
  /\ \/ /\ status # "completed" /\ drive'[w].version = deployed
        /\ drive'[w].seen = <<>> /\ drive'[w].value = None
     \/ /\ At(w, "begin") /\ drive'[w].version = drive[w].version
        /\ drive'[w].seen = drive[w].seen /\ drive'[w].value = drive[w].value
  /\ drive'[w].past \in {drive[w].past, Idle.past}
  /\ UNCHANGED <<events, result>>

TriesAgain(w) ==
  /\ \/ At(w, "work") /\ UNCHANGED events
     \/ At(w, "append") /\ faults' = faults + 1
  /\ Command(drive[w]).type = "step"
  /\ drive'[w].pc = "work" /\ drive'[w].version = drive[w].version
  /\ drive'[w].seen = drive[w].seen /\ drive'[w].past = drive[w].past

StepOf(w) ==
  Start(w) \/ Resume(w) \/ Tick(w) \/ (\E x \in unsent : Signal(w, x)) \/ Step(w) \/ Crash(w)

LEMMA NextParts ==
  ASSUME [Next]_vars
  PROVE  \/ \E w \in callers : StepOf(w)
         \/ /\ UNCHANGED <<drive, events, inbox, status, result, unsent, ran, crashes, faults>>
            /\ deployed' = deployed \/ (deployed < Versions /\ deployed' = deployed + 1)
<1>1. CASE UNCHANGED vars  BY <1>1 DEF vars
<1>2. CASE Deploy  BY <1>2 DEF Deploy, run
<1>3. ASSUME NEW w \in callers,
             \/ Start(w) \/ Resume(w) \/ Tick(w) \/ \E x \in unsent : Signal(w, x)
             \/ Step(w)
             \/ Crash(w)
      PROVE  StepOf(w)
  BY <1>3 DEF StepOf
<1> QED  BY <1>1, <1>2, <1>3 DEF Next

LEMMA GotoEffect ==
  ASSUME drive \in [Workers -> Locals], NEW w \in Workers, NEW place, Goto(w, place)
  PROVE  /\ \A u \in Workers \ {w} : drive'[u] = drive[u]
         /\ LET d == drive[w]
                e == drive'[w]
            IN  /\ e.pc = place /\ e.past = d.past /\ e.seen = d.seen /\ e.value = d.value
                /\ e.version = d.version /\ e.signal = d.signal /\ e.seq = d.seq
<1>1. drive[w] \in Locals  OBVIOUS
<1>2. drive' = [drive EXCEPT ![w] = [drive[w] EXCEPT !.pc = place]]  BY DEF Goto, Become
<1> QED  BY <1>1, <1>2 DEF Locals

LEMMA BecomeEffect ==
  ASSUME drive \in [Workers -> Locals], NEW w \in Workers, NEW l, Become(w, l)
  PROVE  drive'[w] = l /\ \A u \in Workers \ {w} : drive'[u] = drive[u]
BY DEF Become

LEMMA CaughtEffect ==
  ASSUME drive \in [Workers -> Locals], NEW w \in Workers, Caught(w)
  PROVE  /\ \A u \in Workers \ {w} : drive'[u] = drive[u]
         /\ LET d == drive[w]
                e == drive'[w]
            IN  /\ e.pc \in {"work", "fail"} /\ e.past = d.past /\ e.seen = d.seen
                /\ e.version = d.version /\ e.value = d.value /\ e.signal = d.signal
<1> DEFINE l == [drive[w] EXCEPT !.pc = "work", !.attempt = drive[w].attempt + 1]
<1>1. CASE Goto(w, "fail")  BY <1>1, GotoEffect
<1>2. CASE Become(w, l)
  <2>1. drive[w] \in Locals  OBVIOUS
  <2>2. /\ l.pc = "work" /\ l.past = drive[w].past /\ l.seen = drive[w].seen
        /\ l.version = drive[w].version /\ l.value = drive[w].value /\ l.signal = drive[w].signal
    BY <2>1 DEF Locals
  <2> HIDE DEF l
  <2> QED  BY <1>2, <2>2, BecomeEffect
<1> QED  BY <1>1, <1>2 DEF Caught

LEMMA Moves ==
  ASSUME WorkflowAssumption, IInv, NEW w \in callers, StepOf(w)
  PROVE  /\ \A u \in Workers \ {w} : drive'[u] = drive[u]
         /\ \/ Leaves(w) \/ Enters(w) \/ Load(w) \/ Work(w) \/ Consume(w)
            \/ AppendEvent(w) \/ TriesAgain(w)
         /\ UNCHANGED events \/ (At(w, "append") /\ Record(drive[w])) \/ CompleteEvent(w)
<1>0. DriveT /\ EventsT /\ RestT  BY InvParts
<1>1. w \in Workers /\ drive \in [Workers -> Locals] /\ drive[w] \in Locals  BY <1>0 DEF DriveT
<1>i. Idle.pc = "idle" /\ Idle.seen = <<>> /\ Idle.value = None  BY IdleLocals DEF Idle
<1>b. ASSUME Become(w, [Idle EXCEPT !.pc = "begin", !.version = deployed]),
             UNCHANGED <<events, result>>, status # "completed"
      PROVE  Enters(w) /\ \A u \in Workers \ {w} : drive'[u] = drive[u]
  <2> DEFINE l == [Idle EXCEPT !.pc = "begin", !.version = deployed]
  <2>1. l.pc = "begin" /\ l.version = deployed /\ l.seen = <<>> /\ l.value = None /\ l.past = Idle.past  BY DEF Idle
  <2>2. Become(w, l)  BY <1>b
  <2> HIDE DEF l
  <2> QED  BY <1>1, <1>b, <2>1, <2>2, BecomeEffect DEF Enters
<1>l. ASSUME NEW place, Goto(w, place), place \notin {"work", "consume", "append", "begin", "load", "complete"}
      PROVE  Leaves(w) /\ \A u \in Workers \ {w} : drive'[u] = drive[u]
  BY <1>1, <1>l, GotoEffect DEF Leaves, Driving, AtCommand
<1>r. ASSUME Return(w)
      PROVE  Leaves(w) /\ \A u \in Workers \ {w} : drive'[u] = drive[u]
  BY <1>1, <1>i, <1>r, BecomeEffect DEF Return, Leaves, Driving, AtCommand
<1>2. CASE Start(w) \/ Resume(w) \/ GetRun(w)
  <2>1. UNCHANGED <<events, result>>  BY <1>2 DEF Start, Resume, GetRun, run
  <2>2. None # "completed"  BY DEF WorkflowAssumption, Statuses
  <2> QED  BY <1>2, <1>b, <1>l, <1>r, <2>1, <2>2 DEF Start, Resume, GetRun
<1>3. CASE Begin(w)  BY <1>1, <1>3, GotoEffect DEF Begin, Enters
<1>4. CASE Load(w)  BY <1>1, <1>4, BecomeEffect DEF Load
<1>5. CASE Work(w)  BY <1>1, <1>5, BecomeEffect DEF Work
<1>6. CASE Consume(w)
  <2>1. \A u \in Workers \ {w} : drive'[u] = drive[u]
    BY <1>1, <1>6, BecomeEffect, GotoEffect DEF Consume
  <2> QED  BY <1>6, <2>1 DEF Consume
<1>7. CASE AppendEvent(w)
  <2>1. \A u \in Workers \ {w} : drive'[u] = drive[u]
    BY <1>1, <1>7, BecomeEffect, GotoEffect DEF AppendEvent
  <2> QED  BY <1>7, <2>1 DEF AppendEvent
<1>8. CASE WorkThrows(w) \/ AppendThrows(w)
  <2>1. CASE Goto(w, "fail")  BY <1>8, <1>l, <2>1 DEF WorkThrows, AppendThrows
  <2>2. CASE Caught(w) /\ Command(drive[w]).type = "step"
    <3>1. \A u \in Workers \ {w} : drive'[u] = drive[u]  BY <1>1, <2>2, CaughtEffect
    <3>2. CASE drive'[w].pc = "fail"
      <4>1. Leaves(w)  BY <1>1, <2>2, <3>2, CaughtEffect DEF Leaves, Driving, AtCommand
      <4> QED  BY <1>8, <3>1, <4>1 DEF WorkThrows, AppendThrows
    <3>3. CASE drive'[w].pc = "work"
      <4>2. \/ At(w, "work") /\ UNCHANGED events
            \/ At(w, "append") /\ faults' = faults + 1
        BY <1>8 DEF WorkThrows, AppendThrows, Fault
      <4>3. /\ drive'[w].version = drive[w].version
            /\ drive'[w].seen = drive[w].seen /\ drive'[w].past = drive[w].past
        BY <1>1, <2>2, CaughtEffect
      <4>1. TriesAgain(w)  BY <2>2, <3>3, <4>2, <4>3 DEF TriesAgain
      <4> QED  BY <1>8, <3>1, <4>1 DEF WorkThrows, AppendThrows
    <3> QED  BY <1>1, <2>2, <3>2, <3>3, CaughtEffect
  <2> QED  BY <1>8, <2>1, <2>2 DEF WorkThrows, AppendThrows
<1>t. CASE Throws(w)
  <2>1. Goto(w, "fail") /\ UNCHANGED events  BY <1>0, <1>1, <1>t, ThrowsEffect
  <2> QED  BY <1>l, <2>1
<1>9. CASE Suspend(w) \/ Complete(w) \/ Fail(w) \/ Crash(w) \/ Buffer(w)
  <2>1. Return(w) /\ UNCHANGED events  BY <1>9 DEF Suspend, Complete, Fail, Crash, Buffer
  <2> QED  BY <1>r, <2>1
<1>10. CASE (\E x \in unsent : Signal(w, x)) \/ Tick(w) \/ CompleteEvent(w)
  <2>1. UNCHANGED events \/ CompleteEvent(w)  BY <1>10 DEF Signal, Tick
  <2>2. \/ \E x : Become(w, [Idle EXCEPT !.pc = "send", !.signal = x])
        \/ \E i : Become(w, [Idle EXCEPT !.pc = "fire", !.seq = i])
        \/ Become(w, [Idle EXCEPT !.pc = "getRun"])
    BY <1>10 DEF Signal, Tick, CompleteEvent
  <2> DEFINE Away(l) == ~Driving(l) /\ l.pc # "complete" /\ l.past = Idle.past
  <2>a. /\ \A x : Away([Idle EXCEPT !.pc = "send", !.signal = x])
        /\ \A i : Away([Idle EXCEPT !.pc = "fire", !.seq = i])
        /\ Away([Idle EXCEPT !.pc = "getRun"])
    BY DEF Idle, Driving, AtCommand
  <2>b. PICK l : Become(w, l) /\ Away(l)
    <3> HIDE DEF Away
    <3> QED  BY <2>2, <2>a
  <2>3. Leaves(w) /\ \A u \in Workers \ {w} : drive'[u] = drive[u]
    BY <1>1, <2>b, BecomeEffect DEF Leaves
  <2> QED  BY <2>1, <2>3
<1>11. CASE Send(w)
  <2>1. UNCHANGED events  BY <1>11 DEF Send
  <2>2. CASE Goto(w, "buffer")  BY <1>l, <2>1, <2>2
  <2>3. ASSUME NEW i, Become(w, [drive[w] EXCEPT !.pc = "deliver", !.seq = i])
        PROVE  Leaves(w) /\ \A u \in Workers \ {w} : drive'[u] = drive[u]
    <3> DEFINE l == [drive[w] EXCEPT !.pc = "deliver", !.seq = i]
    <3>1. l.pc = "deliver" /\ l.past = drive[w].past  BY <1>1 DEF Locals
    <3> HIDE DEF l
    <3>2. Become(w, l)  BY <2>3 DEF l
    <3> QED  BY <1>1, <3>1, <3>2, BecomeEffect DEF Leaves, Driving, AtCommand
  <2> QED  BY <1>11, <2>1, <2>2, <2>3 DEF Send
<1> QED
  BY <1>2, <1>3, <1>4, <1>5, <1>6, <1>7, <1>8, <1>9, <1>10, <1>11, <1>t DEF StepOf, Step, Throws, Begin

(* What a step of w records or completes.                                  *)
Records(w, i) ==
  /\ At(w, "append") /\ i = Here(drive[w]) /\ events[i] = None
  /\ events'[i] = Event(drive[w]) /\ events'[i] # None

Completes(w, i) ==
  /\ CompleteEvent(w) /\ i = drive[w].seq /\ events[i] # None
  /\ events'[i] # None /\ events'[i].type = events[i].type /\ events'[i].name = events[i].name
  /\ events'[i].status = "completed" /\ events'[i].value = drive[w].signal

LEMMA EventMoves ==
  ASSUME WorkflowAssumption, IInv, NEW w \in callers, StepOf(w), NEW i \in Positions
  PROVE  events'[i] = events[i] \/ Records(w, i) \/ Completes(w, i)
<1>0. DriveT /\ EventsT /\ RestT  BY InvParts
<1>1. w \in Workers /\ drive[w] \in Locals /\ events \in Histories  BY <1>0 DEF DriveT, EventsT
<1>2. CASE At(w, "append") /\ Record(drive[w])
  <2>1. Here(drive[w]) \in Positions /\ Command(drive[w]) \in [type : Types, name : Names]
    BY <1>0, <1>1, <1>2, HerePosition DEF DriveT, DriveOK, At
  <2>2. drive[w].value \in Values  BY <1>1 DEF Locals
  <2>3. Event(drive[w]) \in Events  BY <2>1, <2>2 DEF Event, Events
  <2>4. Event(drive[w]) # None  BY <2>3 DEF WorkflowAssumption
  <2>5. events'[i] = IF i = Here(drive[w]) /\ events[i] = None THEN Event(drive[w]) ELSE events[i]
    BY <1>1, <1>2, <2>1 DEF Record, Histories
  <2> QED  BY <1>2, <2>4, <2>5 DEF Records
<1>3. CASE CompleteEvent(w)
  <2> DEFINE s == drive[w].seq
             e == [events[s] EXCEPT !.status = "completed", !.value = drive[w].signal]
  <2>1. s \in Positions /\ events[s] # None /\ drive[w].signal \in Signals \cup {None}
    BY <1>0, <1>1, <1>3 DEF CompleteEvent, At, DriveT, DriveOK, Locals
  <2>2. events[s] \in Events  BY <1>1, <2>1 DEF Histories
  <2>3. /\ e \in Events /\ e.type = events[s].type /\ e.name = events[s].name
        /\ e.status = "completed" /\ e.value = drive[w].signal
    BY <2>1, <2>2 DEF Events, Values
  <2>4. e # None  BY <2>3 DEF WorkflowAssumption
  <2>5. events'[i] = IF i = s THEN e ELSE events[i]  BY <1>1, <1>3, <2>1 DEF CompleteEvent, Histories
  <2> HIDE DEF e
  <2> QED  BY <1>3, <2>1, <2>3, <2>4, <2>5 DEF Completes
<1> QED  BY <1>2, <1>3, Moves

LEMMA StepGrows ==
  ASSUME WorkflowAssumption, IInv, NEW w \in callers, StepOf(w), NEW i \in Positions
  PROVE  /\ events[i] # None => events'[i] # None /\ events'[i].type = events[i].type
         /\ Completed(i) => Completed(i)'
BY EventMoves DEF Records, Completes, Completed

-----------------------------------------------------------------------------
(* Replays.  A past is a history of before, a drive has its value where it *)
(* appends, every command before it is completed, and alone it is the only *)
(* one that records: nobody took its position meanwhile.                   *)
PastOK(w) ==
  \A i \in Positions :
    LET e == drive[w].past[i]
    IN  e # None => events[i] # None /\ (e.status = "completed" => Completed(i))

Located(w) ==
  LET d == drive[w]
  IN /\ d.pc \in {"begin", "load"} => d.seen = <<>>
     /\ d.pc \in {"begin", "load", "consume"} => d.value = None
     /\ d.pc = "append" /\ Command(d).type \in {"step", "value"} => d.value \in Nat
     /\ d.pc = "append" /\ Command(d).type = "signal" => d.value \in Signals \cup {None}

Behind(w) == Driving(drive[w]) => \A i \in 1 .. Len(drive[w].seen) : Completed(i)

Clear(w) ==
  LET d == drive[w]
  IN Alone /\ AtCommand(d) =>
       /\ events[Here(d)] = None \/ Completed(Here(d))
       /\ \A i \in Positions : i > Here(d) => events[i] = d.past[i]

WorkDone ==
  \A i \in Positions : events[i] # None =>
    /\ events[i].type \in {"step", "value"} => events[i].status = "completed"
    /\ events[i].status = "pending" => events[i].value = None

OfBody ==
  Versions = 1 =>
    \A i \in Positions : events[i] # None =>
      i <= Len(Body[1]) /\ events[i].type = Body[1][i].type

ReplayInv ==
  /\ \A w \in Workers : PastOK(w) /\ Located(w) /\ Behind(w) /\ Clear(w)
  /\ WorkDone /\ OfBody /\ NoGaps

Ordered == Alone \/ (Versions = 1 /\ Signals = {})

LEMMA SeenPositions ==
  ASSUME WorkflowAssumption, NEW d \in Locals, Here(d) <= Len(Body[d.version])
  PROVE  /\ Here(d) \in Positions /\ Here(d) = Len(d.seen) + 1
         /\ 1 .. Len(d.seen) \subseteq Positions
         /\ \A i \in Positions : i < Here(d) => i \in 1 .. Len(d.seen)
<1>1. Here(d) \in Positions  BY HerePosition
<1>2. PICK n \in Nat : Positions = 1 .. n  BY PositionsBound
<1>3. Len(d.seen) \in Nat  BY DEF Locals
<1> QED  BY <1>1, <1>2, <1>3 DEF Here

(* What a worker is known to be at.                                        *)
LEMMA AtPositions ==
  ASSUME WorkflowAssumption, IInv, NEW w \in Workers, Driving(drive[w])
  PROVE  /\ Here(drive[w]) \in Positions /\ Here(drive[w]) = Len(drive[w].seen) + 1
         /\ Here(drive[w]) <= Len(Body[drive[w].version])
         /\ 1 .. Len(drive[w].seen) \subseteq Positions
         /\ \A i \in Positions : i < Here(drive[w]) => i \in 1 .. Len(drive[w].seen)
         /\ Command(drive[w]) \in [type : Types, name : Names]
<1>1. drive[w] \in Locals /\ Here(drive[w]) <= Len(Body[drive[w].version])
  BY InvParts DEF DriveT, DriveOK, Driving, AtCommand
<1> QED  BY <1>1, HerePosition, SeenPositions

LEMMA NextOf ==
  ASSUME NEW w \in callers, StepOf(w)
  PROVE  [Next]_vars
BY DEF Next, StepOf

LEMMA StepIs ==
  ASSUME NEW w, AppendEvent(w) \/ Load(w) \/ Send(w) \/ Consume(w) \/ Work(w)
  PROVE  StepOf(w)
BY DEF StepOf, Step

LEMMA AtNext ==
  ASSUME WorkflowAssumption, IInv, [Next]_vars, NEW w \in Workers
  PROVE  /\ drive'[w] \in Locals
         /\ Driving(drive'[w]) => Here(drive'[w]) <= Len(Body[drive'[w].version])
BY NextInv DEF IInv, TypeOK, Driving, AtCommand, Here

(* What a drive has seen are positions, wherever it goes on.               *)
LEMMA SeenInPositions ==
  ASSUME WorkflowAssumption, IInv, [Next]_vars, NEW w \in Workers,
         LET e == drive'[w]
         IN  Driving(e) \/ (e.pc = "complete" /\ Len(e.seen) = Len(Body[e.version]))
  PROVE  1 .. Len(drive'[w].seen) \subseteq Positions
<1> DEFINE e == drive'[w]
<1>1. e \in Locals /\ (Driving(e) => Here(e) <= Len(Body[e.version]))  BY AtNext
<1>2. CASE Driving(e)  BY <1>1, <1>2, SeenPositions
<1>3. CASE Len(e.seen) = Len(Body[e.version])
  <2>1. e.version \in 1 .. Versions  BY <1>1 DEF Locals
  <2> QED  BY <1>3, <2>1, PositionsBound
<1> QED  BY <1>2, <1>3

LEMMA LoadEffect ==
  ASSUME WorkflowAssumption, IInv, NEW w \in Workers, Load(w), drive[w].seen = <<>>
  PROVE  LET e == drive'[w]
         IN  /\ e.past = events /\ e.value = None /\ e.version = drive[w].version
             /\ e.signal = drive[w].signal /\ Len(e.seen) \in Nat
             /\ e.pc \in {"complete", "suspend", "fail", "work", "append", "consume"}
             /\ e.pc = "consume" => Command(e).type = "signal"
             /\ e.pc = "append" => Command(e).type = "sleep"
             /\ e.pc = "complete" => Len(e.seen) = Len(Body[e.version])
             /\ AtCommand(e) => events[Here(e)] = None
             /\ \A i \in 1 .. Len(e.seen) :
                  events[i] # None /\ events[i].status = "completed" /\ e.seen[i] = events[i].value
<1>0. DriveT /\ EventsT /\ RestT  BY InvParts
<1> DEFINE d == [drive[w] EXCEPT !.past = events]
           f == Proceed(d)
<1>1. drive[w] \in Locals /\ events \in Histories  BY <1>0 DEF DriveT, EventsT
<1>2. /\ d \in Locals /\ d.past = events /\ d.version = drive[w].version /\ d.seen = <<>>
      /\ d.signal = drive[w].signal
  BY <1>1 DEF Locals
<1>3. Here(drive[w]) <= Len(Body[drive[w].version])  BY <1>0 DEF Load, At, DriveT, DriveOK
<1>4. d.version \in 1 .. Versions  BY <1>2 DEF Locals
<1>5. Len(Body[d.version]) \in Nat  BY <1>4 DEF WorkflowAssumption
<1> HIDE DEF d
<1>6. Here(d) = 1 /\ 1 <= Len(Body[d.version])  BY <1>2, <1>3 DEF Here
<1>7. /\ f \in Locals /\ f.version = d.version /\ f.signal = d.signal /\ f.value = None
      /\ f.pc \in {"complete", "suspend", "fail", "work", "append", "consume"}
      /\ f.pc = "consume" => Command(f).type = "signal"
      /\ f.pc = "append" => Command(f).type = "sleep"
      /\ f.pc = "complete" => Here(f) = Len(Body[f.version]) + 1
      /\ f.past = d.past
      /\ f.pc \in {"work", "append", "consume"} => d.past[Here(f)] = None
      /\ \A i \in Here(d) .. Len(f.seen) :
           d.past[i] # None /\ d.past[i].status = "completed" /\ f.seen[i] = d.past[i].value
  BY <1>2, <1>5, <1>6, ProceedEffect
<1> HIDE DEF f
<1>8. drive'[w] = f
  <2>1. Become(w, f)  BY DEF Load, d, f
  <2> QED  BY <1>0, <2>1, BecomeEffect DEF DriveT
<1>9. Len(f.seen) \in Nat  BY <1>7 DEF Locals
<1> QED  BY <1>2, <1>5, <1>6, <1>7, <1>8, <1>9 DEF Here, AtCommand

LEMMA AppendEffect ==
  ASSUME WorkflowAssumption, IInv, NEW w \in Workers, AppendEvent(w), drive[w].value # None
  PROVE  LET d == drive[w]
             e == drive'[w]
         IN  /\ e.past = d.past /\ e.value = None /\ e.version = d.version
             /\ e.signal = d.signal /\ Len(e.seen) \in Nat
             /\ e.pc \in {"complete", "suspend", "fail", "work", "append", "consume"}
             /\ e.pc = "consume" => Command(e).type = "signal"
             /\ e.pc = "append" => Command(e).type = "sleep"
             /\ e.pc = "complete" => Len(e.seen) = Len(Body[e.version])
             /\ Here(e) > Here(d) /\ (AtCommand(e) => d.past[Here(e)] = None)
             /\ \A i \in 1 .. Len(d.seen) : e.seen[i] = d.seen[i]
             /\ e.seen[Here(d)] = d.value
             /\ \A i \in Here(d) + 1 .. Len(e.seen) :
                  d.past[i] # None /\ d.past[i].status = "completed" /\ e.seen[i] = d.past[i].value
<1>0. DriveT /\ EventsT /\ RestT  BY InvParts
<1> DEFINE d == [drive[w] EXCEPT !.seen = Append(@, drive[w].value)]
           f == Proceed(d)
<1>1. drive[w] \in Locals /\ drive[w].seen \in Seq(Values) /\ drive[w].value \in Values
  BY <1>0 DEF DriveT, Locals
<1>2. Append(drive[w].seen, drive[w].value) \in Seq(Values)  BY <1>1
<1>3. /\ d \in Locals /\ d.past = drive[w].past /\ d.version = drive[w].version
      /\ d.signal = drive[w].signal /\ d.seen = Append(drive[w].seen, drive[w].value)
  BY <1>1, <1>2 DEF Locals
<1>4. Here(drive[w]) <= Len(Body[drive[w].version])  BY <1>0 DEF AppendEvent, At, DriveT, DriveOK
<1>5. d.version \in 1 .. Versions  BY <1>3 DEF Locals
<1>6. Len(Body[d.version]) \in Nat  BY <1>5 DEF WorkflowAssumption
<1>8. drive'[w] = f
  <2>1. Become(w, f)  BY DEF AppendEvent
  <2> HIDE DEF f
  <2> QED  BY <1>0, <2>1, BecomeEffect DEF DriveT
<1> HIDE DEF d
<1>9. /\ Len(drive[w].seen) \in Nat /\ Len(d.seen) = Len(drive[w].seen) + 1
      /\ \A i \in 1 .. Len(drive[w].seen) : d.seen[i] = drive[w].seen[i]
      /\ d.seen[Len(drive[w].seen) + 1] = drive[w].value
  BY <1>1, <1>3
<1>10. Here(d) <= Len(Body[d.version]) + 1 /\ Here(d) = Here(drive[w]) + 1
       /\ Here(drive[w]) = Len(drive[w].seen) + 1
  BY <1>3, <1>4, <1>6, <1>9 DEF Here
<1>7. /\ f \in Locals /\ f.version = d.version /\ f.signal = d.signal /\ f.value = None
      /\ f.pc \in {"complete", "suspend", "fail", "work", "append", "consume"}
      /\ f.pc = "consume" => Command(f).type = "signal"
      /\ f.pc = "append" => Command(f).type = "sleep"
      /\ f.pc = "complete" => Here(f) = Len(Body[f.version]) + 1
      /\ f.past = d.past /\ Here(f) >= Here(d)
      /\ f.pc \in {"work", "append", "consume"} => d.past[Here(f)] = None
      /\ \A i \in 1 .. Len(d.seen) : f.seen[i] = d.seen[i]
      /\ \A i \in Here(d) .. Len(f.seen) :
           d.past[i] # None /\ d.past[i].status = "completed" /\ f.seen[i] = d.past[i].value
  BY <1>3, <1>10, ProceedEffect
<1> HIDE DEF f
<1>11. Len(f.seen) \in Nat  BY <1>7 DEF Locals
<1>12. Here(f) > Here(drive[w])  BY <1>7, <1>9, <1>10, <1>11 DEF Here
<1>13. f.pc = "complete" => Len(f.seen) = Len(Body[f.version])
  BY <1>3, <1>6, <1>7, <1>11 DEF Here
<1>14. /\ \A i \in 1 .. Len(drive[w].seen) : f.seen[i] = drive[w].seen[i]
       /\ f.seen[Here(drive[w])] = drive[w].value
  <2>1. \A i \in 1 .. Len(d.seen) : f.seen[i] = d.seen[i]  BY <1>7
  <2>2. Here(drive[w]) \in 1 .. Len(d.seen)  BY <1>9, <1>10
  <2>3. f.seen[Here(drive[w])] = drive[w].value  BY <1>9, <1>10, <2>1, <2>2
  <2>4. 1 .. Len(drive[w].seen) \subseteq 1 .. Len(d.seen)  BY <1>9
  <2> QED  BY <1>9, <2>1, <2>3, <2>4
<1>15. AtCommand(f) => d.past[Here(f)] = None  BY <1>7 DEF AtCommand
<1> QED  BY <1>3, <1>7, <1>8, <1>10, <1>11, <1>12, <1>13, <1>14, <1>15

LEMMA WorkEffect ==
  ASSUME WorkflowAssumption, IInv, NEW w \in Workers, Work(w)
  PROVE  LET d == drive[w]
             e == drive'[w]
         IN  /\ e.past = d.past /\ e.version = d.version /\ e.signal = d.signal
             /\ e.seen = d.seen /\ e.pc = "append" /\ e.value = ran[Here(d)] + 1
             /\ ran[Here(d)] \in Nat /\ Command(e).type \in {"step", "value"}
<1>0. DriveT /\ EventsT /\ RestT  BY InvParts
<1>1. drive[w] \in Locals /\ Command(drive[w]).type \in {"step", "value"}
  BY <1>0 DEF DriveT, Sound, Work, At
<1>2. Here(drive[w]) \in Positions  BY AtPositions DEF Work, At, Driving, AtCommand
<1> DEFINE n == ran[Here(drive[w])] + 1
           l == [drive[w] EXCEPT !.pc = "append", !.value = n]
<1>3. ran[Here(drive[w])] \in Nat  BY <1>0, <1>2 DEF RestT
<1>4. Become(w, l)  BY DEF Work
<1> HIDE DEF n
<1>5. /\ l.past = drive[w].past /\ l.version = drive[w].version /\ l.signal = drive[w].signal
      /\ l.seen = drive[w].seen /\ l.pc = "append" /\ l.value = n
  BY <1>1 DEF Locals
<1> HIDE DEF l
<1>6. drive'[w] = l  BY <1>0, <1>4, BecomeEffect DEF DriveT
<1> QED  BY <1>1, <1>3, <1>5, <1>6 DEF n, Command, Here

LEMMA ConsumeEffect ==
  ASSUME WorkflowAssumption, IInv, NEW w \in Workers, Consume(w)
  PROVE  LET d == drive[w]
             e == drive'[w]
             fits == {i \in DOMAIN inbox : NameOf[inbox[i]] = Command(d).name}
         IN  /\ e.past = d.past /\ e.version = d.version /\ e.signal = d.signal
             /\ e.seen = d.seen /\ e.pc = "append" /\ Command(e).type = "signal"
             /\ \/ fits = {} /\ e.value = d.value /\ UNCHANGED inbox
                \/ \E m \in 1 .. Len(inbox) :
                     /\ e.value = inbox[m] /\ inbox[m] \in Signals
                     /\ inbox' = [i \in 1 .. Len(inbox) - 1 |->
                                    IF i < m THEN inbox[i] ELSE inbox[i + 1]]
<1>0. DriveT /\ EventsT /\ RestT  BY InvParts
<1>1. drive[w] \in Locals /\ Command(drive[w]).type = "signal"
  BY <1>0 DEF DriveT, Sound, Consume, At
<1>2. CASE Fitting(w) = {}
  <2>1. Goto(w, "append") /\ UNCHANGED inbox  BY <1>2 DEF Consume
  <2> QED  BY <1>0, <1>1, <1>2, <2>1, GotoEffect DEF DriveT, Command, Here, Fitting
<1>3. CASE Fitting(w) # {}
  <2> DEFINE m == Min(Fitting(w))
             l == [drive[w] EXCEPT !.pc = "append", !.value = inbox[m]]
  <2>1. Become(w, l) /\ Claim(m)  BY <1>3 DEF Consume
  <2>2. m \in 1 .. Len(inbox) /\ inbox[m] \in Signals  BY <1>0, <1>3, <2>1, ClaimEffect
  <2> HIDE DEF m
  <2>5. /\ l.past = drive[w].past /\ l.version = drive[w].version /\ l.signal = drive[w].signal
        /\ l.seen = drive[w].seen /\ l.pc = "append" /\ l.value = inbox[m]
    BY <1>1 DEF Locals
  <2> HIDE DEF l
  <2>6. drive'[w] = l  BY <1>0, <2>1, BecomeEffect DEF DriveT
  <2> QED  BY <1>1, <2>1, <2>2, <2>5, <2>6 DEF Command, Here, Claim
<1> QED  BY <1>2, <1>3

(* Whoever goes on after appendEvent leaves a completed command behind.    *)
LEMMA Lands ==
  ASSUME WorkflowAssumption, IInv, ReplayInv, Ordered, NEW w \in callers, At(w, "append"),
         Record(drive[w]), drive[w].value # None
  PROVE  LET s == Here(drive[w]) IN events'[s] # None /\ events'[s].status = "completed"
<1> DEFINE d == drive[w]
           s == Here(d)
<1>0. DriveT /\ EventsT /\ RestT  BY InvParts
<1>1. w \in Workers /\ d \in Locals  BY <1>0 DEF DriveT
<1>2. s \in Positions /\ Command(d) \in [type : Types, name : Names]
  BY <1>1, AtPositions DEF At, Driving, AtCommand
<1>3. events'[s] = IF events[s] = None THEN Event(d) ELSE events[s]
  BY <1>0, <1>2 DEF Record, EventsT, Histories
<1>4. CASE events[s] = None
  <2>1. d.value \in Values  BY <1>1 DEF Locals
  <2>2. Event(d) \in Events /\ Event(d).status = "completed"  BY <1>2, <2>1 DEF Event, Events
  <2>3. Event(d) # None  BY <2>2 DEF WorkflowAssumption
  <2> QED  BY <1>3, <1>4, <2>2, <2>3 DEF Completed
<1>5. CASE events[s] # None
  <2>1. CASE Alone
    <3>1. Completed(s)  BY <1>1, <1>5, <2>1 DEF ReplayInv, Clear, At, AtCommand
    <3> QED  BY <1>3, <1>5, <3>1 DEF Completed
  <2>2. CASE Versions = 1 /\ Signals = {}
    <3>1. d.version = 1  BY <1>1, <2>2 DEF Locals
    <3>2. events[s].type = Command(d).type  BY <1>2, <1>5, <2>2, <3>1 DEF ReplayInv, OfBody, Command
    <3>3. Command(d).type # "sleep"  BY <1>1, <1>0 DEF DriveT, Sound, At
    <3>4. Command(d).type # "signal"  BY <1>1, <2>2 DEF ReplayInv, Located, At
    <3>5. Command(d).type \in {"step", "value"}  BY <1>2, <3>3, <3>4 DEF Types
    <3>6. Completed(s)  BY <1>2, <1>5, <3>2, <3>5 DEF ReplayInv, WorkDone, Completed
    <3> QED  BY <1>3, <1>5, <3>6 DEF Completed
  <2> QED  BY <2>1, <2>2 DEF Ordered
<1> QED  BY <1>4, <1>5

LEMMA ReplayOthers ==
  ASSUME WorkflowAssumption, IInv, ReplayInv, NEW w \in callers, StepOf(w),
         UNCHANGED callers, NEW u \in Workers \ {w}
  PROVE  PastOK(u)' /\ Located(u)' /\ Behind(u)' /\ Clear(u)'
<1>1. drive'[u] = drive[u]  BY Moves
<1>2. PastOK(u)'  BY <1>1, StepGrows DEF ReplayInv, PastOK
<1>3. Located(u)'  BY <1>1 DEF ReplayInv, Located, Command, Here
<1>4. Behind(u)'  BY <1>1, StepGrows, AtPositions DEF ReplayInv, Behind
<1>5. Clear(u)'
  <2>1. u \notin callers => drive[u].pc = "idle"  BY InvParts DEF DriveT, Sound
  <2> QED  BY <1>1, <2>1 DEF Clear, Alone, AtCommand
<1> QED  BY <1>2, <1>3, <1>4, <1>5

LEMMA ReplayOwn ==
  ASSUME WorkflowAssumption, IInv, ReplayInv, Ordered, NEW w \in callers, StepOf(w),
         UNCHANGED callers
  PROVE  PastOK(w)' /\ Located(w)' /\ Behind(w)' /\ Clear(w)'
<1> DEFINE d == drive[w]
           e == drive'[w]
<1>0. DriveT /\ EventsT /\ RestT  BY InvParts
<1>1. w \in Workers /\ d \in Locals  BY <1>0 DEF DriveT
<1>2. PastOK(w) /\ Located(w) /\ Behind(w) /\ Clear(w)  BY <1>1 DEF ReplayInv
<1>p. ASSUME e.past \in {d.past, Idle.past, events}  PROVE PastOK(w)'
  <2>1. \A i \in Positions : Idle.past[i] = None  BY DEF Idle
  <2> QED  BY <1>2, <1>p, <2>1, StepGrows DEF PastOK, Completed
<1>k. Driving(d) => \A i \in 1 .. Len(d.seen) : Completed(i)'
  BY <1>1, <1>2, StepGrows, AtPositions DEF Behind
<1>3. CASE Leaves(w)
  BY <1>3, <1>p DEF Leaves, Located, Behind, Clear, Driving, AtCommand
<1>4. CASE Enters(w)
  <2>1. e.seen = <<>> /\ e.value = None  BY <1>2, <1>4 DEF Enters, Located, At
  <2> QED  BY <1>4, <1>p, <2>1 DEF Enters, Located, Behind, Clear, AtCommand
<1>5. CASE Load(w)
  <2>1. d.seen = <<>> /\ UNCHANGED events  BY <1>2, <1>5 DEF Load, At, Located
  <2>2. /\ e.past = events /\ e.value = None
        /\ e.pc \in {"complete", "suspend", "fail", "work", "append", "consume"}
        /\ e.pc = "append" => Command(e).type = "sleep"
        /\ AtCommand(e) => events[Here(e)] = None
        /\ \A i \in 1 .. Len(e.seen) : events[i] # None /\ events[i].status = "completed"
    BY <1>1, <1>5, <2>1, LoadEffect
  <2>3. PastOK(w)'  BY <1>p, <2>2
  <2>4. Located(w)'  BY <2>2 DEF Located, Command, Here
  <2>5. Behind(w)'  BY <2>1, <2>2 DEF Behind, Completed
  <2>6. Clear(w)'  BY <2>1, <2>2 DEF Clear, Here
  <2> QED  BY <2>3, <2>4, <2>5, <2>6
<1>6. CASE Work(w) \/ Consume(w)
  <2>1. UNCHANGED events  BY <1>6 DEF Work, Consume
  <2>2. Driving(d) /\ AtCommand(d)  BY <1>6 DEF Work, Consume, At, Driving, AtCommand
  <2>3. /\ e.past = d.past /\ e.version = d.version /\ e.seen = d.seen /\ e.pc = "append"
        /\ Command(e).type \in {"step", "value"} => e.value \in Nat
        /\ Command(e).type = "signal" => e.value \in Signals \cup {None}
    <3>1. CASE Work(w)  BY <1>1, <3>1, WorkEffect
    <3>2. CASE Consume(w)
      <4>1. d.value = None  BY <1>2, <3>2 DEF Located, Consume, At
      <4> QED  BY <1>1, <3>2, <4>1, ConsumeEffect
    <3> QED  BY <1>6, <3>1, <3>2
  <2>4. PastOK(w)'  BY <1>p, <2>3
  <2>5. Located(w)'  BY <2>3 DEF Located, Command, Here
  <2>6. Behind(w)'  BY <1>k, <2>2, <2>3 DEF Behind
  <2>7. Clear(w)'  BY <1>2, <2>1, <2>2, <2>3 DEF Clear, Here, Alone, Completed
  <2> QED  BY <2>4, <2>5, <2>6, <2>7
<1>7. CASE AppendEvent(w) /\ d.value = None
  <2>1. Goto(w, "suspend")  BY <1>7 DEF AppendEvent
  <2>2. e.pc = "suspend" /\ e.past = d.past  BY <1>0, <1>1, <2>1, GotoEffect DEF DriveT
  <2> QED  BY <1>p, <2>2 DEF Located, Behind, Clear, Driving, AtCommand
<1>8. CASE AppendEvent(w) /\ d.value # None
  <2>1. /\ e.past = d.past /\ e.value = None /\ Len(e.seen) \in Nat
        /\ e.pc \in {"complete", "suspend", "fail", "work", "append", "consume"}
        /\ e.pc = "append" => Command(e).type = "sleep"
        /\ Here(e) > Here(d) /\ (AtCommand(e) => d.past[Here(e)] = None)
        /\ \A i \in Here(d) + 1 .. Len(e.seen) :
             d.past[i] # None /\ d.past[i].status = "completed"
    BY <1>1, <1>8, AppendEffect
  <2>2. At(w, "append") /\ Record(d) /\ Driving(d) /\ AtCommand(d)
    BY <1>8 DEF AppendEvent, At, Driving, AtCommand
  <2>3. Here(d) \in Positions /\ Here(d) = Len(d.seen) + 1 /\ Len(d.seen) \in Nat
    BY <1>1, <2>2, AtPositions DEF Locals
  <2>4. events'[Here(d)] # None /\ events'[Here(d)].status = "completed"  BY <1>8, <2>2, Lands
  <2>5. PastOK(w)'  BY <1>p, <2>1
  <2>6. Located(w)'  BY <2>1 DEF Located, Command, Here
  <2>7. ASSUME Driving(e) PROVE \A i \in 1 .. Len(e.seen) : Completed(i)'
    <3>3. 1 .. Len(e.seen) \subseteq Positions  BY <1>1, <2>7, AtNext, NextOf, SeenPositions
    <3> TAKE i \in 1 .. Len(e.seen)
    <3>4. i \in Positions  BY <3>3
    <3>5. CASE i \in 1 .. Len(d.seen)  BY <1>k, <2>2, <3>5
    <3>6. CASE i = Here(d)  BY <2>4, <3>6 DEF Completed
    <3>7. CASE i \in Here(d) + 1 .. Len(e.seen)
      BY <1>2, <2>1, <3>4, <3>7, StepGrows DEF PastOK
    <3> QED  BY <2>1, <2>3, <3>5, <3>6, <3>7
  <2>8. Behind(w)'  BY <2>7 DEF Behind, Driving, AtCommand
  <2>9. \A i \in Positions : i > Here(d) => events'[i] = events[i]
    BY <2>2, <2>3, <1>0 DEF Record, EventsT, Histories
  <2>10. Clear(w)'
    <3> SUFFICES ASSUME Alone', AtCommand(e)
                 PROVE  /\ events'[Here(e)] = None
                        /\ \A i \in Positions : i > Here(e) => events'[i] = e.past[i]
      BY DEF Clear, Here, AtCommand
    <3>1. Alone  BY DEF Alone
    <3>2. \A i \in Positions : i > Here(d) => events'[i] = d.past[i]
      BY <1>2, <2>2, <2>9, <3>1 DEF Clear
    <3>4. Driving(e)  BY DEF Driving
    <3>6. Here(e) \in Positions  BY <1>1, <3>4, AtNext, NextOf, SeenPositions
    <3>7. PICK n \in Nat : Positions = 1 .. n  BY PositionsBound
    <3> QED  BY <2>1, <2>3, <3>2, <3>6, <3>7
  <2> QED  BY <2>5, <2>6, <2>8, <2>10
<1>9. CASE TriesAgain(w)
  <2>1. Driving(d) /\ AtCommand(d) /\ AtCommand(e) /\ Here(e) = Here(d)
    BY <1>9 DEF TriesAgain, At, Driving, AtCommand, Here
  <2>2. PastOK(w)'  BY <1>p, <1>9 DEF TriesAgain
  <2>3. Located(w)'  BY <1>9 DEF TriesAgain, Located
  <2>4. Behind(w)'  BY <1>k, <1>9, <2>1 DEF TriesAgain, Behind
  <2>5. Here(d) \in Positions /\ Here(d) = Len(d.seen) + 1 /\ Len(d.seen) \in Nat
    BY <1>1, <2>1, AtPositions DEF Locals
  <2>6. CASE UNCHANGED events
    BY <1>2, <1>9, <2>1, <2>2, <2>3, <2>4, <2>6 DEF TriesAgain, Clear, Here, Alone, Completed
  <2>7. CASE At(w, "append") /\ Record(d)
    <3>1. d.value \in Nat  BY <1>2, <1>9, <2>7 DEF Located, TriesAgain, At
    <3>2. d.value # None  BY <3>1 DEF WorkflowAssumption
    <3>3. events'[Here(d)] # None /\ events'[Here(d)].status = "completed"  BY <2>7, <3>2, Lands
    <3>4. \A i \in Positions : i > Here(d) => events'[i] = events[i]
      BY <2>5, <2>7, <1>0 DEF Record, EventsT, Histories
    <3> QED  BY <1>2, <1>9, <2>1, <2>2, <2>3, <2>4, <3>3, <3>4
             DEF TriesAgain, Clear, Here, Alone, Completed
  <2>8. ~CompleteEvent(w)  BY <1>9 DEF TriesAgain, CompleteEvent, At
  <2> QED  BY <2>2, <2>3, <2>4, <2>6, <2>7, <2>8, Moves
<1> QED  BY <1>3, <1>4, <1>5, <1>6, <1>7, <1>8, <1>9, Moves

LEMMA ReplayHistory ==
  ASSUME WorkflowAssumption, IInv, ReplayInv, NEW w \in callers, StepOf(w)
  PROVE  WorkDone' /\ OfBody' /\ NoGaps'
<1> DEFINE d == drive[w]
<1>0. DriveT /\ EventsT /\ RestT  BY InvParts
<1>1. w \in Workers /\ d \in Locals  BY <1>0 DEF DriveT
<1>2. ASSUME NEW i \in Positions, Records(w, i)
      PROVE  /\ i = Here(d) /\ i <= Len(Body[d.version]) /\ d.version \in 1 .. Versions
             /\ events'[i].type = Command(d).type
             /\ Command(d).type \in {"step", "value"} => events'[i].status = "completed"
             /\ events'[i].status = "pending" => events'[i].value = None
             /\ \A j \in Positions : j < i => Completed(j)'
  <2>1. i = Here(d) /\ At(w, "append") /\ Driving(d) /\ events'[i] = Event(d)
    BY <1>2 DEF Records, At, Driving, AtCommand
  <2>2. Here(d) <= Len(Body[d.version]) /\ \A j \in Positions : j < i => Completed(j)'
    BY <1>1, <2>1, AtPositions, StepGrows DEF ReplayInv, Behind
  <2>3. Command(d).type \in {"step", "value"} => d.value # None
    BY <1>1, <2>1 DEF ReplayInv, Located, At, WorkflowAssumption
  <2> QED  BY <1>1, <2>1, <2>2, <2>3 DEF Event, Locals
<1>3. ASSUME NEW i \in Positions, Completes(w, i)
      PROVE  /\ events[i] # None /\ events'[i] # None /\ events'[i].status = "completed"
             /\ events'[i].type = events[i].type
  BY <1>3 DEF Completes
<1>4. WorkDone'
  <2> SUFFICES ASSUME NEW i \in Positions, events'[i] # None
               PROVE  /\ events'[i].type \in {"step", "value"} => events'[i].status = "completed"
                      /\ events'[i].status = "pending" => events'[i].value = None
    BY DEF WorkDone
  <2>1. CASE events'[i] = events[i]  BY <2>1 DEF ReplayInv, WorkDone
  <2>2. CASE Records(w, i)  BY <1>2, <2>2
  <2>3. CASE Completes(w, i)  BY <1>3, <2>3
  <2> QED  BY <2>1, <2>2, <2>3, EventMoves
<1>5. OfBody'
  <2> SUFFICES ASSUME Versions = 1, NEW i \in Positions, events'[i] # None
               PROVE  i <= Len(Body[1]) /\ events'[i].type = Body[1][i].type
    BY DEF OfBody
  <2>1. CASE events'[i] = events[i]  BY <2>1 DEF ReplayInv, OfBody
  <2>2. CASE Records(w, i)
    <3>1. d.version = 1  BY <1>2, <2>2
    <3> QED  BY <1>2, <2>2, <3>1 DEF Command
  <2>3. CASE Completes(w, i)  BY <1>3, <2>3 DEF ReplayInv, OfBody
  <2> QED  BY <2>1, <2>2, <2>3, EventMoves
<1>6. NoGaps'
  <2> SUFFICES ASSUME NEW i \in Positions, NEW j \in Positions, i < j, events'[j] # None
               PROVE  Completed(i)'
    BY DEF NoGaps
  <2>1. CASE events[j] # None  BY <2>1, StepGrows DEF ReplayInv, NoGaps
  <2>2. CASE Records(w, j)  BY <1>2, <2>2
  <2> QED  BY <2>1, <2>2, EventMoves DEF Completes
<1> QED  BY <1>4, <1>5, <1>6

LEMMA ReplayStep ==
  ASSUME WorkflowAssumption, IInv, ReplayInv, Ordered, [Next]_vars
  PROVE  ReplayInv' /\ Ordered'
<1>1. UNCHANGED callers  BY CallersStay
<1>2. Ordered'  BY <1>1 DEF Ordered, Alone
<1>3. ASSUME NEW w \in callers, StepOf(w) PROVE ReplayInv'
  <2>1. w \in Workers  BY InvParts DEF DriveT
  <2>2. \A u \in Workers : PastOK(u)' /\ Located(u)' /\ Behind(u)' /\ Clear(u)'
    BY <1>1, <1>3, <2>1, ReplayOthers, ReplayOwn
  <2>3. WorkDone' /\ OfBody' /\ NoGaps'  BY <1>3, ReplayHistory
  <2> QED  BY <2>2, <2>3 DEF ReplayInv
<1>4. CASE UNCHANGED <<drive, events>>
  <2>1. \A u \in Workers : PastOK(u)' /\ Located(u)' /\ Behind(u)' /\ Clear(u)'
    BY <1>1, <1>4 DEF ReplayInv, PastOK, Located, Behind, Clear, Alone, Completed, Command, Here
  <2>2. WorkDone'  BY <1>4 DEF ReplayInv, WorkDone
  <2>3. OfBody'  BY <1>4 DEF ReplayInv, OfBody
  <2>4. NoGaps'  BY <1>4 DEF ReplayInv, NoGaps, Completed
  <2> QED  BY <1>2, <2>1, <2>2, <2>3, <2>4 DEF ReplayInv
<1> QED  BY <1>2, <1>3, <1>4, NextParts

LEMMA ReplayInit == WorkflowAssumption /\ Init => ReplayInv
<1> SUFFICES ASSUME WorkflowAssumption, Init PROVE ReplayInv  OBVIOUS
<1>1. \A w \in Workers : drive[w].pc = "idle" /\ \A i \in Positions : drive[w].past[i] = None
  BY DEF Init, Idle
<1>2. \A i \in Positions : events[i] = None  BY DEF Init
<1> QED
  BY <1>1, <1>2 DEF ReplayInv, PastOK, Located, Behind, Clear, WorkDone, OfBody, NoGaps, Driving, AtCommand

-----------------------------------------------------------------------------
(* Evaluations.  Whoever still can evaluate the work of a position has not *)
(* done it in this drive: each evaluation is that of a worker that cannot  *)
(* any more, or was lost.                                                  *)
Evaluates(d, i) ==
  AtCommand(d) /\ ((Here(d) < i /\ d.past[i] = None) \/ (Here(d) = i /\ d.pc = "work"))

Spent(i) ==
  {w \in callers : IF events[i] = None THEN At(w, "append") /\ Here(drive[w]) = i
                                       ELSE ~Evaluates(drive[w], i)}

Paid == \A i \in Positions : ran[i] <= Cardinality(Spent(i)) + crashes + faults

LEMMA SpentFinite ==
  ASSUME WorkflowAssumption, IInv, NEW i
  PROVE  /\ IsFiniteSet(callers) /\ IsFiniteSet(Spent(i)) /\ Cardinality(Spent(i)) \in Nat
         /\ Cardinality(Spent(i)) <= Cardinality(callers) /\ Cardinality(callers) \in Nat
<1>1. IsFiniteSet(callers)
  BY InvParts, FS_Subset DEF DriveT, WorkflowAssumption
<1>2. Spent(i) \subseteq callers  BY DEF Spent
<1> QED  BY <1>1, <1>2, FS_Subset, FS_CardinalityType

(* The bound of one position, from what becomes of the set.                *)
LEMMA PaidBy ==
  ASSUME NEW A, NEW B, NEW w, IsFiniteSet(A), IsFiniteSet(B), A \ {w} \subseteq B,
         NEW n \in Nat, NEW m \in Nat, NEW c \in Nat, NEW e \in Nat, n <= Cardinality(A) + c,
         \/ m = n /\ e >= c /\ (w \in A => w \in B)
         \/ m = n /\ e = c + 1
         \/ m = n + 1 /\ e = c /\ w \notin A /\ w \in B
  PROVE  m <= Cardinality(B) + e
<1>1. Cardinality(A) \in Nat /\ Cardinality(B) \in Nat  BY FS_CardinalityType
<1>2. IsFiniteSet(A \ {w}) /\ Cardinality(A \ {w}) = IF w \in A THEN Cardinality(A) - 1 ELSE Cardinality(A)
  BY FS_RemoveElement
<1>3. Cardinality(A \ {w}) <= Cardinality(B)  BY FS_Subset
<1>4. (w \in A => w \in B) => Cardinality(A) <= Cardinality(B)
  <2> SUFFICES ASSUME w \in A => w \in B PROVE Cardinality(A) <= Cardinality(B)  OBVIOUS
  <2>1. A \subseteq B  OBVIOUS
  <2> QED  BY <2>1, FS_Subset
<1>5. w \notin A /\ w \in B => Cardinality(A) + 1 <= Cardinality(B)
  <2> SUFFICES ASSUME w \notin A, w \in B PROVE Cardinality(A) + 1 <= Cardinality(B)  OBVIOUS
  <2>1. A \subseteq B \ {w}  OBVIOUS
  <2>2. IsFiniteSet(B \ {w}) /\ Cardinality(B \ {w}) = Cardinality(B) - 1  BY FS_RemoveElement
  <2>3. Cardinality(A) <= Cardinality(B \ {w})  BY <2>1, <2>2, FS_Subset
  <2> QED  BY <1>1, <2>2, <2>3
<1> QED  BY <1>1, <1>2, <1>3, <1>4, <1>5

Starts ==
  \A w \in Workers : drive[w].pc \in {"begin", "load"} => drive[w].seen = <<>> /\ drive[w].value = None

LEMMA CountersMove ==
  ASSUME WorkflowAssumption, IInv, NEW w \in callers, StepOf(w)
  PROVE  /\ {crashes, crashes', faults, faults'} \subseteq Nat
         /\ \/ crashes' = crashes /\ faults' = faults
            \/ crashes' + faults' = crashes + faults + 1 /\ UNCHANGED ran
         /\ Work(w) \/ UNCHANGED ran
         /\ At(w, "append") => AppendEvent(w) \/ crashes' + faults' = crashes + faults + 1
<1>0. crashes \in Nat /\ faults \in Nat  BY InvParts DEF RestT, WorkflowAssumption
<1>1. CASE Crash(w)  BY <1>0, <1>1 DEF Crash
<1>2. CASE AppendThrows(w) \/ Throws(w)
  <2>1. Fault /\ UNCHANGED ran /\ (Throws(w) => ~At(w, "append"))
    BY <1>2 DEF AppendThrows, Throws, ConsumeThrows, CompleteThrows, At
  <2> QED  BY <1>0, <2>1 DEF Fault
<1>3. CASE Start(w) \/ Resume(w) \/ Tick(w) \/ \E x \in unsent : Signal(w, x)
  BY <1>0, <1>3 DEF Start, Resume, Tick, Signal, world, At
<1>4. CASE \/ GetRun(w) \/ Begin(w) \/ Load(w) \/ Work(w) \/ WorkThrows(w) \/ Consume(w)
           \/ Suspend(w) \/ Complete(w) \/ Fail(w) \/ Send(w) \/ Buffer(w) \/ CompleteEvent(w)
  BY <1>0, <1>4 DEF GetRun, Begin, Load, Work, WorkThrows, Consume, Suspend, Complete, Fail, Send,
    Buffer, CompleteEvent, world, At
<1>5. CASE AppendEvent(w)  BY <1>0, <1>5 DEF AppendEvent, world
<1> QED  BY <1>1, <1>2, <1>3, <1>4, <1>5 DEF StepOf, Step, Throws

LEMMA StartsStep ==
  ASSUME WorkflowAssumption, IInv, Starts, [Next]_vars
  PROVE  Starts'
<1>1. CASE UNCHANGED drive  BY <1>1 DEF Starts
<1>2. ASSUME NEW w \in callers, StepOf(w) PROVE Starts'
  <2>0. w \in Workers /\ drive \in [Workers -> Locals]  BY InvParts DEF DriveT
  <2>1. drive'[w].pc \in {"begin", "load"} => drive'[w].seen = <<>> /\ drive'[w].value = None
    <3>1. CASE Leaves(w) \/ TriesAgain(w)  BY <3>1 DEF Leaves, Driving, TriesAgain
    <3>2. CASE Enters(w)  BY <2>0, <3>2 DEF Enters, Starts, At
    <3>3. CASE Load(w)
      <4>1. drive[w].seen = <<>>  BY <2>0, <3>3 DEF Load, At, Starts
      <4>2. drive'[w].pc \in {"complete", "suspend", "fail", "work", "append", "consume"}
        BY <2>0, <3>3, <4>1, LoadEffect
      <4> QED  BY <4>2
    <3>4. CASE Work(w)
      <4>1. drive'[w].pc = "append"  BY <2>0, <3>4, WorkEffect
      <4> QED  BY <4>1
    <3>5. CASE Consume(w)
      <4>1. drive'[w].pc = "append"  BY <2>0, <3>5, ConsumeEffect
      <4> QED  BY <4>1
    <3>6. CASE AppendEvent(w)
      <4>1. CASE drive[w].value = None
        <5>1. Goto(w, "suspend")  BY <3>6, <4>1 DEF AppendEvent
        <5>2. drive'[w].pc = "suspend"  BY <2>0, <5>1, GotoEffect
        <5> QED  BY <5>2
      <4>2. CASE drive[w].value # None
        <5>1. drive'[w].pc \in {"complete", "suspend", "fail", "work", "append", "consume"}
          BY <2>0, <3>6, <4>2, AppendEffect
        <5> QED  BY <5>1
      <4> QED  BY <4>1, <4>2
    <3> QED  BY <1>2, <3>1, <3>2, <3>3, <3>4, <3>5, <3>6, Moves
  <2>2. \A u \in Workers \ {w} : drive'[u] = drive[u]  BY <1>2, Moves
  <2> QED  BY <2>1, <2>2 DEF Starts
<1> QED  BY <1>1, <1>2, NextParts

(* What becomes of the worker that moves.                                  *)
LEMMA SpentOwn ==
  ASSUME WorkflowAssumption, IInv, Starts, NEW w \in callers, StepOf(w), UNCHANGED callers,
         NEW i \in Positions
  PROVE  \/ Work(w) /\ i = Here(drive[w]) /\ w \notin Spent(i) /\ w \in Spent(i)'
         \/ ~(Work(w) /\ i = Here(drive[w])) /\ (w \in Spent(i) => w \in Spent(i)')
         \/ crashes' + faults' = crashes + faults + 1
<1> DEFINE d == drive[w]
           e == drive'[w]
<1>0. w \in Workers /\ drive \in [Workers -> Locals] /\ d \in Locals  BY InvParts DEF DriveT
<1>1. CASE Work(w)
  <2>1. UNCHANGED events /\ d.pc = "work" /\ e.pc = "append" /\ e.past = d.past /\ e.seen = d.seen
    BY <1>0, <1>1, WorkEffect DEF Work, At
  <2> QED  BY <1>1, <2>1 DEF Spent, Evaluates, Here, At, AtCommand
<1>2. CASE AppendEvent(w)
  <2>1. d.pc = "append" /\ Record(d) /\ ~Work(w)  BY <1>2 DEF AppendEvent, At, Work
  <2>2. Here(d) \in Positions  BY <1>0, <2>1, AtPositions DEF Driving, AtCommand
  <2>3. events'[Here(d)] # None
    <3>1. events'[Here(d)] = events[Here(d)] \/ Records(w, Here(d)) \/ Completes(w, Here(d))
      BY <2>2, EventMoves
    <3>2. events'[Here(d)] = IF events[Here(d)] = None THEN Event(d) ELSE events[Here(d)]
      BY <2>1, <2>2, InvParts DEF Record, EventsT, Histories
    <3>3. Event(d) # None
      <4>1. Command(d) \in [type : Types, name : Names]
        BY <1>0, <2>1, AtPositions DEF Driving, AtCommand
      <4>2. Event(d) \in Events  BY <1>0, <4>1 DEF Event, Events, Locals
      <4> QED  BY <4>2 DEF WorkflowAssumption
    <3> QED  BY <3>2, <3>3
  <2>4. \/ e.pc = "suspend"
        \/ e.past = d.past /\ Here(e) > Here(d) /\ (AtCommand(e) => d.past[Here(e)] = None)
    <3>1. CASE d.value = None
      <4>1. Goto(w, "suspend")  BY <1>2, <3>1 DEF AppendEvent
      <4> QED  BY <1>0, <4>1, GotoEffect
    <3>2. CASE d.value # None  BY <1>0, <1>2, <3>2, AppendEffect
    <3> QED  BY <3>1, <3>2
  <2>n. Here(e) \in Nat /\ Here(d) \in Nat /\ i \in Nat
    <3>1. e \in Locals  BY <1>0, NextOf, AtNext
    <3> QED  BY <1>0, <3>1, PositionsBound DEF Locals, Here
  <2>5. i = Here(d) => ~Evaluates(e, i)  BY <2>n, <2>4 DEF Evaluates, AtCommand
  <2>6. ~Evaluates(d, i) => ~Evaluates(e, i)
    <3> SUFFICES ASSUME Evaluates(e, i) PROVE Evaluates(d, i)  OBVIOUS
    <3>1. AtCommand(e) /\ AtCommand(d)  BY <2>1 DEF Evaluates, AtCommand
    <3>2. e.past = d.past /\ Here(e) > Here(d) /\ d.past[Here(e)] = None
      BY <2>4, <3>1 DEF AtCommand
    <3> QED  BY <2>n, <3>1, <3>2 DEF Evaluates
  <2>7. events[i] # None => events'[i] # None  BY StepGrows
  <2> QED  BY <2>1, <2>3, <2>5, <2>6, <2>7 DEF Spent, At
<1>3. CASE ~Work(w) /\ ~At(w, "append")
  <2> SUFFICES ASSUME events[i] # None, ~Evaluates(d, i)
               PROVE  ~Evaluates(e, i)
    BY <1>3, StepGrows DEF Spent, At
  <2>1. CASE Leaves(w)  BY <2>1 DEF Leaves, Driving, Evaluates
  <2>2. CASE Enters(w)  BY <2>2 DEF Enters, Evaluates, AtCommand
  <2>3. CASE Load(w)
    <3>1. drive[w].seen = <<>>  BY <1>0, <2>3 DEF Load, At, Starts
    <3>2. e.past = events /\ (AtCommand(e) => events[Here(e)] = None)
      BY <1>0, <2>3, <3>1, LoadEffect
    <3> QED  BY <3>2 DEF Evaluates
  <2>4. CASE Consume(w)
    <3>1. d.pc = "consume" /\ e.pc = "append" /\ e.past = d.past /\ e.seen = d.seen
      BY <1>0, <2>4, ConsumeEffect DEF Consume, At
    <3> QED  BY SMTT(30), <3>1 DEF Evaluates, AtCommand, Here
  <2>5. CASE TriesAgain(w)
    <3>1. d.pc = "work" /\ e.pc = "work" /\ e.past = d.past /\ e.seen = d.seen
      BY <1>3, <2>5 DEF TriesAgain, At
    <3> QED  BY <3>1 DEF Evaluates, AtCommand, Here
  <2>6. ~AppendEvent(w)  BY <1>3 DEF AppendEvent
  <2> QED  BY <1>3, <2>1, <2>2, <2>3, <2>4, <2>5, <2>6, Moves
<1> QED  BY <1>1, <1>2, <1>3, CountersMove

LEMMA PaidStep ==
  ASSUME WorkflowAssumption, IInv, Starts, Paid, [Next]_vars
  PROVE  Paid'
<1>1. UNCHANGED callers  BY CallersStay
<1>2. CASE UNCHANGED <<drive, events, ran, crashes, faults>>
  BY <1>1, <1>2 DEF Paid, Spent, Evaluates, At, Here, AtCommand
<1>3. ASSUME NEW w \in callers, StepOf(w) PROVE Paid'
  <2> SUFFICES ASSUME NEW i \in Positions
               PROVE  ran'[i] <= Cardinality(Spent(i)') + crashes' + faults'
    BY DEF Paid
  <2> DEFINE A == Spent(i)
             B == Spent(i)'
             c == crashes + faults
             e == crashes' + faults'
  <2>0. w \in Workers /\ ran \in [Positions -> Nat]  BY InvParts DEF DriveT, RestT
  <2>1. IsFiniteSet(callers) /\ A \subseteq callers /\ B \subseteq callers
    BY <1>1, SpentFinite DEF Spent
  <2>2. IsFiniteSet(A) /\ IsFiniteSet(B)  BY <2>1, FS_Subset
  <2>3. A \ {w} \subseteq B
    <3> SUFFICES ASSUME NEW u \in A, u # w PROVE u \in B  OBVIOUS
    <3>1. u \in callers /\ u \in Workers  BY InvParts DEF DriveT, Spent
    <3>2. drive'[u] = drive[u]  BY <1>3, <3>1, Moves
    <3>3. CASE events'[i] = None
      <4>1. events[i] = None  BY <1>3, <3>3, StepGrows
      <4> QED  BY <1>1, <3>1, <3>2, <3>3, <4>1 DEF Spent, At
    <3>4. CASE events'[i] # None
      <4>1. ~Evaluates(drive[u], i)
        <5>1. i \in Nat  BY PositionsBound
        <5> QED  BY <5>1 DEF Spent, Evaluates, At
      <4> QED  BY <1>1, <3>1, <3>2, <3>4, <4>1 DEF Spent
    <3> QED  BY <3>3, <3>4
  <2>4. c \in Nat /\ e \in Nat /\ e >= c  BY <1>3, CountersMove
  <2>5. ran[i] \in Nat /\ ran[i] <= Cardinality(A) + c
    <3>1. Cardinality(A) \in Nat  BY <2>2, FS_CardinalityType
    <3>2. {crashes, faults} \subseteq Nat  BY <1>3, CountersMove
    <3> QED  BY <2>0, <3>1, <3>2 DEF Paid
  <2>6. CASE Work(w) /\ i = Here(drive[w])
    <3>1. ran'[i] = ran[i] + 1 /\ e = c  BY <2>0, <2>6 DEF Work, world
    <3>2. w \notin A /\ w \in B
      <4>1. e # c + 1  BY <2>4, <3>1
      <4>2. crashes' + faults' # crashes + faults + 1  BY <4>1
      <4> HIDE DEF A, B, c, e
      <4>3. w \notin Spent(i) /\ w \in Spent(i)'  BY <1>1, <1>3, <2>6, <4>2, SpentOwn
      <4> QED  BY <4>3 DEF A, B
    <3>3. ran[i] + 1 <= Cardinality(B) + e
      <4> HIDE DEF A, B, c, e
      <4>1. e = c  BY <3>1
      <4> QED  BY <2>2, <2>3, <2>4, <2>5, <3>2, <4>1, PaidBy
    <3> QED  BY <2>4, <3>1, <3>3, <2>2, <1>3, CountersMove, FS_CardinalityType
  <2>7. CASE ~(Work(w) /\ i = Here(drive[w]))
    <3>1. ran'[i] = ran[i]
      <4>1. CASE UNCHANGED ran  BY <4>1
      <4>2. CASE Work(w)  BY <2>0, <2>7, <4>2 DEF Work
      <4> QED  BY <1>3, <4>1, <4>2, CountersMove
    <3>2. e = c + 1 \/ (w \in A => w \in B)
      <4> HIDE DEF A, B
      <4>1. crashes' + faults' = crashes + faults + 1 \/ (w \in Spent(i) => w \in Spent(i)')
        BY <1>1, <1>3, <2>7, SpentOwn
      <4>2. c + 1 = crashes + faults + 1  OBVIOUS
      <4> QED  BY <4>1, <4>2 DEF A, B
    <3>3. ran[i] <= Cardinality(B) + e
      <4> HIDE DEF A, B, c, e
      <4> QED  BY <2>2, <2>3, <2>4, <2>5, <3>2, PaidBy
    <3> QED  BY <2>4, <3>1, <3>3, <2>2, <1>3, CountersMove, FS_CardinalityType
  <2> QED  BY <2>6, <2>7
<1> QED  BY <1>2, <1>3, NextParts

LEMMA PaidInit == WorkflowAssumption /\ Init => Starts /\ Paid
<1> SUFFICES ASSUME WorkflowAssumption, Init PROVE Starts /\ Paid  OBVIOUS
<1>1. Starts  BY DEF Init, Starts, Idle
<1>2. \A i \in Positions : ran[i] = 0 /\ crashes = 0 /\ faults = 0  BY DEF Init
<1>3. \A i \in Positions : Cardinality(Spent(i)) \in Nat  BY InitInv, SpentFinite
<1> QED  BY <1>1, <1>2, <1>3 DEF Paid

LEMMA PaidBound ==
  ASSUME WorkflowAssumption, IInv, Paid
  PROVE  RunsBounded
<1>0. crashes \in Nat /\ faults \in Nat /\ ran \in [Positions -> Nat]
  BY InvParts DEF RestT, WorkflowAssumption
<1> SUFFICES ASSUME NEW i \in Positions PROVE ran[i] <= Cardinality(callers) + crashes + faults
  BY DEF RunsBounded
<1>1. /\ Cardinality(Spent(i)) \in Nat /\ Cardinality(callers) \in Nat
      /\ Cardinality(Spent(i)) <= Cardinality(callers)
  BY SpentFinite
<1>2. ran[i] \in Nat /\ ran[i] <= Cardinality(Spent(i)) + crashes + faults  BY <1>0 DEF Paid
<1> QED  BY <1>0, <1>1, <1>2

(* The work of a command is evaluated at most once for each worker there   *)
(* is, each call that died and each query that threw, whatever is signalled *)
(* or deployed meanwhile: however often a workflow is resumed, replays take *)
(* what the history holds (workflow-store.ts:9-11).                        *)
THEOREM EvaluationsPaid ==
  ASSUME WorkflowAssumption
  PROVE  Spec => []RunsBounded
<1>1. Init => IInv /\ Starts /\ Paid  BY InitInv, PaidInit
<1>2. IInv /\ Starts /\ Paid /\ [Next]_vars => IInv' /\ Starts' /\ Paid'
  BY NextInv, StartsStep, PaidStep
<1>3. IInv /\ Paid => RunsBounded  BY PaidBound
<1> QED  BY <1>1, <1>2, <1>3, PTL DEF Spec

(* Replays are sound: nothing is recorded after an open command, and no    *)
(* command is evaluated without need.  With any number of workers for a    *)
(* body of one version without signals, and with any versions and signals  *)
(* where one call is under way at a time.                                  *)
THEOREM ReplaysHold ==
  ASSUME WorkflowAssumption
  PROVE  Spec /\ Ordered => []ReplaysSound
<1> DEFINE RInv == IInv /\ Starts /\ Paid /\ ReplayInv
<1>1. Init => RInv  BY InitInv, PaidInit, ReplayInit
<1>2. RInv /\ Ordered /\ [Next]_vars => RInv' /\ Ordered'
  BY NextInv, StartsStep, PaidStep, ReplayStep
<1>3. RInv => ReplaysSound  BY PaidBound DEF ReplaysSound, IInv, ReplayInv
<1> QED  BY <1>1, <1>2, <1>3, PTL DEF Spec

-----------------------------------------------------------------------------
(* Signals, where one call is under way at a time.  What a call says of    *)
(* them: only signal() holds one, a wait that is not recorded has not been *)
(* taken, it found no signal buffered for it, and signal() found no wait.  *)
Quiet(w) == drive[w].pc \notin {"send", "buffer", "deliver"} => drive[w].signal = None

Untaken(w) ==
  LET d == drive[w]
  IN /\ AtCommand(d) /\ Command(d).type = "signal" => events[Here(d)] = None
     /\ At(w, "append") /\ Command(d).type = "signal" /\ d.value = None =>
          \A j \in 1 .. Len(inbox) : NameOf[inbox[j]] # Command(d).name

Unawaited(w) ==
  At(w, "buffer") => \A i \in Pending("signal") : events[i].name # NameOf[drive[w].signal]

Apart == \A i \in Pending("signal"), j \in 1 .. Len(inbox) : NameOf[inbox[j]] # events[i].name

Talk == (\A w \in Workers : Quiet(w) /\ Untaken(w) /\ Unawaited(w)) /\ Apart

(* Where the next command of a drive is, nobody has recorded anything.     *)
LEMMA AppendOpens ==
  ASSUME WorkflowAssumption, IInv, ReplayInv, Alone, NEW w \in callers, AppendEvent(w),
         drive[w].value # None, AtCommand(drive'[w])
  PROVE  events'[Here(drive'[w])] = None
<1> DEFINE d == drive[w]
           e == drive'[w]
<1>0. DriveT /\ EventsT /\ RestT /\ w \in Workers  BY InvParts DEF DriveT
<1>1. AtCommand(d) /\ At(w, "append") /\ Record(d)  BY DEF AppendEvent, At, AtCommand
<1>2. Here(d) \in Positions /\ Here(e) \in Positions
  <2>1. Driving(d) /\ Driving(e)  BY <1>1 DEF Driving
  <2>2. Here(e) <= Len(Body[e.version]) /\ e \in Locals  BY <1>0, <2>1, StepIs, NextOf, AtNext
  <2> QED  BY <1>0, <2>1, <2>2, AtPositions, SeenPositions
<1>3. Here(e) > Here(d) /\ d.past[Here(e)] = None  BY <1>0, AppendEffect
<1>4. events[Here(e)] = d.past[Here(e)]  BY <1>0, <1>1, <1>2, <1>3 DEF ReplayInv, Clear
<1>5. events'[Here(e)] = events[Here(e)]
  <2>1. Here(e) # Here(d)
    <3>1. Here(d) \in Nat /\ Here(e) \in Nat  BY <1>2, PositionsBound
    <3> QED  BY <1>3, <3>1
  <2> QED  BY <1>0, <1>1, <1>2, <2>1 DEF Record, EventsT, Histories
<1> QED  BY <1>3, <1>4, <1>5

(* What a call has of signals: the one it was sent with, or the one it took*)
(* from the buffer for the command it appends.                             *)
Of(w) == IF At(w, "append") THEN drive[w].value ELSE drive[w].signal

Plain(w) ==
  \/ Start(w) \/ Resume(w) \/ Tick(w) \/ GetRun(w) \/ Begin(w) \/ WorkThrows(w)
  \/ Suspend(w) \/ Complete(w) \/ Fail(w)

LEMMA OwnCall ==
  ASSUME WorkflowAssumption, IInv, ReplayInv, NEW w \in callers, Quiet(w)
  PROVE  LET e == drive'[w]
         IN  /\ Plain(w) \/ Buffer(w) \/ CompleteEvent(w) \/ Crash(w) \/ AppendThrows(w) \/ Throws(w) =>
                  e.signal = None /\ e.pc \notin {"append", "send", "buffer", "deliver"}
             /\ Load(w) \/ Work(w) \/ Consume(w) \/ AppendEvent(w) =>
                  e.signal = None /\ e.pc \notin {"send", "buffer", "deliver"}
             /\ Send(w) => e.signal = drive[w].signal /\ e.pc \in {"buffer", "deliver"}
             /\ \A x \in unsent : Signal(w, x) => e.signal = x /\ e.pc = "send"
<1> DEFINE d == drive[w]
           e == drive'[w]
           Out(l) == l.signal = None /\ l.pc \notin {"append", "send", "buffer", "deliver"}
<1>1. w \in Workers /\ drive \in [Workers -> Locals] /\ d \in Locals  BY InvParts DEF DriveT
<1>2. d.pc \notin {"send", "buffer", "deliver"} => d.signal = None  BY DEF Quiet
<1>g. ASSUME NEW place, place \notin {"append", "send", "buffer", "deliver"}, Goto(w, place),
             d.pc \notin {"send", "buffer", "deliver"}
      PROVE  Out(e)
  BY <1>1, <1>2, <1>g, GotoEffect
<1>i. ASSUME NEW l, Become(w, l), Out(l) PROVE Out(e)  BY <1>1, <1>i, BecomeEffect
<1>o. /\ Out(Idle) /\ Out([Idle EXCEPT !.pc = "getRun"])
      /\ \A v : Out([Idle EXCEPT !.pc = "begin", !.version = v])
      /\ \A i : Out([Idle EXCEPT !.pc = "fire", !.seq = i])
  BY DEF Idle
<1>c. ASSUME Caught(w), d.pc \notin {"send", "buffer", "deliver"} PROVE Out(e)
  BY <1>1, <1>2, <1>c, CaughtEffect
<1>3. Plain(w) => Out(e)
  <2>1. Start(w) => Out(e)
    <3> HIDE DEF Out
    <3> QED  BY <1>g, <1>i, <1>o DEF Start, At
  <2>2. Resume(w) \/ Begin(w) => Out(e)
    <3> HIDE DEF Out
    <3> QED  BY <1>g DEF Resume, Begin, At
  <2>3. GetRun(w) \/ Tick(w) \/ Suspend(w) \/ Complete(w) \/ Fail(w) => Out(e)
    <3> HIDE DEF Out
    <3> QED  BY <1>i, <1>o DEF GetRun, Tick, Suspend, Complete, Fail, Return
  <2>4. WorkThrows(w) => Out(e)
    <3> HIDE DEF Out
    <3> QED  BY <1>c DEF WorkThrows, At
  <2> QED  BY <2>1, <2>2, <2>3, <2>4 DEF Plain
<1>4. Buffer(w) \/ CompleteEvent(w) \/ Crash(w) => Out(e)
  <2> HIDE DEF Out
  <2> QED  BY <1>i, <1>o DEF Buffer, CompleteEvent, Crash, Return
<1>5. AppendThrows(w) => Out(e)
  <2> HIDE DEF Out
  <2> QED  BY <1>c, <1>g DEF AppendThrows, At
<1>t. Throws(w) => Out(e)
  <2> HIDE DEF Out
  <2> QED  BY <1>g DEF Throws, ConsumeThrows, CompleteThrows, At
<1>6. Load(w) => e.signal = None /\ e.pc \notin {"send", "buffer", "deliver"}
  <2>1. Load(w) => d.seen = <<>> /\ d.signal = None  BY <1>1, <1>2 DEF Load, At, ReplayInv, Located
  <2> QED  BY <1>1, <2>1, LoadEffect
<1>7. Work(w) => e.signal = None /\ e.pc \notin {"send", "buffer", "deliver"}
  BY ZenonT(30), <1>1, <1>2, WorkEffect DEF Work, At
<1>8. Consume(w) => e.signal = None /\ e.pc \notin {"send", "buffer", "deliver"}
  BY <1>1, <1>2, ConsumeEffect DEF Consume, At
<1>9. AppendEvent(w) => e.signal = None /\ e.pc \notin {"send", "buffer", "deliver"}
  <2>1. AppendEvent(w) => d.signal = None  BY <1>2 DEF AppendEvent, At
  <2>2. CASE d.value = None
    <3>1. AppendEvent(w) => Goto(w, "suspend")  BY <2>2 DEF AppendEvent
    <3> QED  BY <1>1, <2>1, <3>1, GotoEffect
  <2>3. CASE d.value # None  BY <1>1, <2>1, <2>3, AppendEffect
  <2> QED  BY <2>2, <2>3
<1>10. Send(w) => e.signal = d.signal /\ e.pc \in {"buffer", "deliver"}
  <2>1. CASE Goto(w, "buffer")  BY <1>1, <2>1, GotoEffect
  <2>2. ASSUME NEW i, Become(w, [d EXCEPT !.pc = "deliver", !.seq = i])
        PROVE  e.signal = d.signal /\ e.pc \in {"buffer", "deliver"}
    <3> DEFINE l == [d EXCEPT !.pc = "deliver", !.seq = i]
    <3>1. l.pc = "deliver" /\ l.signal = d.signal  BY <1>1 DEF Locals
    <3> HIDE DEF l
    <3>2. Become(w, l)  BY <2>2 DEF l
    <3> QED  BY <1>1, <3>1, <3>2, BecomeEffect
  <2> QED  BY <2>1, <2>2 DEF Send
<1>11. ASSUME NEW x \in unsent, Signal(w, x) PROVE e.signal = x /\ e.pc = "send"
  <2> DEFINE l == [Idle EXCEPT !.pc = "send", !.signal = x]
  <2>1. l.signal = x /\ l.pc = "send"  BY DEF Idle
  <2>2. Become(w, l)  BY <1>11 DEF Signal
  <2> HIDE DEF l
  <2> QED  BY <1>1, <2>1, <2>2, BecomeEffect
<1> QED  BY <1>3, <1>4, <1>5, <1>6, <1>7, <1>8, <1>9, <1>10, <1>11, <1>t

(* Where the signal of a call goes.                                        *)
Same == UNCHANGED <<events, inbox, unsent>>
Remains(w) == Same /\ (Of(w)' = Of(w) \/ {Of(w), Of(w)'} \cap Signals = {})
Takes(w) ==
  \E m \in 1 .. Len(inbox) :
    /\ Of(w) \notin Signals /\ Of(w)' = inbox[m] /\ UNCHANGED <<events, unsent>>
    /\ inbox' = [i \in 1 .. Len(inbox) - 1 |-> IF i < m THEN inbox[i] ELSE inbox[i + 1]]
Lapses == crashes' + faults' = crashes + faults + 1
Writes(w) ==
  /\ UNCHANGED <<inbox, unsent>> /\ Of(w)' \notin Signals
  /\ \/ \E i \in Positions :
          /\ events[i] = None \/ events[i].value \notin Signals
          /\ events'[i] # None /\ events'[i].value = Of(w)
          /\ \A j \in Positions \ {i} : events'[j] = events[j]
     \/ UNCHANGED events /\ (Of(w) \in Signals => Lapses)
Sends(w) ==
  \E x \in unsent : /\ Of(w) \notin Signals /\ Of(w)' = x /\ unsent' = unsent \ {x}
                    /\ UNCHANGED <<events, inbox>>
Buffers(w) ==
  /\ Of(w) \in Signals /\ Of(w)' \notin Signals /\ UNCHANGED events
  /\ \/ inbox' = Append(inbox, Of(w)) /\ UNCHANGED unsent
     \/ unsent' = unsent \cup {Of(w)} /\ UNCHANGED inbox
Dies(w) == Same /\ Of(w)' \notin Signals /\ Lapses
Drops(w) ==
  \E m \in 1 .. Len(inbox) :
    Cut(m) /\ Of(w) \notin Signals /\ Of(w)' \notin Signals /\ UNCHANGED <<events, unsent>> /\ Lapses

LEMMA SignalEffect ==
  ASSUME WorkflowAssumption, IInv, ReplayInv, Alone, NEW w \in callers, StepOf(w),
         Quiet(w), Untaken(w)
  PROVE  Remains(w) \/ Takes(w) \/ Writes(w) \/ Sends(w) \/ Buffers(w) \/ Dies(w) \/ Drops(w)
<1> DEFINE d == drive[w]
           e == drive'[w]
<1>0. DriveT /\ EventsT /\ RestT /\ w \in Workers  BY InvParts DEF DriveT
<1>1. drive \in [Workers -> Locals] /\ d \in Locals  BY <1>0 DEF DriveT
<1>2. None \notin Signals /\ Signals \cap Nat = {}  BY DEF WorkflowAssumption
<1>3. d.pc \notin {"append", "send", "buffer", "deliver"} => Of(w) = None  BY DEF Of, At, Quiet
<1>4. /\ Plain(w) \/ Buffer(w) \/ CompleteEvent(w) \/ Crash(w) \/ AppendThrows(w) \/ Throws(w) => Of(w)' = None
      /\ Load(w) \/ Work(w) \/ Consume(w) \/ AppendEvent(w) =>
           Of(w)' = IF e.pc = "append" THEN e.value ELSE None
      /\ Send(w) => Of(w)' = d.signal
      /\ \A x \in unsent : Signal(w, x) => Of(w)' = x
  BY OwnCall DEF Of, At
<1>5. CASE Plain(w)
  <2>1. Same /\ d.pc \notin {"append", "send", "buffer", "deliver"}
    BY <1>5 DEF Plain, Same, Start, Resume, Tick, GetRun, Begin, WorkThrows, Suspend, Complete, Fail,
      At, world
  <2> QED  BY <1>2, <1>3, <1>4, <1>5, <2>1 DEF Remains
<1>6. CASE Load(w)
  <2>1. Same /\ d.pc = "load"  BY <1>6 DEF Load, Same, At, world
  <2>2. d.seen = <<>>  BY <1>0, <2>1 DEF ReplayInv, Located
  <2>3. e.value = None  BY <1>0, <1>6, <2>2, LoadEffect
  <2> QED  BY <1>2, <1>3, <1>4, <1>6, <2>1, <2>3 DEF Remains
<1>7. CASE Work(w)
  <2>1. Same /\ d.pc = "work"  BY <1>7 DEF Work, Same, At, world
  <2>2. e.pc = "append" /\ e.value \in Nat  BY <1>0, <1>7, WorkEffect
  <2> QED  BY <1>2, <1>3, <1>4, <1>7, <2>1, <2>2 DEF Remains
<1>8. CASE Consume(w)
  <2>1. UNCHANGED <<events, unsent>> /\ d.pc = "consume"  BY <1>8 DEF Consume, At, world
  <2>2. d.value = None  BY <1>0, <2>1 DEF ReplayInv, Located
  <2>3. /\ e.pc = "append"
        /\ \/ e.value = d.value /\ UNCHANGED inbox
           \/ \E m \in 1 .. Len(inbox) :
                /\ e.value = inbox[m]
                /\ inbox' = [i \in 1 .. Len(inbox) - 1 |->
                               IF i < m THEN inbox[i] ELSE inbox[i + 1]]
    BY <1>0, <1>8, ConsumeEffect
  <2>4. CASE e.value = d.value /\ UNCHANGED inbox
    BY <1>2, <1>3, <1>4, <1>8, <2>1, <2>2, <2>3, <2>4 DEF Remains, Same
  <2>5. ASSUME NEW m \in 1 .. Len(inbox), e.value = inbox[m],
               inbox' = [i \in 1 .. Len(inbox) - 1 |-> IF i < m THEN inbox[i] ELSE inbox[i + 1]]
        PROVE  Takes(w)
    <3>1. Of(w) \notin Signals /\ Of(w)' = inbox[m]  BY <1>2, <1>3, <1>4, <1>8, <2>1, <2>3, <2>5
    <3> QED  BY <2>1, <2>5, <3>1 DEF Takes
  <2> QED  BY <2>3, <2>4, <2>5
<1>9. CASE AppendEvent(w) \/ AppendThrows(w)
  <2>1. UNCHANGED <<inbox, unsent>> /\ d.pc = "append"
    BY <1>9 DEF AppendEvent, AppendThrows, Fault, At, world
  <2>2. Of(w)' \notin Signals
    <3>1. CASE AppendThrows(w)  BY <1>2, <1>4, <3>1
    <3>2. CASE AppendEvent(w)
      <4>1. e.pc = "append" => e.value = None
        <5>1. CASE d.value = None
          <6>1. Goto(w, "suspend")  BY <3>2, <5>1 DEF AppendEvent
          <6> QED  BY <1>0, <1>1, <6>1, GotoEffect
        <5>2. CASE d.value # None  BY <1>0, <3>2, <5>2, AppendEffect
        <5> QED  BY <5>1, <5>2
      <4> QED  BY <1>2, <1>4, <3>2, <4>1
    <3> QED  BY <1>9, <3>1, <3>2
  <2>3. Of(w) = d.value /\ Here(d) \in Positions /\ Command(d).type \in Types
    BY <1>0, <2>1, AtPositions DEF Of, At, Driving, AtCommand
  <2>4. Of(w) \in Signals => events[Here(d)] = None
    <3>1. Command(d).type \in {"step", "value"} => d.value \in Nat
      BY <1>0, <2>1 DEF ReplayInv, Located
    <3>2. Command(d).type = "sleep" => d.value = None  BY <1>0, <2>1 DEF DriveT, Sound
    <3>3. Command(d).type = "signal" => events[Here(d)] = None
      BY <2>1 DEF Untaken, AtCommand
    <3> QED  BY <1>2, <2>3, <3>1, <3>2, <3>3 DEF Types
  <2>5. CASE Record(d)
    <3>1. events' = [events EXCEPT ![Here(d)] = IF events[Here(d)] = None THEN Event(d) ELSE events[Here(d)]]
      BY <2>5 DEF Record
    <3>2. events \in [Positions -> Events \cup {None}]  BY <1>0 DEF EventsT, Histories
    <3>3. CASE events[Here(d)] = None
      <4>1. \A j \in Positions \ {Here(d)} : events'[j] = events[j]  BY <3>1, <3>2
      <4>2. events'[Here(d)] = Event(d)  BY <2>3, <3>1, <3>2, <3>3
      <4>3. Event(d).value = Of(w)  BY <2>3 DEF Event
      <4>4. Event(d) # None
        <5>1. Command(d) \in [type : Types, name : Names]
          BY <1>0, <2>1, AtPositions DEF Driving, AtCommand
        <5>2. Event(d) \in Events  BY <1>1, <5>1 DEF Event, Events, Locals
        <5> QED  BY <5>2 DEF WorkflowAssumption
      <4> QED  BY <2>1, <2>2, <2>3, <3>3, <4>1, <4>2, <4>3, <4>4 DEF Writes
    <3>4. CASE events[Here(d)] # None
      <4>1. events' = events  BY <2>3, <3>1, <3>2, <3>4
      <4> QED  BY <2>1, <2>2, <2>4, <3>4, <4>1 DEF Writes
    <3> QED  BY <3>3, <3>4
  <2>6. CASE AppendThrows(w) /\ UNCHANGED events
    <3>1. crashes' = crashes /\ faults' = faults + 1  BY <2>6 DEF AppendThrows, Fault
    <3>2. crashes \in Nat /\ faults \in Nat  BY <1>0 DEF RestT, WorkflowAssumption
    <3>3. Lapses  BY <3>1, <3>2 DEF Lapses
    <3> QED  BY <2>1, <2>2, <2>6, <3>3 DEF Writes
  <2> QED  BY <1>9, <2>5, <2>6 DEF AppendEvent, AppendThrows
<1>10. CASE Send(w)
  <2>1. Same /\ d.pc = "send"  BY <1>10 DEF Send, Same, At, world
  <2> QED  BY <1>4, <1>10, <2>1 DEF Remains, Of, At
<1>11. ASSUME NEW x \in unsent, Signal(w, x) PROVE Sends(w)
  <2>1. d.pc = "idle" /\ unsent' = unsent \ {x} /\ UNCHANGED <<events, inbox>>
    BY <1>11 DEF Signal, At
  <2> QED  BY <1>2, <1>3, <1>4, <1>11, <2>1 DEF Sends
<1>12. CASE Buffer(w)
  <2>1. d.pc = "buffer" /\ UNCHANGED events  BY <1>12 DEF Buffer, At
  <2>2. Of(w) = d.signal /\ d.signal \in Signals
    BY <1>0, <1>1, <2>1 DEF Of, At, DriveT, DriveOK, Locals
  <2> QED  BY <1>2, <1>4, <1>12, <2>1, <2>2 DEF Buffers, Buffer
<1>13. CASE CompleteEvent(w)
  <2> DEFINE s == d.seq
             f == [events[s] EXCEPT !.status = "completed", !.value = d.signal]
  <2>1. UNCHANGED <<inbox, unsent>> /\ d.pc \in {"deliver", "fire"} /\ ~At(w, "append")
    BY <1>13 DEF CompleteEvent, At, world
  <2>2. Of(w) = d.signal  BY <2>1 DEF Of
  <2>3. s \in Positions /\ events[s] # None /\ events[s].status = "pending" /\ d.signal \in Values
    BY <1>0, <1>1, <2>1 DEF DriveT, DriveOK, Sound, Locals, Values
  <2>4. events[s].value = None  BY <2>3 DEF ReplayInv, WorkDone
  <2>5. f \in Events /\ f.value = d.signal
    <3>1. events[s] \in Events  BY <1>0, <2>3 DEF EventsT, Histories
    <3> QED  BY <2>3, <3>1 DEF Events
  <2>6. f # None  BY <2>5 DEF WorkflowAssumption
  <2> HIDE DEF f
  <2>7. events'[s] = f /\ \A j \in Positions \ {s} : events'[j] = events[j]
    BY <1>0, <1>13, <2>3 DEF CompleteEvent, EventsT, Histories, f
  <2> QED  BY <1>2, <1>4, <1>13, <2>1, <2>2, <2>3, <2>4, <2>5, <2>6, <2>7 DEF Writes
<1>14. CASE Crash(w)
  <2>1. Same /\ crashes' = crashes + 1 /\ faults' = faults  BY <1>14 DEF Crash, Same
  <2>2. crashes \in Nat /\ faults \in Nat  BY <1>0 DEF RestT, WorkflowAssumption
  <2>3. Lapses  BY <2>1, <2>2 DEF Lapses
  <2> QED  BY <1>2, <1>4, <1>14, <2>1, <2>3 DEF Dies
<1>t. CASE Throws(w)
  <2>1. /\ UNCHANGED <<events, unsent, crashes>> /\ faults' = faults + 1 /\ d.pc \in {"consume", "complete"}
        /\ \/ UNCHANGED inbox
           \/ \E m \in 1 .. Len(inbox) : Cut(m)
    BY <1>0, <1>t, ThrowsEffect
  <2>2. crashes \in Nat /\ faults \in Nat  BY <1>0 DEF RestT, WorkflowAssumption
  <2>3. Lapses  BY <2>1, <2>2 DEF Lapses
  <2>4. Of(w) \notin Signals /\ Of(w)' \notin Signals  BY <1>2, <1>3, <1>4, <1>t, <2>1
  <2>5. CASE UNCHANGED inbox  BY <2>1, <2>3, <2>4, <2>5 DEF Dies, Same
  <2>6. CASE \E m \in 1 .. Len(inbox) : Cut(m)  BY <2>1, <2>3, <2>4, <2>6 DEF Drops
  <2> QED  BY <2>1, <2>5, <2>6
<1> QED
  BY <1>5, <1>6, <1>7, <1>8, <1>9, <1>10, <1>11, <1>12, <1>13, <1>14, <1>t DEF StepOf, Step, Plain, Throws

LEMMA SendEffect ==
  ASSUME WorkflowAssumption, IInv, NEW w \in callers, Send(w), At(w, "buffer")'
  PROVE  \A i \in Pending("signal") : events[i].name # NameOf[drive[w].signal]
<1> DEFINE waiting == {i \in Pending("signal") : events[i].name = NameOf[drive[w].signal]}
           l == [drive[w] EXCEPT !.pc = "deliver", !.seq = Min(waiting)]
<1>1. w \in Workers /\ drive \in [Workers -> Locals] /\ drive[w] \in Locals  BY InvParts DEF DriveT
<1>2. l.pc = "deliver"  BY <1>1 DEF Locals
<1>3. waiting # {} => Become(w, l)  BY DEF Send
<1> HIDE DEF l
<1>4. waiting # {} => drive'[w].pc = "deliver"  BY <1>1, <1>2, <1>3, BecomeEffect
<1> QED  BY <1>4 DEF At

LEMMA TalkOwn ==
  ASSUME WorkflowAssumption, IInv, ReplayInv, Alone, Talk, NEW w \in callers, StepOf(w)
  PROVE  Quiet(w)' /\ Untaken(w)' /\ Unawaited(w)'
<1> DEFINE d == drive[w]
           e == drive'[w]
<1>0. w \in Workers /\ drive \in [Workers -> Locals] /\ d \in Locals  BY InvParts DEF DriveT
<1>t. Quiet(w) /\ Untaken(w)  BY <1>0 DEF Talk
<1>1. Quiet(w)'  BY <1>t, OwnCall DEF Quiet, StepOf, Step, Plain, Throws
<1>2. Unawaited(w)'
  <2>1. CASE Send(w)
    <3>1. UNCHANGED events /\ e.signal = d.signal  BY <1>t, <2>1, OwnCall DEF Send
    <3> QED  BY SMTT(30), <2>1, <3>1, SendEffect DEF Unawaited, Pending, At
  <2>2. CASE ~Send(w)
    <3>1. e.pc # "buffer"  BY <1>t, <2>2, OwnCall DEF StepOf, Step, Plain, Throws
    <3> QED  BY <3>1 DEF Unawaited, At
  <2> QED  BY <2>1, <2>2
<1>3. Untaken(w)'
  <2>1. CASE Leaves(w)  BY <2>1 DEF Leaves, Driving, AtCommand, Untaken, At
  <2>2. CASE Enters(w)  BY <2>2 DEF Enters, AtCommand, Untaken, At
  <2>3. CASE Load(w)
    <3>1. d.seen = <<>> /\ UNCHANGED events  BY <1>0, <2>3 DEF Load, At, ReplayInv, Located
    <3>2. (e.pc = "append" => Command(e).type = "sleep") /\ (AtCommand(e) => events[Here(e)] = None)
      BY <1>0, <2>3, <3>1, LoadEffect
    <3> QED  BY <3>1, <3>2 DEF Untaken, At, Command, Here
  <2>4. CASE Work(w)
    <3>1. Command(e).type \in {"step", "value"}  BY <1>0, <2>4, WorkEffect
    <3> QED  BY <3>1 DEF Untaken, Command, Here
  <2>5. CASE Consume(w)
    <3>1. UNCHANGED events /\ d.pc = "consume"  BY <2>5 DEF Consume, At
    <3>2. d.value = None  BY <1>0, <3>1 DEF ReplayInv, Located
    <3>3. /\ e.version = d.version /\ e.seen = d.seen /\ Command(e).type = "signal"
          /\ \/ /\ {i \in DOMAIN inbox : NameOf[inbox[i]] = Command(d).name} = {}
                /\ UNCHANGED inbox
             \/ \E m \in 1 .. Len(inbox) : e.value = inbox[m] /\ inbox[m] \in Signals
      BY <1>0, <2>5, ConsumeEffect
    <3>4. Here(e) = Here(d) /\ Command(e) = Command(d)  BY <3>3 DEF Here, Command
    <3>5. events'[Here(e)] = None  BY <1>t, <3>1, <3>3, <3>4 DEF Untaken, AtCommand
    <3>6. e.value = None => \A j \in 1 .. Len(inbox') : NameOf[inbox'[j]] # Command(e).name
      <4>1. DOMAIN inbox = 1 .. Len(inbox)  BY InvParts DEF RestT
      <4>2. None \notin Signals  BY DEF WorkflowAssumption
      <4>3. CASE /\ {i \in DOMAIN inbox : NameOf[inbox[i]] = Command(d).name} = {}
                 /\ UNCHANGED inbox
        <5>1. \A j \in 1 .. Len(inbox) : NameOf[inbox[j]] # Command(d).name  BY <4>1, <4>3
        <5> QED  BY <3>4, <4>3, <5>1
      <4>4. CASE \E m \in 1 .. Len(inbox) : e.value = inbox[m] /\ inbox[m] \in Signals
        BY <4>2, <4>4
      <4> QED  BY <3>3, <4>3, <4>4
    <3> QED  BY <3>5, <3>6 DEF Untaken, At, Command, Here
  <2>6. CASE AppendEvent(w)
    <3>1. CASE d.value = None
      <4>1. Goto(w, "suspend")  BY <2>6, <3>1 DEF AppendEvent
      <4>2. e.pc = "suspend"  BY <1>0, <4>1, GotoEffect
      <4> QED  BY <4>2 DEF Untaken, AtCommand, At
    <3>2. CASE d.value # None
      <4>1. e.pc = "append" => Command(e).type = "sleep"  BY <1>0, <2>6, <3>2, AppendEffect
      <4>2. AtCommand(e) => events'[Here(e)] = None  BY <2>6, <3>2, AppendOpens
      <4> QED  BY <4>1, <4>2 DEF Untaken, At, Command, Here
    <3> QED  BY <3>1, <3>2
  <2>7. CASE TriesAgain(w)
    <3>1. Command(e).type = "step"  BY <2>7 DEF TriesAgain, Command, Here
    <3> QED  BY <3>1 DEF Untaken, Command, Here
  <2> QED  BY <2>1, <2>2, <2>3, <2>4, <2>5, <2>6, <2>7, Moves
<1> QED  BY <1>1, <1>2, <1>3

LEMMA TalkApart ==
  ASSUME WorkflowAssumption, IInv, ReplayInv, Alone, Talk, NEW w \in callers, StepOf(w)
  PROVE  Apart'
<1> DEFINE d == drive[w]
<1>0. w \in Workers /\ inbox \in Seq(Signals)  BY InvParts DEF DriveT, RestT
<1>t. Quiet(w) /\ Untaken(w) /\ Unawaited(w) /\ Apart  BY <1>0 DEF Talk
<1> SUFFICES ASSUME NEW i \in Pending("signal")', NEW j \in 1 .. Len(inbox')
             PROVE  NameOf[inbox'[j]] # events'[i].name
  BY DEF Apart
<1>1. /\ i \in Positions /\ events'[i] # None
      /\ events'[i].type = "signal" /\ events'[i].status = "pending"
  BY DEF Pending
<1>2. \/ \E k \in 1 .. Len(inbox) : inbox'[j] = inbox[k]
      \/ Buffer(w) /\ inbox'[j] = d.signal
  <2>1. CASE UNCHANGED inbox  BY <2>1
  <2>2. CASE Buffer(w) /\ inbox' = Append(inbox, d.signal)
    <3>1. Len(inbox) \in Nat /\ Len(inbox') = Len(inbox) + 1  BY <1>0, <2>2
    <3>2. CASE j = Len(inbox) + 1  BY <1>0, <2>2, <3>2
    <3>3. CASE j \in 1 .. Len(inbox)
      <4>1. inbox'[j] = inbox[j]  BY <1>0, <2>2, <3>3
      <4> QED  BY <3>3, <4>1
    <3> QED  BY <3>1, <3>2, <3>3
  <2>3. CASE Consume(w) \/ Throws(w)
    <3>1. UNCHANGED inbox \/ \E m \in 1 .. Len(inbox) : Cut(m)
      <4>1. CASE Consume(w)  BY <1>0, <4>1, ConsumeEffect DEF Cut
      <4>2. CASE Throws(w)  BY <1>0, <4>2, InvParts, ThrowsEffect
      <4> QED  BY <2>3, <4>1, <4>2
    <3>2. ASSUME NEW m \in 1 .. Len(inbox),
                 inbox' = [k \in 1 .. Len(inbox) - 1 |-> IF k < m THEN inbox[k] ELSE inbox[k + 1]]
          PROVE  \E k \in 1 .. Len(inbox) : inbox'[j] = inbox[k]
      <4>1. Len(inbox) \in Nat /\ Len(inbox) - 1 \in Nat  BY <1>0, <3>2
      <4>2. Len(inbox') = Len(inbox) - 1
        <5>1. DOMAIN inbox' = 1 .. Len(inbox) - 1  BY <3>2
        <5> QED  BY <4>1, <3>2
      <4>3. inbox'[j] = IF j < m THEN inbox[j] ELSE inbox[j + 1]  BY <3>2, <4>2
      <4>4. j \in 1 .. Len(inbox) /\ j + 1 \in 1 .. Len(inbox)  BY <4>1, <4>2
      <4> QED  BY <4>3, <4>4
    <3> QED  BY <2>1, <3>1, <3>2 DEF Cut
  <2>4. CASE AppendEvent(w) \/ AppendThrows(w) \/ CompleteEvent(w) \/ Plain(w) \/ Load(w) \/ Work(w)
             \/ Send(w) \/ Crash(w) \/ \E x \in unsent : Signal(w, x)
    <3>1. UNCHANGED inbox
      BY <2>4 DEF AppendEvent, AppendThrows, CompleteEvent, Plain, Load, Work, Send, Crash, Signal,
        Start, Resume, Tick, GetRun, Begin, WorkThrows, Suspend, Complete, Fail
    <3> QED  BY <2>1, <3>1
  <2>5. Buffer(w) => UNCHANGED inbox \/ inbox' = Append(inbox, d.signal)  BY DEF Buffer
  <2> QED  BY <2>1, <2>2, <2>3, <2>4, <2>5 DEF StepOf, Step, Plain, Throws
<1>3. CASE events'[i] = events[i]
  <2>1. i \in Pending("signal")  BY <1>1, <1>3 DEF Pending
  <2> QED  BY <1>2, <1>3, <1>t, <2>1 DEF Apart, Unawaited, Buffer
<1>4. CASE Records(w, i)
  <2>1. d.pc = "append" /\ events'[i] = Event(d)  BY <1>4 DEF Records, At
  <2>2. d.value = None /\ Command(d).type = "signal" /\ events'[i].name = Command(d).name
    BY <1>1, <2>1 DEF Event
  <2>3. \A k \in 1 .. Len(inbox) : NameOf[inbox[k]] # Command(d).name
    BY <1>t, <2>1, <2>2 DEF Untaken, At
  <2>4. ~Buffer(w)  BY <2>1 DEF Buffer, At
  <2> QED  BY <1>2, <2>2, <2>3, <2>4
<1>5. CASE Completes(w, i)  BY <1>1, <1>5 DEF Completes
<1> QED  BY <1>1, <1>3, <1>4, <1>5, EventMoves

LEMMA TalkStep ==
  ASSUME WorkflowAssumption, IInv, ReplayInv, Alone, Talk, [Next]_vars
  PROVE  Talk'
<1>1. ASSUME NEW w \in callers, StepOf(w) PROVE Talk'
  <2>1. ASSUME NEW u \in Workers \ {w} PROVE Quiet(u)' /\ Untaken(u)' /\ Unawaited(u)'
    <3>1. drive'[u] = drive[u]  BY <1>1, Moves
    <3>2. drive[u].pc = "idle"
      <4>1. u \notin callers  BY DEF Alone
      <4> QED  BY <4>1, InvParts DEF DriveT, Sound
    <3>3. Quiet(u)  BY DEF Talk
    <3> QED  BY <3>1, <3>2, <3>3 DEF Quiet, Untaken, Unawaited, At, AtCommand
  <2>2. Quiet(w)' /\ Untaken(w)' /\ Unawaited(w)' /\ Apart'  BY <1>1, TalkOwn, TalkApart
  <2> QED  BY <2>1, <2>2 DEF Talk
<1>2. CASE UNCHANGED <<drive, events, inbox>>
  <2>1. UNCHANGED Pending("signal")  BY <1>2 DEF Pending
  <2>2. \A w \in Workers : Quiet(w)' /\ Untaken(w)' /\ Unawaited(w)'
    BY <1>2, <2>1 DEF Talk, Quiet, Untaken, Unawaited, At, AtCommand, Command, Here
  <2>3. Apart'  BY <1>2, <2>1 DEF Talk, Apart
  <2> QED  BY <2>2, <2>3 DEF Talk
<1> QED  BY <1>1, <1>2, NextParts

(* A signal is in one place at a time, or lost.                            *)
HasIn(q, x) == \E j \in 1 .. Len(q) : q[j] = x
OnceIn(q, x) == \A j, k \in 1 .. Len(q) : q[j] = x /\ q[k] = x => j = k

Called(x) == \E w \in callers : Of(w) = x
Buffered(x) == HasIn(inbox, x)
Recorded(x) == \E i \in Positions : events[i] # None /\ events[i].value = x
Gone(x) == x \notin unsent /\ ~Called(x) /\ ~Buffered(x) /\ ~Recorded(x)

Once(x) ==
  /\ x \in unsent => ~Called(x) /\ ~Buffered(x) /\ ~Recorded(x)
  /\ Called(x) => ~Buffered(x) /\ ~Recorded(x)
  /\ Buffered(x) => ~Recorded(x)
  /\ OnceIn(inbox, x)
  /\ \A i, k \in Positions : /\ events[i] # None /\ events[i].value = x
                             /\ events[k] # None /\ events[k].value = x
                             => i = k

HeldOnce ==
  (\A x \in Signals : Once(x)) /\ Cardinality({x \in Signals : Gone(x)}) <= crashes + faults

LEMMA Removal ==
  ASSUME NEW S, NEW q \in Seq(S), NEW m \in 1 .. Len(q), NEW x, OnceIn(q, x),
         NEW r, r = [i \in 1 .. Len(q) - 1 |-> IF i < m THEN q[i] ELSE q[i + 1]]
  PROVE  OnceIn(r, x) /\ (HasIn(r, x) <=> HasIn(q, x) /\ x # q[m])
<1> DEFINE from(j) == IF j < m THEN j ELSE j + 1
<1>1. Len(q) \in Nat /\ Len(q) - 1 \in Nat  OBVIOUS
<1>2. Len(r) = Len(q) - 1  BY <1>1
<1>3. ASSUME NEW j \in 1 .. Len(r) PROVE r[j] = q[from(j)] /\ from(j) \in 1 .. Len(q) /\ from(j) # m
  BY <1>1, <1>2
<1>4. ASSUME NEW j \in 1 .. Len(r), NEW k \in 1 .. Len(r), from(j) = from(k) PROVE j = k
  BY <1>1, <1>2, <1>4
<1>5. ASSUME NEW j \in 1 .. Len(q), j # m PROVE \E k \in 1 .. Len(r) : r[k] = q[j]
  <2>1. CASE j < m
    <3>1. j \in 1 .. Len(r) /\ from(j) = j  BY <1>1, <1>2, <2>1
    <3> QED  BY <1>3, <3>1
  <2>2. CASE j > m
    <3>1. j - 1 \in 1 .. Len(r) /\ from(j - 1) = j  BY <1>1, <1>2, <2>2
    <3> HIDE DEF from
    <3>2. r[j - 1] = q[j]  BY <1>3, <3>1
    <3> QED  BY <3>1, <3>2
  <2>3. j < m \/ j > m  BY <1>1, <1>5
  <2> QED  BY <2>1, <2>2, <2>3
<1> HIDE DEF from
<1>6. OnceIn(r, x)
  <2> SUFFICES ASSUME NEW j \in 1 .. Len(r), NEW k \in 1 .. Len(r), r[j] = x, r[k] = x
               PROVE  j = k
    BY DEF OnceIn
  <2>1. from(j) = from(k)  BY <1>3 DEF OnceIn
  <2> QED  BY <1>4, <2>1
<1>7. HasIn(r, x) => HasIn(q, x) /\ x # q[m]  BY <1>3 DEF HasIn, OnceIn
<1>8. HasIn(q, x) /\ x # q[m] => HasIn(r, x)  BY <1>5 DEF HasIn
<1> QED  BY <1>6, <1>7, <1>8

LEMMA Addition ==
  ASSUME NEW S, NEW q \in Seq(S), NEW y, NEW x, OnceIn(q, x), x = y => ~HasIn(q, x)
  PROVE  LET r == Append(q, y)
         IN  OnceIn(r, x) /\ (HasIn(r, x) <=> x = y \/ HasIn(q, x))
<1> DEFINE r == Append(q, y)
<1>1. Len(q) \in Nat /\ Len(r) = Len(q) + 1 /\ r[Len(q) + 1] = y
      /\ \A j \in 1 .. Len(q) : r[j] = q[j]
  OBVIOUS
<1>2. \A j \in 1 .. Len(r) : j = Len(q) + 1 \/ j \in 1 .. Len(q)  BY <1>1
<1>3. Len(q) + 1 \in 1 .. Len(r) /\ \A j \in 1 .. Len(q) : j \in 1 .. Len(r)  BY <1>1
<1> HIDE DEF r
<1>4. HasIn(r, x) <=> x = y \/ HasIn(q, x)  BY <1>1, <1>2, <1>3 DEF HasIn
<1>5. OnceIn(r, x)  BY <1>1, <1>2 DEF OnceIn, HasIn
<1> QED  BY <1>4, <1>5 DEF r

(* What one step means for one signal.                                     *)
LEMMA HeldMoves ==
  ASSUME Alone, NEW w \in callers, UNCHANGED callers, inbox \in Seq(Signals),
         Remains(w) \/ Takes(w) \/ Writes(w) \/ Sends(w) \/ Buffers(w) \/ Dies(w),
         NEW x \in Signals, Once(x)
  PROVE  Once(x)' /\ (Gone(x)' => Gone(x) \/ (x = Of(w) /\ Lapses))
<1>1. (Called(x) <=> Of(w) = x) /\ (Called(x)' <=> Of(w)' = x)  BY DEF Alone, Called
<1>2. CASE Remains(w)
  <2>1. (Called(x)' <=> Called(x)) /\ UNCHANGED <<events, inbox, unsent>>
    BY <1>1, <1>2 DEF Remains, Same
  <2> QED  BY <2>1 DEF Once, Gone, Buffered, Recorded
<1>3. CASE Dies(w)
  <2>1. ~Called(x)' /\ UNCHANGED <<events, inbox, unsent>> /\ Lapses
    BY <1>1, <1>3 DEF Dies, Same
  <2> QED  BY <1>1, <2>1 DEF Once, Gone, Buffered, Recorded
<1>4. CASE Sends(w)
  <2>1. PICK y \in unsent : /\ Of(w) \notin Signals /\ Of(w)' = y /\ unsent' = unsent \ {y}
                            /\ UNCHANGED <<events, inbox>>
    BY <1>4 DEF Sends
  <2>2. (Buffered(x)' <=> Buffered(x)) /\ (Recorded(x)' <=> Recorded(x)) /\ ~Called(x)
        /\ (Called(x)' <=> x = y)
    BY <1>1, <2>1 DEF Buffered, Recorded
  <2> QED  BY <2>1, <2>2 DEF Once, Gone
<1>5. CASE Takes(w)
  <2>1. PICK m \in 1 .. Len(inbox) :
          /\ Of(w) \notin Signals /\ Of(w)' = inbox[m] /\ UNCHANGED <<events, unsent>>
          /\ inbox' = [i \in 1 .. Len(inbox) - 1 |-> IF i < m THEN inbox[i] ELSE inbox[i + 1]]
    BY <1>5 DEF Takes
  <2>2. ~Called(x) /\ (Called(x)' <=> x = inbox[m]) /\ (Recorded(x)' <=> Recorded(x))
    BY <1>1, <2>1 DEF Recorded
  <2>3. OnceIn(inbox', x) /\ (HasIn(inbox', x) <=> HasIn(inbox, x) /\ x # inbox[m])
    BY ZenonT(30), <2>1, Removal DEF Once
  <2>4. x = inbox[m] => Buffered(x)  BY DEF Buffered, HasIn
  <2> QED  BY <2>1, <2>2, <2>3, <2>4 DEF Once, Gone, Buffered
<1>6. CASE Buffers(w)
  <2>1. /\ Of(w) \in Signals /\ ~Called(x)' /\ (Recorded(x)' <=> Recorded(x)) /\ UNCHANGED events
        /\ \/ inbox' = Append(inbox, Of(w)) /\ UNCHANGED unsent
           \/ unsent' = unsent \cup {Of(w)} /\ UNCHANGED inbox
    BY <1>1, <1>6 DEF Buffers, Recorded
  <2>2. CASE inbox' = Append(inbox, Of(w)) /\ UNCHANGED unsent
    <3>1. Of(w) = x => ~HasIn(inbox, x)  BY <1>1 DEF Once, Buffered
    <3>2. OnceIn(inbox', x) /\ (HasIn(inbox', x) <=> x = Of(w) \/ HasIn(inbox, x))
      BY <2>2, <3>1, Addition DEF Once
    <3> QED  BY <1>1, <2>1, <2>2, <3>2 DEF Once, Gone, Buffered
  <2>3. CASE unsent' = unsent \cup {Of(w)} /\ UNCHANGED inbox
    BY <1>1, <2>1, <2>3 DEF Once, Gone, Buffered
  <2> QED  BY <2>1, <2>2, <2>3
<1>7. CASE Writes(w)
  <2>1. UNCHANGED <<inbox, unsent>> /\ ~Called(x)' /\ (Buffered(x)' <=> Buffered(x))
    BY <1>1, <1>7 DEF Writes, Buffered
  <2>2. CASE UNCHANGED events /\ (Of(w) \in Signals => Lapses)
    BY <1>1, <2>1, <2>2 DEF Once, Gone, Recorded
  <2>3. ASSUME NEW i \in Positions,
               events[i] = None \/ events[i].value \notin Signals,
               events'[i] # None /\ events'[i].value = Of(w),
               \A j \in Positions \ {i} : events'[j] = events[j]
        PROVE  Once(x)' /\ (Gone(x)' => Gone(x))
    <3>1. CASE x = Of(w)
      <4>1. Recorded(x)' /\ ~Recorded(x) /\ ~Buffered(x) /\ x \notin unsent
        BY <1>1, <2>3, <3>1 DEF Recorded, Once
      <4>2. \A j \in Positions : events'[j] # None /\ events'[j].value = x => j = i
        BY <2>3, <4>1 DEF Recorded
      <4> QED  BY <2>1, <4>1, <4>2 DEF Once, Gone
    <3>2. CASE x # Of(w)
      <4>1. \A j \in Positions : (events'[j] # None /\ events'[j].value = x)
                                   <=> (events[j] # None /\ events[j].value = x)
        BY <2>3, <3>2
      <4>2. Recorded(x)' <=> Recorded(x)  BY <4>1 DEF Recorded
      <4> QED  BY <1>1, <2>1, <3>2, <4>1, <4>2 DEF Once, Gone
    <3> QED  BY <3>1, <3>2
  <2> QED  BY <1>7, <2>2, <2>3 DEF Writes
<1> QED  BY <1>2, <1>3, <1>4, <1>5, <1>6, <1>7

(* A claim that was applied and threw loses the signal it took.            *)
LEMMA HeldDrops ==
  ASSUME Alone, NEW w \in callers, UNCHANGED callers, inbox \in Seq(Signals), NEW m \in 1 .. Len(inbox),
         Cut(m), Of(w) \notin Signals, Of(w)' \notin Signals, UNCHANGED <<events, unsent>>, Lapses,
         NEW x \in Signals, Once(x)
  PROVE  Once(x)' /\ (Gone(x)' => Gone(x) \/ (x = inbox[m] /\ Lapses))
<1>1. ~Called(x) /\ ~Called(x)' /\ (Recorded(x)' <=> Recorded(x))  BY DEF Alone, Called, Recorded
<1>2. OnceIn(inbox, x) /\ inbox' = [i \in 1 .. Len(inbox) - 1 |-> IF i < m THEN inbox[i] ELSE inbox[i + 1]]
  BY DEF Once, Cut
<1>3. OnceIn(inbox', x) /\ (HasIn(inbox', x) <=> HasIn(inbox, x) /\ x # inbox[m])
  <2> DEFINE r == inbox'
  <2>1. r = [i \in 1 .. Len(inbox) - 1 |-> IF i < m THEN inbox[i] ELSE inbox[i + 1]]  BY <1>2
  <2> HIDE DEF r
  <2>2. OnceIn(r, x) /\ (HasIn(r, x) <=> HasIn(inbox, x) /\ x # inbox[m])  BY <1>2, <2>1, Removal
  <2> QED  BY <2>2 DEF r
<1>4. x = inbox[m] => Buffered(x)  BY DEF Buffered, HasIn
<1> QED  BY <1>1, <1>3, <1>4 DEF Once, Gone, Buffered

LEMMA HeldStep ==
  ASSUME WorkflowAssumption, IInv, ReplayInv, Alone, Talk, HeldOnce, [Next]_vars
  PROVE  HeldOnce'
<1> DEFINE G == {x \in Signals : Gone(x)}
           F == {x \in Signals : Gone(x)'}
<1>1. UNCHANGED callers  BY CallersStay
<1>f. IsFiniteSet(Signals)  BY DEF WorkflowAssumption
<1>n. crashes \in Nat /\ faults \in Nat  BY InvParts DEF RestT, WorkflowAssumption
<1>2. CASE UNCHANGED <<drive, events, inbox, unsent, crashes, faults>>
  <2>1. \A x : (Called(x)' <=> Called(x)) /\ (Buffered(x)' <=> Buffered(x)) /\ (Recorded(x)' <=> Recorded(x))
    BY <1>1, <1>2 DEF Called, Buffered, Recorded, Of, At
  <2>2. \A x \in Signals : Once(x)' /\ (Gone(x)' <=> Gone(x))
    BY <1>2, <2>1 DEF HeldOnce, Once, Gone
  <2>3. F = G  BY <2>2
  <2> QED  BY <1>2, <2>2, <2>3 DEF HeldOnce
<1>3. ASSUME NEW w \in callers, StepOf(w) PROVE HeldOnce'
  <2>1. w \in Workers /\ inbox \in Seq(Signals)  BY InvParts DEF DriveT, RestT
  <2>2. Quiet(w) /\ Untaken(w)  BY <2>1 DEF Talk
  <2>3. Remains(w) \/ Takes(w) \/ Writes(w) \/ Sends(w) \/ Buffers(w) \/ Dies(w) \/ Drops(w)
    BY <1>3, <2>2, SignalEffect
  <2>4. PICK y : \A x \in Signals : Once(x)' /\ (Gone(x)' => Gone(x) \/ (x = y /\ Lapses))
    <3>1. CASE Drops(w)
      <4>1. PICK m \in 1 .. Len(inbox) :
              Cut(m) /\ Of(w) \notin Signals /\ Of(w)' \notin Signals /\ UNCHANGED <<events, unsent>> /\ Lapses
        BY <3>1 DEF Drops
      <4>2. \A x \in Signals : Once(x)' /\ (Gone(x)' => Gone(x) \/ (x = inbox[m] /\ Lapses))
        BY <1>1, <2>1, <4>1, HeldDrops DEF HeldOnce
      <4> QED  BY <4>2
    <3>2. CASE ~Drops(w)
      <4>1. \A x \in Signals : Once(x)' /\ (Gone(x)' => Gone(x) \/ (x = Of(w) /\ Lapses))
        BY <1>1, <2>1, <2>3, <3>2, HeldMoves DEF HeldOnce
      <4> QED  BY <4>1
    <3> QED  BY <3>1, <3>2
  <2>5. IsFiniteSet(G) /\ IsFiniteSet(F)
    <3>1. G \subseteq Signals /\ F \subseteq Signals  OBVIOUS
    <3> QED  BY <1>f, <3>1, FS_Subset
  <2>6. Cardinality(G) \in Nat /\ Cardinality(F) \in Nat  BY <2>5, FS_CardinalityType
  <2>7. Cardinality(G) <= crashes + faults  BY DEF HeldOnce
  <2>8. Cardinality(F) <= crashes' + faults'
    <3>1. CASE Lapses
      <4>1. F \subseteq G \cup {y}  BY <2>4
      <4>2. IsFiniteSet(G \cup {y}) /\ Cardinality(G \cup {y}) <= Cardinality(G) + 1
        <5> HIDE DEF F, G
        <5>1. /\ IsFiniteSet(G \cup {y})
              /\ Cardinality(G \cup {y}) =
                   IF y \in G THEN Cardinality(G) ELSE Cardinality(G) + 1
          BY <2>5, FS_AddElement
        <5> QED  BY <2>6, <5>1
      <4>3. Cardinality(F) <= Cardinality(G \cup {y})  BY <4>1, <4>2, FS_Subset
      <4>4. Cardinality(G \cup {y}) \in Nat  BY <4>2, FS_CardinalityType
      <4> HIDE DEF F, G
      <4> QED  BY <1>n, <2>6, <2>7, <3>1, <4>2, <4>3, <4>4 DEF Lapses
    <3>2. CASE ~Lapses
      <4>1. F \subseteq G  BY <2>4, <3>2
      <4>2. Cardinality(F) <= Cardinality(G)  BY <2>5, <4>1, FS_Subset
      <4>3. crashes' = crashes /\ faults' = faults  BY <1>3, <3>2, CountersMove DEF Lapses
      <4> HIDE DEF F, G
      <4> QED  BY <1>n, <2>6, <2>7, <4>2, <4>3
    <3> QED  BY <3>1, <3>2
  <2> QED  BY <2>4, <2>8 DEF HeldOnce
<1> QED  BY <1>2, <1>3, NextParts

LEMMA TalkInit == WorkflowAssumption /\ Init => Talk /\ HeldOnce
<1> SUFFICES ASSUME WorkflowAssumption, Init PROVE Talk /\ HeldOnce  OBVIOUS
<1>1. \A w \in Workers : drive[w].pc = "idle" /\ drive[w].signal = None  BY DEF Init, Idle
<1>2. inbox = <<>> /\ unsent = Signals /\ crashes = 0 /\ faults = 0 /\ callers \subseteq Workers
      /\ \A i \in Positions : events[i] = None
  BY DEF Init
<1>3. Talk  BY <1>1, <1>2 DEF Talk, Quiet, Untaken, Unawaited, Apart, At, AtCommand
<1>4. ASSUME NEW x \in Signals PROVE ~Called(x) /\ ~Buffered(x) /\ ~Recorded(x)
  <2>1. x # None  BY DEF WorkflowAssumption
  <2>2. ~Called(x)  BY <1>1, <1>2, <2>1 DEF Called, Of, At
  <2> QED  BY <1>2, <2>2 DEF Buffered, HasIn, Recorded
<1>5. \A x \in Signals : Once(x)  BY <1>2, <1>4 DEF Once, OnceIn
<1>6. {x \in Signals : Gone(x)} = {}  BY <1>2 DEF Gone
<1>7. Cardinality({x \in Signals : Gone(x)}) = 0  BY <1>6, FS_EmptySet
<1>8. Cardinality({x \in Signals : Gone(x)}) <= crashes + faults  BY <1>2, <1>7
<1> QED  BY <1>3, <1>5, <1>8 DEF HeldOnce

LEMMA SmallSet ==
  ASSUME NEW S, \A a, b \in S : a = b
  PROVE  Cardinality(S) = IF S = {} THEN 0 ELSE 1
<1>1. CASE S = {}  BY <1>1, FS_EmptySet
<1>2. ASSUME NEW a \in S PROVE Cardinality(S) = 1
  <2>1. S = {a}  OBVIOUS
  <2> QED  BY <2>1, FS_Singleton
<1> QED  BY <1>1, <1>2

LEMMA HeldBound ==
  ASSUME WorkflowAssumption, IInv, Alone, Talk, HeldOnce
  PROVE  NoStrandedSignal /\ SignalsKept
<1> DEFINE calls(x) == {w \in Workers : drive[w].signal = x \/ (At(w, "append") /\ drive[w].value = x)}
           box(x) == {j \in DOMAIN inbox : inbox[j] = x}
           hist(x) == {i \in Positions : events[i] # None /\ events[i].value = x}
<1>0. DriveT /\ RestT  BY InvParts
<1>d. DOMAIN inbox = 1 .. Len(inbox)  BY <1>0 DEF RestT
<1>1. NoStrandedSignal  BY <1>d DEF NoStrandedSignal, Talk, Apart
<1>2. ASSUME NEW x \in Signals
      PROVE  Holders(x) = (IF Called(x) THEN 1 ELSE 0) + (IF Buffered(x) THEN 1 ELSE 0)
                            + (IF Recorded(x) THEN 1 ELSE 0)
  <2>0. Once(x) /\ x # None  BY DEF HeldOnce, WorkflowAssumption
  <2>1. ASSUME NEW w \in Workers
        PROVE  (drive[w].signal = x \/ (At(w, "append") /\ drive[w].value = x)) <=> Of(w) = x
    BY <2>0 DEF Talk, Quiet, Of, At
  <2>2. ASSUME NEW w \in Workers, Of(w) = x PROVE w \in callers
    BY <1>0, <2>0, <2>2 DEF DriveT, Sound, Talk, Quiet, Of, At
  <2>3. Cardinality(calls(x)) = IF Called(x) THEN 1 ELSE 0
    <3>1. \A u, v \in calls(x) : u = v  BY <2>1, <2>2 DEF Alone
    <3>2. calls(x) = {} <=> ~Called(x)  BY <1>0, <2>1, <2>2 DEF Called, DriveT
    <3> HIDE DEF calls
    <3>3. Cardinality(calls(x)) = IF calls(x) = {} THEN 0 ELSE 1  BY <3>1, SmallSet
    <3> QED  BY <3>2, <3>3
  <2>4. Cardinality(box(x)) = IF Buffered(x) THEN 1 ELSE 0
    <3>1. \A j, k \in box(x) : j = k  BY <1>d, <2>0 DEF Once, OnceIn
    <3>2. box(x) = {} <=> ~Buffered(x)  BY <1>d DEF Buffered, HasIn
    <3> HIDE DEF box
    <3>3. Cardinality(box(x)) = IF box(x) = {} THEN 0 ELSE 1  BY <3>1, SmallSet
    <3> QED  BY <3>2, <3>3
  <2>5. Cardinality(hist(x)) = IF Recorded(x) THEN 1 ELSE 0
    <3>1. \A i, k \in hist(x) : i = k  BY <2>0 DEF Once
    <3>2. hist(x) = {} <=> ~Recorded(x)  BY DEF Recorded
    <3> HIDE DEF hist
    <3>3. Cardinality(hist(x)) = IF hist(x) = {} THEN 0 ELSE 1  BY <3>1, SmallSet
    <3> QED  BY <3>2, <3>3
  <2>6. Holders(x) = Cardinality(calls(x)) + Cardinality(box(x)) + Cardinality(hist(x))
    BY DEF Holders
  <2> HIDE DEF calls, box, hist
  <2> QED  BY <2>3, <2>4, <2>5, <2>6
<1>3. \A x \in Signals : Holders(x) <= 1
  <2> SUFFICES ASSUME NEW x \in Signals PROVE Holders(x) <= 1  OBVIOUS
  <2>1. Once(x)  BY DEF HeldOnce
  <2> QED  BY <1>2, <2>1 DEF Once
<1>4. {x \in Signals \ unsent : Holders(x) = 0} = {x \in Signals : Gone(x)}
  <2>1. \A x \in Signals : Holders(x) = 0 <=> ~Called(x) /\ ~Buffered(x) /\ ~Recorded(x)  BY <1>2
  <2> QED  BY <2>1 DEF Gone
<1> QED  BY <1>1, <1>3, <1>4 DEF SignalsKept, HeldOnce

(* Where one call is under way at a time, whatever crashes, fails to append*)
(* or is deployed: no signal lies buffered for a wait, none is used twice, *)
(* and each one lost is paid for by a call that died or a claim or an      *)
(* append that threw (workflow.ts:136-147, 295-299).                       *)
THEOREM SignalsHold ==
  ASSUME WorkflowAssumption
  PROVE  Spec => []SignalsSafe
<1> DEFINE SInv == IInv /\ (Alone => ReplayInv /\ Talk /\ HeldOnce)
<1>1. Init => SInv  BY InitInv, ReplayInit, TalkInit
<1>2. SInv /\ [Next]_vars => SInv'
  <2> SUFFICES ASSUME SInv, [Next]_vars PROVE SInv'  OBVIOUS
  <2>1. IInv'  BY NextInv
  <2>2. Alone' => Alone  BY CallersStay DEF Alone
  <2>3. Alone => ReplayInv' /\ Talk' /\ HeldOnce'
    BY ReplayStep, TalkStep, HeldStep DEF Ordered
  <2> QED  BY <2>1, <2>2, <2>3
<1>3. SInv => SignalsSafe  BY HeldBound DEF SignalsSafe
<1> QED  BY <1>1, <1>2, <1>3, PTL DEF Spec

-----------------------------------------------------------------------------
(* The durable run, where one call is under way at a time: no append fails *)
(* (a step that is tried again after an append that was applied goes on    *)
(* with a value nobody recorded), and no new body is shorter (it would end *)
(* before what is recorded).                                               *)
LEMMA NoThrows ==
  ASSUME WorkflowAssumption, MaxFaults = 0, IInv, NEW w \in Workers
  PROVE  ~Throws(w)
<1>1. faults \in 0 .. MaxFaults  BY InvParts DEF RestT
<1> QED  BY <1>1 DEF Throws, ConsumeThrows, CompleteThrows, Fault

BodiesGrow == \A u, v \in 1 .. Versions : u <= v => Len(Body[u]) <= Len(Body[v])

(* A drive has seen what is recorded, and is the first at its command.     *)
OnTrack(w) ==
  LET d == drive[w]
  IN Driving(d) \/ d.pc = "complete" =>
       /\ result = None
       /\ \A i \in 1 .. Len(d.seen) :
            i \in Positions /\ Completed(i) /\ events[i].value = d.seen[i]
       /\ \A i \in Positions : events[i] # None => i <= Len(Body[d.version])
       /\ d.pc = "complete" => Len(d.seen) = Len(Body[d.version])
       /\ AtCommand(d) => events[Here(d)] = None

Within == \A i \in Positions : events[i] # None => i <= Len(Body[deployed])

Finished ==
  result # None =>
    /\ status = "completed"
    /\ \A w \in callers : drive[w].pc \in {"idle", "getRun", "send", "buffer"}
    /\ \A i \in Positions : events[i] # None => Completed(i)

DInv == (\A w \in Workers : OnTrack(w)) /\ Within /\ Finished

LEMMA ResultMoves ==
  ASSUME NEW w \in callers, StepOf(w), ~Throws(w)
  PROVE  UNCHANGED <<result, deployed>> \/ (Complete(w) /\ UNCHANGED deployed)
<1>1. CASE Start(w) \/ Resume(w) \/ Tick(w) \/ (\E x \in unsent : Signal(w, x)) \/ Crash(w)
  BY <1>1 DEF Start, Resume, Tick, Signal, Crash, run, world
<1>2. CASE Complete(w)  BY <1>2 DEF Complete, world
<1>3. CASE Step(w) /\ ~Complete(w)
  BY <1>3 DEF Step, Throws, GetRun, Begin, Load, Work, WorkThrows, Consume, AppendEvent, AppendThrows,
    Fault, Suspend, Fail, Send, Buffer, CompleteEvent, run, world
<1> QED  BY <1>1, <1>2, <1>3 DEF StepOf

LEMMA OnTrackOwn ==
  ASSUME WorkflowAssumption, MaxFaults = 0, BodiesGrow, IInv, ReplayInv, Alone, DInv,
         [Next]_vars, NEW w \in callers, StepOf(w)
  PROVE  OnTrack(w)'
<1> DEFINE d == drive[w]
           e == drive'[w]
<1>0. DriveT /\ EventsT /\ RestT /\ w \in Workers  BY InvParts DEF DriveT
<1>1. drive \in [Workers -> Locals] /\ d \in Locals  BY <1>0 DEF DriveT
<1>2. OnTrack(w) /\ Within /\ Finished  BY <1>0 DEF DInv
<1>3. CASE Leaves(w)  BY <1>3 DEF Leaves, OnTrack
<1>4. CASE Enters(w)
  <2>1. UNCHANGED <<events, result>> /\ e.pc \in {"begin", "load"}  BY <1>4 DEF Enters
  <2>2. CASE /\ status # "completed" /\ e.version = deployed /\ e.seen = <<>>
    <3>1. result = None  BY <1>2, <2>2 DEF Finished
    <3> QED  BY <1>2, <2>1, <2>2, <3>1 DEF OnTrack, Within, AtCommand
  <2>3. CASE At(w, "begin") /\ e.version = d.version /\ e.seen = d.seen
    BY <1>2, <2>1, <2>3 DEF OnTrack, At, Driving, AtCommand, Completed
  <2> QED  BY <1>4, <2>2, <2>3 DEF Enters
<1>5. CASE Load(w)
  <2>1. UNCHANGED <<events, result>> /\ d.seen = <<>> /\ Driving(d)
    BY <1>0, <1>5 DEF Load, At, ReplayInv, Located, run, Driving
  <2>2. /\ e.version = d.version
        /\ e.pc = "complete" => Len(e.seen) = Len(Body[e.version])
        /\ AtCommand(e) => events[Here(e)] = None
        /\ \A i \in 1 .. Len(e.seen) :
             events[i] # None /\ events[i].status = "completed" /\ e.seen[i] = events[i].value
    BY <1>0, <1>5, <2>1, LoadEffect
  <2>3. ASSUME Driving(e) \/ e.pc = "complete" PROVE 1 .. Len(e.seen) \subseteq Positions
    BY <1>0, <2>2, <2>3, SeenInPositions
  <2> QED  BY <1>2, <2>1, <2>2, <2>3 DEF OnTrack, Completed, Here
<1>6. CASE Work(w) \/ Consume(w)
  <2>1. UNCHANGED <<events, result>> /\ Driving(d) /\ AtCommand(d)
    BY <1>6 DEF Work, Consume, run, At, Driving, AtCommand
  <2>2. e.version = d.version /\ e.seen = d.seen /\ e.pc = "append"
    BY <1>0, <1>6, WorkEffect, ConsumeEffect
  <2> QED  BY <1>2, <2>1, <2>2 DEF OnTrack, Completed, Here
<1>7. CASE AppendEvent(w) /\ d.value = None
  <2>1. Goto(w, "suspend")  BY <1>7 DEF AppendEvent
  <2>2. e.pc = "suspend"  BY <1>0, <1>1, <2>1, GotoEffect
  <2> QED  BY <2>2 DEF OnTrack, Driving, AtCommand
<1>8. CASE AppendEvent(w) /\ d.value # None
  <2>1. UNCHANGED result /\ At(w, "append") /\ Record(d) /\ Driving(d) /\ AtCommand(d)
    BY <1>8 DEF AppendEvent, run, At, Driving, AtCommand
  <2>2. /\ e.version = d.version /\ Len(e.seen) \in Nat
        /\ e.pc = "complete" => Len(e.seen) = Len(Body[e.version])
        /\ Here(e) > Here(d)
        /\ \A i \in 1 .. Len(d.seen) : e.seen[i] = d.seen[i]
        /\ e.seen[Here(d)] = d.value
        /\ \A i \in Here(d) + 1 .. Len(e.seen) : d.past[i] # None
    BY <1>0, <1>8, AppendEffect
  <2>3. /\ Here(d) \in Positions /\ Here(d) = Len(d.seen) + 1 /\ Len(d.seen) \in Nat
        /\ Here(d) <= Len(Body[d.version]) /\ Command(d) \in [type : Types, name : Names]
    BY <1>0, <1>1, <2>1, AtPositions DEF Locals
  <2>4. events[Here(d)] = None /\ result = None  BY <1>2, <2>1 DEF OnTrack
  <2>5. events' = [events EXCEPT ![Here(d)] = Event(d)]
    BY <1>0, <2>1, <2>3, <2>4 DEF Record, EventsT, Histories
  <2>6. Event(d) \in Events /\ Event(d).status = "completed" /\ Event(d).value = d.value
    BY <1>1, <1>8, <2>3 DEF Event, Events, Locals
  <2>7. Event(d) # None  BY <2>6 DEF WorkflowAssumption
  <2>8. /\ events'[Here(d)] = Event(d)
        /\ \A i \in Positions \ {Here(d)} : events'[i] = events[i]
    BY <1>0, <2>3, <2>5 DEF EventsT, Histories
  <2>9. ASSUME Driving(e) \/ e.pc = "complete" PROVE 1 .. Len(e.seen) \subseteq Positions
    BY <1>0, <2>2, <2>9, SeenInPositions
  <2>10. \A i \in Positions : i > Here(d) => events[i] = None
    BY <2>3, <2>4 DEF ReplayInv, NoGaps, Completed
  <2>11. ASSUME Driving(e) \/ e.pc = "complete" PROVE Len(e.seen) = Here(d)
    <3>1. Here(e) = Len(e.seen) + 1  BY DEF Here
    <3>2. Len(e.seen) >= Here(d)
      <4>1. Len(e.seen) + 1 > Len(d.seen) + 1  BY <2>2, <2>3, <3>1
      <4> QED  BY <2>2, <2>3, <4>1
    <3>3. Len(e.seen) > Here(d) => FALSE
      <4> SUFFICES ASSUME Len(e.seen) > Here(d) PROVE FALSE  OBVIOUS
      <4>1. Here(d) + 1 \in Here(d) + 1 .. Len(e.seen) /\ Here(d) + 1 \in 1 .. Len(e.seen)
        BY <2>2, <2>3
      <4>2. d.past[Here(d) + 1] # None /\ Here(d) + 1 \in Positions  BY <2>2, <2>9, <2>11, <4>1
      <4>3. events[Here(d) + 1] # None  BY <1>0, <4>2 DEF ReplayInv, PastOK
      <4> QED  BY <2>3, <2>10, <4>2, <4>3
    <3> QED  BY <2>2, <2>3, <3>2, <3>3
  <2>12. ASSUME Driving(e) \/ e.pc = "complete", NEW i \in 1 .. Len(e.seen)
         PROVE  i \in Positions /\ Completed(i)' /\ events'[i].value = e.seen[i]
    <3>1. i \in Positions  BY <2>9, <2>12
    <3>2. CASE i = Here(d)  BY <2>2, <2>3, <2>6, <2>7, <2>8, <3>2 DEF Completed
    <3>3. CASE i \in 1 .. Len(d.seen)
      <4>1. Completed(i) /\ events[i].value = d.seen[i]  BY <1>2, <2>1, <3>3 DEF OnTrack
      <4>2. i # Here(d)  BY <2>3, <3>3
      <4> QED  BY <2>2, <2>8, <3>1, <3>3, <4>1, <4>2 DEF Completed
    <3>4. i = Here(d) \/ i \in 1 .. Len(d.seen)
      <4> DEFINE n == Len(d.seen)
                 h == Here(d)
      <4>1. n \in Nat /\ h = n + 1 /\ i \in 1 .. h  BY <2>3, <2>11, <2>12
      <4> HIDE DEF n, h
      <4>2. i = h \/ i \in 1 .. n  BY <4>1
      <4> QED  BY <4>2 DEF n, h
    <3> QED  BY <3>2, <3>3, <3>4
  <2>13. ASSUME NEW i \in Positions, events'[i] # None PROVE i <= Len(Body[e.version])
    BY <1>2, <2>1, <2>2, <2>3, <2>8, <2>13 DEF OnTrack
  <2>14. AtCommand(e) => events'[Here(e)] = None  BY <1>8, AppendOpens
  <2> QED  BY <2>1, <2>2, <2>4, <2>12, <2>13, <2>14 DEF OnTrack, Here
<1>9. CASE TriesAgain(w)
  <2>1. faults \in 0 .. MaxFaults /\ faults' \in 0 .. MaxFaults
    BY NextInv DEF IInv, TypeOK
  <2>2. At(w, "work") /\ UNCHANGED events  BY <1>9, <2>1 DEF TriesAgain
  <2>3. ~Complete(w)  BY <2>2 DEF Complete, At
  <2>4. UNCHANGED result  BY <1>0, <2>3, NoThrows, ResultMoves
  <2> QED  BY <1>2, <1>9, <2>2, <2>4 DEF OnTrack, TriesAgain, At, Driving, AtCommand, Completed, Here
<1> QED  BY <1>3, <1>4, <1>5, <1>6, <1>7, <1>8, <1>9, Moves

(* The history moves at one position.                                      *)
LEMMA OnePosition ==
  ASSUME WorkflowAssumption, IInv, NEW w \in callers, StepOf(w)
  PROVE  \/ UNCHANGED events
         \/ At(w, "append") /\ \A j \in Positions : j # Here(drive[w]) => events'[j] = events[j]
         \/ /\ At(w, "deliver") \/ At(w, "fire")
            /\ \A j \in Positions : j # drive[w].seq => events'[j] = events[j]
<1>1. CASE At(w, "append")
  BY <1>1, EventMoves DEF Records, Completes, CompleteEvent, At
<1>2. CASE CompleteEvent(w)
  BY <1>2, EventMoves DEF Records, Completes, CompleteEvent, At
<1> QED  BY <1>1, <1>2, Moves

LEMMA FinishedOwn ==
  ASSUME WorkflowAssumption, MaxFaults = 0, IInv, ReplayInv, Alone, Talk, DInv,
         NEW w \in callers, StepOf(w), UNCHANGED callers
  PROVE  Finished'
<1> DEFINE d == drive[w]
           e == drive'[w]
           Calm(l) == l.pc \in {"idle", "getRun", "send", "buffer"}
<1>0. w \in Workers /\ drive \in [Workers -> Locals] /\ d \in Locals  BY InvParts DEF DriveT
<1>t. ~Throws(w)  BY <1>0, NoThrows
<1>1. \A u \in callers : u = w  BY DEF Alone
<1>2. CASE Complete(w)
  <2>1. At(w, "complete") /\ UNCHANGED events /\ status' = "completed" /\ e.pc = "idle"
    BY <1>0, <1>2, BecomeEffect DEF Complete, Return, Idle
  <2>2. ASSUME NEW i \in Positions, events[i] # None PROVE Completed(i)
    <3>1. /\ i <= Len(Body[d.version]) /\ Len(d.seen) = Len(Body[d.version])
          /\ \A j \in 1 .. Len(d.seen) : Completed(j)
      BY <1>0, <2>1, <2>2 DEF DInv, OnTrack, At
    <3>2. i \in Nat /\ i >= 1 /\ Len(d.seen) \in Nat  BY <1>0, PositionsBound DEF Locals
    <3> QED  BY <3>1, <3>2
  <2> QED  BY <1>1, <2>1, <2>2 DEF Finished, Completed
<1>3. CASE UNCHANGED result /\ result # None
  <2>1. /\ status = "completed" /\ Calm(d)
        /\ \A i \in Positions : events[i] # None => Completed(i)
    BY <1>3 DEF DInv, Finished
  <2>2. status # None  BY <2>1 DEF WorkflowAssumption, Statuses
  <2>3. UNCHANGED events  BY <2>1, OnePosition DEF At
  <2>4. Pending("signal") = {} /\ Pending("sleep") = {}  BY <2>1 DEF Pending, Completed
  <2>5. ~Tick(w)  BY ZenonT(30), <2>4 DEF Tick
  <2>6. StepOf(w) => Start(w) \/ Resume(w) \/ (\E x \in unsent : Signal(w, x)) \/ GetRun(w)
                       \/ Send(w) \/ Buffer(w) \/ Crash(w)
    BY ZenonT(30), <1>t, <2>1, <2>5 DEF StepOf, Step, Throws, Start, Resume, Signal, GetRun, Begin, Load, Work, WorkThrows, Consume,
      AppendEvent, AppendThrows, Suspend, Complete, Fail, CompleteEvent, At
  <2>7. UNCHANGED status /\ Calm(e)
    <3>1. CASE Start(w) \/ Resume(w)
      <4>1. Goto(w, "getRun") /\ UNCHANGED status  BY <2>2, <3>1 DEF Start, Resume, run
      <4> QED  BY <1>0, <4>1, GotoEffect
    <3>2. ASSUME NEW x \in unsent, Signal(w, x) PROVE UNCHANGED status /\ Calm(e)
      <4>1. Quiet(w)  BY <1>0 DEF Talk
      <4>2. e.pc = "send"  BY <3>2, <4>1, OwnCall
      <4> QED  BY <3>2, <4>2 DEF Signal, run
    <3>3. CASE GetRun(w) \/ Buffer(w) \/ Crash(w)
      <4>1. Return(w) /\ UNCHANGED status  BY <2>1, <3>3 DEF GetRun, Buffer, Crash, run
      <4>2. Idle.pc = "idle"  BY DEF Idle
      <4> QED  BY <1>0, <4>1, <4>2, BecomeEffect DEF Return
    <3>4. CASE Send(w)
      <4>1. Goto(w, "buffer") /\ UNCHANGED status  BY <2>4, <3>4 DEF Send, run
      <4> QED  BY <1>0, <4>1, GotoEffect
    <3> QED  BY <2>6, <3>1, <3>2, <3>3, <3>4
  <2> QED  BY <1>1, <2>1, <2>3, <2>7 DEF Finished, Completed
<1>4. CASE UNCHANGED result /\ result = None  BY <1>4 DEF Finished
<1> QED  BY <1>2, <1>3, <1>4, <1>t, ResultMoves

LEMMA BodyLengths ==
  ASSUME WorkflowAssumption, NEW v \in 1 .. Versions
  PROVE  Len(Body[v]) \in Nat
BY DEF WorkflowAssumption

LEMMA DurableStep ==
  ASSUME WorkflowAssumption, MaxFaults = 0, BodiesGrow, IInv, ReplayInv, Alone, Talk, DInv, [Next]_vars
  PROVE  DInv'
<1>1. UNCHANGED callers  BY CallersStay
<1>2. ASSUME NEW w \in callers, StepOf(w) PROVE DInv'
  <2>0. w \in Workers /\ drive[w] \in Locals  BY InvParts DEF DriveT
  <2>1. ASSUME NEW u \in Workers \ {w} PROVE OnTrack(u)'
    <3>1. drive'[u] = drive[u]  BY <1>2, Moves
    <3>2. drive[u].pc = "idle"
      <4>1. u \notin callers  BY DEF Alone
      <4> QED  BY <4>1, InvParts DEF DriveT, Sound
    <3> QED  BY <3>1, <3>2 DEF OnTrack, Driving, AtCommand
  <2>2. OnTrack(w)'  BY <1>2, OnTrackOwn
  <2>3. Finished'  BY <1>1, <1>2, FinishedOwn
  <2>4. UNCHANGED deployed  BY <1>2, <2>0, NoThrows, ResultMoves
  <2>5. ASSUME NEW i \in Positions, events'[i] # None PROVE i <= Len(Body[deployed])
    <3>1. CASE events[i] # None  BY <3>1 DEF DInv, Within
    <3>2. CASE Records(w, i)
      <4>1. i = Here(drive[w]) /\ Driving(drive[w])  BY <3>2 DEF Records, At, Driving, AtCommand
      <4>2. i <= Len(Body[drive[w].version])  BY <2>0, <4>1, AtPositions
      <4>3. drive[w].version <= deployed  BY <2>0, InvParts DEF DriveT, DriveOK
      <4>4. drive[w].version \in 1 .. Versions /\ deployed \in 1 .. Versions
        BY <2>0, InvParts DEF Locals, RestT
      <4>5. Len(Body[drive[w].version]) <= Len(Body[deployed])  BY <4>3, <4>4 DEF BodiesGrow
      <4>6. Len(Body[drive[w].version]) \in Nat /\ Len(Body[deployed]) \in Nat /\ i \in Nat
        <5>1. i \in Nat  BY PositionsBound
        <5> QED  BY <4>4, <5>1, BodyLengths
      <4> QED  BY <4>2, <4>5, <4>6
    <3> QED  BY <1>2, <2>5, <3>1, <3>2, EventMoves DEF Completes
  <2> QED  BY <2>1, <2>2, <2>3, <2>4, <2>5 DEF DInv, Within
<1>3. CASE /\ UNCHANGED <<drive, events, status, result>>
           /\ deployed' = deployed \/ (deployed < Versions /\ deployed' = deployed + 1)
  <2>1. \A w \in Workers : OnTrack(w)'
    BY <1>3 DEF DInv, OnTrack, Driving, AtCommand, Completed, Here
  <2>2. Finished'  BY <1>1, <1>3 DEF DInv, Finished, Completed
  <2>3. Within'
    <3> SUFFICES ASSUME NEW i \in Positions, events[i] # None PROVE i <= Len(Body[deployed'])
      BY <1>3 DEF Within
    <3>1. i <= Len(Body[deployed])  BY DEF DInv, Within
    <3>2. deployed \in 1 .. Versions /\ deployed' \in 1 .. Versions /\ deployed <= deployed'
      BY <1>3, InvParts DEF RestT, WorkflowAssumption
    <3>3. Len(Body[deployed]) <= Len(Body[deployed'])  BY <3>2 DEF BodiesGrow
    <3>4. Len(Body[deployed]) \in Nat /\ Len(Body[deployed']) \in Nat /\ i \in Nat
      <4>1. i \in Nat  BY PositionsBound
      <4> QED  BY <3>2, <4>1, BodyLengths
    <3> QED  BY <3>1, <3>3, <3>4
  <2> QED  BY <2>1, <2>2, <2>3 DEF DInv
<1> QED  BY <1>2, <1>3, NextParts

LEMMA DurableInit == WorkflowAssumption /\ Init => DInv
<1> SUFFICES ASSUME WorkflowAssumption, Init PROVE DInv  OBVIOUS
<1>1. \A w \in Workers : drive[w].pc = "idle"  BY DEF Init, Idle
<1>2. result = None /\ \A i \in Positions : events[i] = None  BY DEF Init
<1> QED  BY <1>1, <1>2 DEF DInv, OnTrack, Within, Finished, Driving, AtCommand

(* CommittedValues, of any history.                                        *)
Full(h, i) == h[i] # None /\ h[i].status = "completed"
CommittedOf(h) ==
  LET n == Max({m \in 0 .. Max(Positions) : \A i \in 1 .. m : Full(h, i)})
  IN [i \in 1 .. n |-> h[i].value]

LEMMA CommittedPrefix ==
  ASSUME WorkflowAssumption, NEW h, NEW k \in Nat, 1 .. k \subseteq Positions,
         \A i \in 1 .. k : Full(h, i), k + 1 \in Positions => ~Full(h, k + 1)
  PROVE  CommittedOf(h) = [i \in 1 .. k |-> h[i].value]
<1> DEFINE M == {m \in 0 .. Max(Positions) : \A i \in 1 .. m : Full(h, i)}
<1>1. PICK n \in Nat : Positions = 1 .. n  BY PositionsBound
<1>2. 1 \in Positions  BY IdleLocals DEF Locals, Idle
<1>3. Max(Positions) = n
  <2>1. Positions \in SUBSET (1 .. n) /\ Positions # {}  BY <1>1, <1>2
  <2>2. Max(Positions) \in Positions /\ \A i \in Positions : i <= Max(Positions)
    BY <1>1, <2>1, MaxBetween
  <2>3. n \in Positions  BY <1>1, <1>2
  <2> QED  BY <1>1, <2>2, <2>3
<1>4. k \in M
  <2>1. k <= n  BY <1>1
  <2> QED  BY <1>3, <2>1
<1>5. M \in SUBSET (0 .. n) /\ M # {}  BY <1>3, <1>4
<1>6. Max(M) \in M /\ \A m \in M : m <= Max(M)
  <2> HIDE DEF M
  <2> QED  BY <1>5, MaxBetween
<1>7. Max(M) = k
  <2>1. Max(M) \in 0 .. n /\ \A i \in 1 .. Max(M) : Full(h, i)  BY <1>3, <1>6
  <2> DEFINE b == Max(M)
  <2> HIDE DEF b, M
  <2>2. b \in 0 .. n /\ (\A i \in 1 .. b : Full(h, i)) /\ k <= b  BY <1>4, <1>6, <2>1 DEF b
  <2>3. b > k => FALSE
    <3> SUFFICES ASSUME b > k PROVE FALSE  OBVIOUS
    <3>1. k + 1 \in 1 .. b /\ k + 1 \in 1 .. n  BY <2>2
    <3> QED  BY <1>1, <2>2, <3>1
  <2>4. b = k  BY <2>2, <2>3
  <2> QED  BY <2>4 DEF b
<1>8. CommittedOf(h) = [i \in 1 .. Max(M) |-> h[i].value]  BY DEF CommittedOf
<1> HIDE DEF M
<1> QED  BY <1>7, <1>8

LEMMA CommittedNow == CommittedValues = CommittedOf(events) /\ CommittedValues' = CommittedOf(events')
BY DEF CommittedValues, CommittedOf, Completed, Full

(* How far a history without gaps is committed.                            *)
LEMMA CommittedUpTo ==
  ASSUME WorkflowAssumption, NEW h
  PROVE  \E k \in Nat : /\ 1 .. k \subseteq Positions /\ \A i \in 1 .. k : Full(h, i)
                        /\ k + 1 \in Positions => ~Full(h, k + 1)
<1> DEFINE M == {m \in 0 .. Max(Positions) : \A i \in 1 .. m : Full(h, i)}
<1>1. PICK n \in Nat : Positions = 1 .. n  BY PositionsBound
<1>2. 1 \in Positions  BY IdleLocals DEF Locals, Idle
<1>3. Max(Positions) = n
  <2>1. Positions \in SUBSET (1 .. n) /\ Positions # {}  BY <1>1, <1>2
  <2>2. Max(Positions) \in Positions /\ \A i \in Positions : i <= Max(Positions)
    BY <1>1, <2>1, MaxBetween
  <2>3. n \in Positions  BY <1>1, <1>2
  <2> QED  BY <1>1, <2>2, <2>3
<1>4. 0 \in M  BY <1>3
<1>5. M \in SUBSET (0 .. n) /\ M # {}  BY <1>3, <1>4
<1>6. Max(M) \in M /\ \A m \in M : m <= Max(M)
  <2> HIDE DEF M
  <2> QED  BY <1>5, MaxBetween
<1> DEFINE b == Max(M)
<1>7. b \in 0 .. n /\ \A i \in 1 .. b : Full(h, i)  BY <1>3, <1>6
<1>8. \A m \in 0 .. n : (\A i \in 1 .. m : Full(h, i)) => m <= b  BY <1>3, <1>6
<1> HIDE DEF b, M
<1>9. b + 1 \in Positions => ~Full(h, b + 1)
  <2> SUFFICES ASSUME b + 1 \in Positions, Full(h, b + 1) PROVE FALSE  OBVIOUS
  <2>1. b + 1 \in 0 .. n /\ \A i \in 1 .. b + 1 : i = b + 1 \/ i \in 1 .. b  BY <1>1, <1>7
  <2>2. b + 1 <= b  BY <1>7, <1>8, <2>1
  <2> QED  BY <1>7, <2>2
<1>10. b \in Nat /\ 1 .. b \subseteq Positions  BY <1>1, <1>7
<1> QED  BY <1>7, <1>9, <1>10

LEMMA StepsDurably ==
  ASSUME WorkflowAssumption, MaxFaults = 0, IInv, IInv', ReplayInv, ReplayInv', Alone, DInv, HistoryKept,
         NEW w \in callers, StepOf(w)
  PROVE  \/ UNCHANGED <<result, CommittedValues>>
         \/ /\ result = None /\ UNCHANGED result
            /\ Len(CommittedValues') = Len(CommittedValues) + 1
            /\ SubSeq(CommittedValues', 1, Len(CommittedValues)) = CommittedValues
         \/ result = None /\ result' = CommittedValues /\ UNCHANGED CommittedValues
<1> DEFINE d == drive[w]
<1>0. w \in Workers /\ d \in Locals /\ events \in Histories  BY InvParts DEF DriveT, EventsT
<1>1. CASE Complete(w)
  <2>1. At(w, "complete") /\ UNCHANGED events /\ result' = d.seen  BY <1>1 DEF Complete
  <2>2. /\ result = None /\ Len(d.seen) = Len(Body[d.version])
        /\ \A i \in 1 .. Len(d.seen) : i \in Positions /\ Completed(i) /\ events[i].value = d.seen[i]
        /\ \A i \in Positions : events[i] # None => i <= Len(Body[d.version])
    BY <1>0, <2>1 DEF DInv, OnTrack, At
  <2>3. Len(d.seen) \in Nat /\ d.seen \in Seq(Values)  BY <1>0 DEF Locals
  <2>4. Len(d.seen) + 1 \in Positions => ~Full(events, Len(d.seen) + 1)
    BY <2>2, <2>3 DEF Full
  <2>5. CommittedOf(events) = [i \in 1 .. Len(d.seen) |-> events[i].value]
    <3>1. 1 .. Len(d.seen) \subseteq Positions /\ \A i \in 1 .. Len(d.seen) : Full(events, i)
      BY <2>2 DEF Full, Completed
    <3> QED  BY <2>3, <2>4, <3>1, CommittedPrefix
  <2>6. [i \in 1 .. Len(d.seen) |-> events[i].value] = d.seen  BY SMTT(30), <2>2, <2>3
  <2> QED  BY <2>1, <2>2, <2>5, <2>6, CommittedNow
<1>2. CASE UNCHANGED result /\ \A i \in Positions : Completed(i)' => Completed(i)
  <2>1. PICK k \in Nat : /\ 1 .. k \subseteq Positions /\ \A i \in 1 .. k : Full(events, i)
                         /\ k + 1 \in Positions => ~Full(events, k + 1)
    BY CommittedUpTo
  <2>2. \A i \in 1 .. k : events'[i] = events[i]  BY <2>1 DEF HistoryKept, Completed, Full
  <2>3. /\ \A i \in 1 .. k : Full(events', i)
        /\ k + 1 \in Positions => ~Full(events', k + 1)
    BY <1>2, <2>1, <2>2 DEF Full, Completed
  <2>4. CommittedOf(events) = [i \in 1 .. k |-> events[i].value]  BY <2>1, CommittedPrefix
  <2>5. CommittedOf(events') = [i \in 1 .. k |-> events'[i].value]  BY <2>1, <2>3, CommittedPrefix
  <2>6. CommittedOf(events') = CommittedOf(events)  BY <2>2, <2>4, <2>5
  <2> QED  BY <1>2, <2>6, CommittedNow
<1>3. ASSUME UNCHANGED result, NEW s \in Positions, Completed(s)', ~Completed(s)
      PROVE  /\ result = None
             /\ Len(CommittedValues') = Len(CommittedValues) + 1
             /\ SubSeq(CommittedValues', 1, Len(CommittedValues)) = CommittedValues
  <2>1. events'[s] # events[s]  BY <1>3 DEF Completed
  <2>2. \A j \in Positions : j # s => events'[j] = events[j]  BY <1>3, <2>1, OnePosition
  <2>3. result = None
    <3>1. d.pc \in {"append", "deliver", "fire"}  BY <2>1, OnePosition DEF At
    <3> QED  BY <3>1 DEF DInv, Finished
  <2>4. PICK n \in Nat : Positions = 1 .. n  BY PositionsBound
  <2>5. \A j \in Positions : j < s => Completed(j) /\ Completed(j)'
    <3> SUFFICES ASSUME NEW j \in Positions, j < s PROVE Completed(j) /\ Completed(j)'  OBVIOUS
    <3>1. Completed(j)'  BY <1>3 DEF ReplayInv, NoGaps, Completed
    <3>2. events'[j] = events[j]  BY <2>2, <2>4
    <3> QED  BY <3>1, <3>2 DEF Completed
  <2>6. \A j \in Positions : j > s => events'[j] = None
    <3> SUFFICES ASSUME NEW j \in Positions, j > s, events'[j] # None PROVE FALSE  OBVIOUS
    <3>1. events[j] # None  BY <2>2, <2>4
    <3>2. s < j  BY <2>4
    <3> QED  BY <1>3, <3>1, <3>2 DEF ReplayInv, NoGaps
  <2> DEFINE k == s - 1
  <2>7. k \in Nat /\ 1 .. k \subseteq Positions /\ s = k + 1 /\ 1 .. s \subseteq Positions /\ s \in Nat
    BY <2>4
  <2>8. CommittedOf(events) = [i \in 1 .. k |-> events[i].value]
    <3>1. \A i \in 1 .. k : Full(events, i)  BY <2>5, <2>7 DEF Full, Completed
    <3>2. ~Full(events, k + 1)  BY <1>3, <2>7 DEF Full, Completed
    <3> QED  BY <2>7, <3>1, <3>2, CommittedPrefix
  <2>9. CommittedOf(events') = [i \in 1 .. s |-> events'[i].value]
    <3>1. \A i \in 1 .. s : Full(events', i)
      <4> SUFFICES ASSUME NEW i \in 1 .. s PROVE Full(events', i)  OBVIOUS
      <4>1. i \in Positions /\ (i = s \/ i < s)  BY <2>7
      <4> QED  BY <1>3, <2>5, <4>1 DEF Full, Completed
    <3>2. s + 1 \in Positions => ~Full(events', s + 1)  BY <2>4, <2>6 DEF Full
    <3> QED  BY <2>7, <3>1, <3>2, CommittedPrefix
  <2>10. \A i \in 1 .. k : events'[i] = events[i]  BY <2>2, <2>7
  <2> DEFINE c == [i \in 1 .. k |-> events[i].value]
             f == [i \in 1 .. s |-> events'[i].value]
             S == {events'[i].value : i \in 1 .. s}
  <2>11. c \in Seq(S) /\ Len(c) = k
    <3>1. \A i \in 1 .. k : events[i].value \in S  BY <2>7, <2>10
    <3> HIDE DEF S
    <3> QED  BY <2>7, <3>1
  <2>12. f \in Seq(S) /\ Len(f) = s
    <3>1. \A i \in 1 .. s : events'[i].value \in S  OBVIOUS
    <3> HIDE DEF S
    <3> QED  BY <2>7, <3>1
  <2>13. \A i \in 1 .. k : f[i] = c[i]  BY <2>7, <2>10
  <2> HIDE DEF c, f, S, k
  <2>14. SubSeq(f, 1, k) = c  BY <2>7, <2>11, <2>12, <2>13
  <2> QED  BY <2>3, <2>7, <2>8, <2>9, <2>11, <2>12, <2>14, CommittedNow DEF c, f
<1> QED  BY <1>0, <1>1, <1>2, <1>3, NoThrows, ResultMoves

(* One call at a time, whatever crashes or is deployed in between, commands*)
(* commit once and in order, and the result is computed from exactly the   *)
(* committed values: the workflow implements a durable run, where appends  *)
(* do not fail and no version of the body is shorter than the one before.  *)
THEOREM RunsDurably ==
  ASSUME WorkflowAssumption, MaxFaults = 0, BodiesGrow
  PROVE  Spec => ImplementsDurableRun
<1> DEFINE RunInv == IInv /\ (Alone => ReplayInv /\ Talk /\ DInv)
<1>1. Init => RunInv  BY InitInv, ReplayInit, TalkInit, DurableInit
<1>2. Init => Durable!Init
  <2> SUFFICES ASSUME Init PROVE Durable!Init  OBVIOUS
  <2>1. result = None /\ \A i \in Positions : ~Full(events, i)  BY DEF Init, Full
  <2>2. CommittedOf(events) = [i \in 1 .. 0 |-> events[i].value]
    <3>1. 0 \in Nat /\ 1 .. 0 \subseteq Positions /\ \A i \in 1 .. 0 : Full(events, i)  OBVIOUS
    <3>2. 0 + 1 \in Positions => ~Full(events, 0 + 1)  BY <2>1
    <3> QED  BY <3>1, <3>2, CommittedPrefix
  <2>3. CommittedValues = <<>>  BY <2>2, CommittedNow
  <2> QED  BY <2>1, <2>3 DEF Durable!Init
<1>3. RunInv /\ [Next]_vars => RunInv' /\ [Durable!Next]_(Durable!vars)
  <2> SUFFICES ASSUME RunInv, [Next]_vars PROVE RunInv' /\ [Durable!Next]_(Durable!vars)  OBVIOUS
  <2>1. IInv' /\ (Alone => HistoryKept \/ UNCHANGED vars)  BY NextInv
  <2>2. Alone' <=> Alone  BY CallersStay DEF Alone
  <2>3. Alone => ReplayInv' /\ Talk' /\ DInv'  BY ReplayStep, TalkStep, DurableStep DEF Ordered
  <2>4. CASE ~Alone  BY <2>1, <2>2, <2>4 DEF Durable!vars
  <2>5. CASE Alone
    <3>1. CASE UNCHANGED <<events, result>>
      <4>1. UNCHANGED CommittedValues  BY <3>1, CommittedNow
      <4> QED  BY <2>1, <2>2, <2>3, <2>5, <3>1, <4>1 DEF Durable!vars
    <3>2. ASSUME NEW w \in callers, StepOf(w) PROVE [Durable!Next]_(Durable!vars)
      <4>1. HistoryKept  BY <2>1, <2>5, <3>1 DEF vars, HistoryKept
      <4>2. \/ UNCHANGED <<result, CommittedValues>>
            \/ /\ result = None /\ UNCHANGED result
               /\ Len(CommittedValues') = Len(CommittedValues) + 1
               /\ SubSeq(CommittedValues', 1, Len(CommittedValues)) = CommittedValues
            \/ result = None /\ result' = CommittedValues /\ UNCHANGED CommittedValues
        BY <2>1, <2>3, <2>5, <3>2, <4>1, StepsDurably
      <4> QED
        BY <2>2, <2>5, <4>2 DEF Durable!Next, Durable!Commit, Durable!Finish, Durable!vars
    <3>3. RunInv'  BY <2>1, <2>3, <2>5
    <3> QED  BY <3>1, <3>2, <3>3, NextParts
  <2> QED  BY <2>4, <2>5
<1> QED  BY <1>1, <1>2, <1>3, PTL DEF Spec, ImplementsDurableRun, Durable!Spec
=============================================================================
