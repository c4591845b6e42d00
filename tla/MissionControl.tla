--------------------------- MODULE MissionControl ---------------------------
(***************************************************************************)
(* Mission Control (packages/dashboard): a page that shows the ledger of   *)
(* the SDK and decides on the actions that wait for approval.              *)
(*                                                                         *)
(* Every open tab asks the server for overviews, runs and approvals and    *)
(* hears pulses on an event stream.  The server reads the ledger when it   *)
(* answers; the tab uses the answer when it arrives, in any order, and     *)
(* in whatever view it is by then.  A decision is an update of the row.    *)
(* Of the SDK only what follows a decision is here (see ActionRun), with   *)
(* one caller per action at a time.                                        *)
(***************************************************************************)
EXTENDS Integers, Sequences, FiniteSets, SequencesExt

CONSTANTS
  Actions,
  Tabs,
  ListRows,         \* runs in an answer to /api/runs
  FeedRows,         \* rows the live feed keeps
  MaxMoves,         \* bound: times a tab goes to a view
  MaxPushes,        \* bound: events on their way to a tab, pulses being computed
  MaxDrops          \* bound: streams that break

MissionAssumption ==
  {ListRows, FeedRows, MaxPushes} \subseteq Nat \ {0} /\ {MaxMoves, MaxDrops} \subseteq Nat

VARIABLES
  rows,             \* the actions of the ledger, newest first
  status,           \* [action -> its status]
  beats,            \* pulses that are being computed
  screen,           \* per tab: what it shows and has shown
  moves,            \* per tab: how often it went to a view
  due,              \* per tab: answers and timers to come; two that say the same are one
  posts,            \* per tab: decisions on their way to the server
  stream,           \* per tab: its event stream
  drops,
  done              \* history: [action -> how often its work was done]

missionVars == <<rows, status, beats, screen, moves, due, posts, stream, drops, done>>
ledgerVars == <<rows, status, done>>
tabVars == <<screen, moves, due, posts>>

Views == {"overview", "approvals"}

(* A tab whose boot() found an empty ledger: it shows the overview.        *)
Init ==
  /\ rows = <<>> /\ status = [a \in Actions |-> "none"] /\ done = [a \in Actions |-> 0]
  /\ beats = {}
  /\ screen = [t \in Tabs |-> [view |-> "overview", stage |-> "overview", badge |-> 0,
                               feed |-> <<>>, seen |-> {}, cards |-> {}]]
  /\ moves = [t \in Tabs |-> 0] /\ due = [t \in Tabs |-> {}] /\ posts = [t \in Tabs |-> {}]
  /\ stream = [t \in Tabs |-> [up |-> TRUE, pushes |-> <<>>]]
  /\ drops = 0

Awaiting == {a \in Actions : status[a] = "awaiting_approval"}
Firsts(n, s) == SubSeq(s, 1, IF n < Len(s) THEN n ELSE Len(s))

(* What the server reads for an answer: the overview, runs, approvals.     *)
Badges == [kind |-> "badges", awaiting |-> Cardinality(Awaiting)]
Runs(kind) == [kind |-> kind, runs |-> Firsts(ListRows, rows)]
Approvals == [kind |-> "cards", ids |-> Awaiting]

Show(t, s) == screen' = [screen EXCEPT ![t] = s]
Expect(t, answers) == due' = [due EXCEPT ![t] = @ \cup answers]

-----------------------------------------------------------------------------
(* The ledger: run() parks an action, and once it is approved does its     *)
(* work, however often that happens.                                       *)
Park(a) ==
  /\ status[a] = "none"
  /\ status' = [status EXCEPT ![a] = "awaiting_approval"]
  /\ rows' = <<a>> \o rows
  /\ UNCHANGED <<done, beats, tabVars, stream, drops>>

Resume(a) ==
  /\ status[a] = "approved"
  /\ status' = [status EXCEPT ![a] = "running"]
  /\ UNCHANGED <<rows, done, beats, tabVars, stream, drops>>

Finish(a) ==
  /\ status[a] = "running"
  /\ status' = [status EXCEPT ![a] = "succeeded"]
  /\ done' = [done EXCEPT ![a] = @ + 1]
  /\ UNCHANGED <<rows, beats, tabVars, stream, drops>>

-----------------------------------------------------------------------------
(* broadcast(): to every client whose stream is open.                      *)
Listening == {t \in Tabs : stream[t].up}
Broadcast(event) ==
  /\ \A t \in Listening : Len(stream[t].pushes) < MaxPushes
  /\ stream' = [t \in Tabs |-> IF stream[t].up THEN [stream[t] EXCEPT !.pushes = Append(@, event)]
                               ELSE stream[t]]

(* The heartbeat: the overview is read, and sent once it is there.  A      *)
(* slow one is overtaken by the next.                                      *)
Heartbeat ==
  /\ Listening # {} /\ Cardinality(beats) < MaxPushes
  /\ beats' = beats \cup {[Badges EXCEPT !.kind = "pulse"]}
  /\ UNCHANGED <<ledgerVars, tabVars, stream, drops>>

Pulse ==
  /\ \E event \in beats : Broadcast(event) /\ beats' = beats \ {event}
  /\ UNCHANGED <<ledgerVars, tabVars, drops>>

(* decide(): the row gets the status, whatever it has.                     *)
Update(post) == status' = [status EXCEPT ![post.id] = post.verdict]
Decide(t) ==
  \E post \in posts[t] :
    /\ Update(post)
    /\ Broadcast([kind |-> "approval"])
    /\ posts' = [posts EXCEPT ![t] = @ \ {post}]
    /\ Expect(t, {[kind |-> "decided", id |-> post.id]})
    /\ UNCHANGED <<rows, done, beats, screen, moves, drops>>

(* A stream breaks with what was on it; EventSource opens it again.        *)
Drop(t) ==
  /\ stream[t].up /\ drops < MaxDrops
  /\ drops' = drops + 1
  /\ stream' = [stream EXCEPT ![t] = [up |-> FALSE, pushes |-> <<>>]]
  /\ UNCHANGED <<ledgerVars, beats, tabVars>>

Reconnect(t) ==
  /\ ~stream[t].up
  /\ stream' = [stream EXCEPT ![t].up = TRUE]
  /\ UNCHANGED <<ledgerVars, beats, tabVars, drops>>

-----------------------------------------------------------------------------
(* A click in the navigation: go() renders the view and asks for its data. *)
RenderOverview(s) == [s EXCEPT !.stage = "overview", !.feed = <<>>, !.cards = {}]
RenderApprovals(s) == [s EXCEPT !.stage = "approvals", !.feed = <<>>, !.cards = {}]
Go(t, view) ==
  /\ moves[t] < MaxMoves /\ moves' = [moves EXCEPT ![t] = @ + 1]
  /\ CASE view = "overview" -> Show(t, [RenderOverview(screen[t]) EXCEPT !.view = view])
                               /\ Expect(t, {Runs("paint")})
       [] view = "approvals" -> Show(t, [RenderApprovals(screen[t]) EXCEPT !.view = view])
                                /\ Expect(t, {Approvals})
  /\ UNCHANGED <<ledgerVars, beats, posts, stream, drops>>

(* A click on a card, which then takes no other.                           *)
Click(t) ==
  /\ \E a \in screen[t].cards, verdict \in {"approved", "rejected"} :
       /\ posts' = [posts EXCEPT ![t] = @ \cup {[id |-> a, verdict |-> verdict]}]
       /\ Show(t, [screen[t] EXCEPT !.cards = @ \ {a}])
  /\ UNCHANGED <<ledgerVars, beats, moves, due, stream, drops>>

(* mergeFeed(): runs not seen before are put on top, newest first.         *)
MergeFeed(s, runs) ==
  IF s.stage # "overview" THEN s
  ELSE LET fresh == SelectSeq(runs, LAMBDA r : r \notin s.seen)
       IN [s EXCEPT !.seen = @ \cup ToSet(fresh), !.feed = Firsts(FeedRows, fresh \o @)]

(* A faulty PaintFeed: what it paints does not count as seen.              *)
PaintFeedUnseen(s, runs) == IF s.stage # "overview" THEN s ELSE [s EXCEPT !.feed = runs]

(* paintFeed(): the feed becomes the answer.                               *)
PaintFeed(s, runs) ==
  IF s.stage # "overview" THEN s
  ELSE [s EXCEPT !.feed = runs, !.seen = @ \cup ToSet(runs)]

(* A faulty SetBadges: a pulse only counts in the overview.                *)
SetBadgesInView(s, n) == IF s.view = "overview" THEN [s EXCEPT !.badge = n] ELSE s

SetBadges(s, n) == [s EXCEPT !.badge = n]

(* onPulse(), or the refreshBadges() after a decision of any tab.          *)
Hear(t) ==
  /\ stream[t].pushes # <<>>
  /\ stream' = [stream EXCEPT ![t].pushes = Tail(@)]
  /\ LET event == Head(stream[t].pushes)
     IN IF event.kind = "approval" THEN Expect(t, {Badges}) /\ UNCHANGED screen
        ELSE /\ Show(t, SetBadges(screen[t], event.awaiting))
             /\ Expect(t, IF screen[t].view = "overview" THEN {Runs("merge")} ELSE {})
  /\ UNCHANGED <<ledgerVars, beats, moves, posts, drops>>

(* An answer arrives or the timer of a decided card runs out: the card is  *)
(* gone, and without any other the approvals are rendered again, also over *)
(* the view the user has gone to since.                                    *)
Arrive(t) ==
  \E answer \in due[t] :
    LET s == screen[t]
        rest == due[t] \ {answer}
        More(answers) == due' = [due EXCEPT ![t] = rest \cup answers]
    IN /\ CASE answer.kind = "badges" -> Show(t, SetBadges(s, answer.awaiting)) /\ More({})
            [] answer.kind = "paint" -> Show(t, PaintFeed(s, answer.runs)) /\ More({})
            [] answer.kind = "merge" -> Show(t, MergeFeed(s, answer.runs)) /\ More({})
            [] answer.kind = "cards" ->
                 Show(t, IF s.stage = "approvals" THEN [s EXCEPT !.cards = answer.ids] ELSE s) /\ More({})
            [] answer.kind = "decided" -> UNCHANGED screen /\ More({Badges, [answer EXCEPT !.kind = "faded"]})
            [] answer.kind = "faded" ->
                 IF s.cards = {} THEN Show(t, RenderApprovals(s)) /\ More({Approvals})
                 ELSE UNCHANGED screen /\ More({})
       /\ UNCHANGED <<ledgerVars, beats, moves, posts, stream, drops>>

-----------------------------------------------------------------------------
Next ==
  \/ \E a \in Actions : Park(a) \/ Resume(a) \/ Finish(a)
  \/ Heartbeat \/ Pulse
  \/ \E t \in Tabs :
       Decide(t) \/ Drop(t) \/ Reconnect(t) \/ Click(t) \/ Hear(t) \/ Arrive(t)
       \/ \E view \in Views : Go(t, view)

Spec == Init /\ [][Next]_missionVars

-----------------------------------------------------------------------------
(* Type correctness.                                                       *)
TypeOK ==
  /\ \A t \in Tabs : /\ screen[t].view \in Views /\ screen[t].stage \in Views
                     /\ screen[t].cards \subseteq Actions /\ screen[t].seen \subseteq Actions
                     /\ Len(stream[t].pushes) <= MaxPushes
  /\ ToSet(rows) = {a \in Actions : status[a] # "none"}

(* However answers and pulses overtake each other, and wherever the user   *)
(* goes in between, the live feed shows no run twice (app.js, mergeFeed()  *)
(* after paintFeed()).                                                     *)
FeedOnce == \A t \in Tabs : IsInjective(screen[t].feed)

(* "Every guarded action, exactly once" (app.js): what the page decides    *)
(* never makes the work of an action be done again.  It does: decide()     *)
(* also turns an action that has succeeded into an approved one.           *)
DoneOnce == \A a \in Actions : done[a] <= 1
=============================================================================
