# Quorvel in TLA+

Quorvel makes the risky actions of AI agents happen once, pausable for human
approval and within budgets. This directory models the parts of it that keep
those promises: the durable action runtime, the workflow and saga engines and
the tool adapters of the SDK, the API behind the hosted ledger with everything
it does beside answering, and the pages on which people decide. The modules are
written from the TypeScript sources under `src/`; `PROJECT.json` maps every
definition to the lines it stands for.

## The system

| Component | Source | State it keeps | Operations | Talks to |
|---|---|---|---|---|
| Action runtime | `packages/core/src/run.ts`, `ledger.ts`, `postgres.ts`, `policy.ts` | one ledger row per idempotency key: status, cost, time of creation | `run`, `approve`, `reject`; the ledger's `insertPending`, `mark*`, `stats` | the caller's `execute`, the policies |
| Workflow engine | `workflow.ts`, `workflow-store.ts`, `postgres-workflow.ts` | a run record, its history of events, buffered signals | `start`, `resume`, `signal`, `tick`; the replaying `drive` | the workflow's body and steps |
| Saga engine | `saga.ts`, `saga-store.ts`, `postgres-saga.ts` | saga record, step records | `run`, `resume`; forward and compensation passes | the action runtime, once per step and per undo |
| Hosted ledger client | `hosted.ts` | none | the ledger's interface over HTTP; iteration over pages | the API |
| Tool wrappers | `idempotency.ts`, `packages/openai`, `langchain`, `mcp` | none | normalise a tool call, derive its key, run a batch | the action runtime |
| Vercel AI adapter | `packages/adapter-vercel/src` | action and approval records | wrapped tool calls, `resolveApproval` | its own store |
| API: actions and quota | `apps/api/src/service.ts`, `billing.ts`, `pgStore.ts` | action rows, usage counter per organisation and month | `insertPending`, `mark*`, `reserve`, `release` | stores, event bus |
| API: Idempotency-Key | `service.ts` (`withIdempotency`), `pgStore.ts` | one row per key: fingerprint, status, body | claim, complete, delete | every write handler |
| API: timeline and metrics | `actionEvents.ts`, `events.ts` | a log of events per action | append, `computeMetrics` | the event bus |
| API: event delivery | `queue.ts`, `bus.ts`, `deadLetters.ts`, `wiring.ts`, `index.ts` | queued jobs, dead letters | `publish`, retry, replay, discard, drain at shutdown | subscribers |
| API: circuit breaker | `resilience.ts` | state, failure and success counts | `exec` | Postgres, Paddle |
| API: rate limiter | `rateLimit.ts`, `server.ts` | a window of hits per caller | `check`, sweep | Redis |
| API: migrations | `migrations.ts`, `migrate.ts`, `scripts/migrate.mjs` | the two tables of applied migrations, an advisory lock | `runMigrations`, the script | Postgres |
| API: tenancy | `service.ts`, `keys.ts` | organisations, members, API keys | sign in, provision, create, rotate, revoke | stores |
| API: alert rules and alerts | `alertRules.ts`, `alerts.ts`, `service.ts` | rules, deliveries | create, update, delete; dispatch | mail, Slack |
| API: billing and notices | `paddle.ts`, `usageNotifier.ts` | plan, customer; notices sent | `handleWebhook`; `handle` | Paddle, mail |
| API: listings | `store.ts`, `pgStore.ts`, `service.ts` | none | pages by cursor | stores |
| API: routing | `router.ts` | none | `handleRequest` | every handler |
| Mission Control | `packages/dashboard` | per tab: view, feed, cards, badges, stream | overview, approvals, `decide`, pulses | the SDK's ledger |
| Dashboard | `apps/dashboard` | per page: the table of keys, the steps of the onboarding | key and onboarding actions; requests of `lib/quorvel.ts` | the API |
| Others | `apps/web`, `cli`, `sdks/python`, `infra`, `examples` | none of their own | | the API |

Nearly everything hard here comes from one fact: the code is asynchronous, runs
in several processes at once, and coordinates only through single-row queries.
Between two `await`s anything may happen: another call, another process, a
reviewer's click, a crash, a timer, an answer that comes too late. What makes the
components correct:

- **Runtime**: work runs once per key; nothing denied runs and nothing that
  needs approval runs without one; limits hold up to a known overshoot; no row
  is stuck.
- **Workflows**: a replay sees exactly what was committed; signals are neither
  lost nor used twice; a run finishes.
- **Sagas**: all or nothing; undos in reverse order; settled stays settled.
- **Clients of the runtime** (hosted ledger, wrappers, Vercel adapter): what is
  lost, repeated or overlapping repeats work only where it is known to; each
  tool call gets its own answer.
- **Requests**: one execution per Idempotency-Key; legal transitions only; the
  usage counter is what the actions consume.
- **Behind the requests**: an event reaches each subscriber or is on record; the
  breaker closes again; the limiter refuses no one for what others did;
  migrations are applied once and in order.
- **Tenants**: one organisation with an owner and a key that somebody was shown;
  rules within the plan; the plan that was paid for; notices once.
- **Readers**: timeline, metrics, listings and pages tell what happened.

`PROJECT.json` lists under `hazards` each place in the code where one of these
could go wrong, with the property that would show it.

## The modules

| Module | What it is |
|---|---|
| `ActionRun` | `run()`, `approve()`, `reject()` over the ledger, with the policies `denyWhen`, `requireApprovalWhen`, `budget`, `rateLimit` |
| `OncePerKey` | what a key promises, with no ledger and no callers: the work completes at most once and a result is told only after. Refined by `ActionRun` and `IdempotencyKeys` |
| `Workflow` | the engine for one workflow, its body a sequence of commands per deployed version |
| `DurableRun` | a program whose commands commit once and in order. Refined by `Workflow` |
| `Saga` | one saga; every step and undo through the ledger |
| `HostedRun` | `run()`, `approve()` and `reject()` whose ledger is the API: lost requests, lost answers, late arrivals |
| `ToolLoop` | batches of tool calls in their three shapes, their keys, and what the model is answered |
| `VercelAdapter` | calls without a claim: stored records, approvals, two budgets, attempts that time out and go on, queries that fail inside and outside the `try`, processes that die |
| `IdempotencyKeys` | `withIdempotency()` for one key |
| `CloudActions`, `ActionStatus` | `insertPending()` and the transitions of the API with the monthly quota |
| `Timeline`, `Metrics` | the events of an action up to the log, over either bus, with events that are delivered late, again or never; what is computed from a log, row by row |
| `EventDelivery` | the buses in the process, over the queue in memory and over Redis; dead letters; crash and shutdown |
| `CircuitBreaker`, `RateLimit`, `Migrations` | one component each |
| `Provisioning` | the two ways an organisation comes to be; `Onboarding` EXTENDS it with the page of the first visit |
| `ApiKeys` | the keys of an organisation; `KeysPage` EXTENDS it with the admins' pages |
| `AlertRules`, `Billing`, `UsageNotices` | one component each |
| `Listings`, `Routing` | iteration over pages; from a client's call to the handler and back |
| `MissionControl` | tabs of the local dashboard, their requests, pulses and decisions |
| `WriteRequests` | the parameters and promises of what becomes of a request of the API, in parts that share no state: EXTENDS `IdempotencyKeys`, instantiates `CloudActions` and `Routing` |
| `Operations` | the same for what goes on beside the requests: EXTENDS `CircuitBreaker`, instantiates `RateLimit`, `Migrations` and `EventDelivery` |
| `Tenants` | the same for what the API keeps of an organisation: EXTENDS `Onboarding`, instantiates `KeysPage`, `AlertRules`, `Billing` and `UsageNotices` |
| `Clients` | the same for the clients whose promises are proved: EXTENDS `HostedRun`, instantiates `Timeline`, `ToolLoop` and `VercelAdapter` |
| `ActionRunProofs`, `WorkflowProofs`, `SagaProofs`, `WriteRequestsProofs`, `OperationsProofs`, `TenantsProofs`, `ClientsProofs` | theorems about the module of that name and what it instantiates |
| `NumberLemmas` | what those need of numbers, finite sets and sums |
| `MC...` | instances for TLC; one `.cfg` per run |

**How code becomes actions.** Every caller (driver, worker, client, request,
tab) has a record of its locals and a `pc` that names the await it is at. One
action is what happens from one await to the next: the query that is awaited,
applied atomically (each is one SQL statement, one transaction, or one
synchronous method of the in-memory stores), and all that follows up to the next
await. The early returns and `throw`s end the call (`Return`). A caught error
goes to the handler that catches it. A crash ends a call wherever it is and
leaves the stores as they are; a failed query outside any `try` is the same
thing, and one inside a `try` is an action of its own (`MarkSucceededThrows`,
`AppendThrows`, `ConsumeThrows`, `CompleteThrows`, `InsertFails`, `QueryFails`). A
query that failed may have been applied, its answer being what was lost.

**State.** `ActionRun.row` and `Saga.row` are the ledger's rows, down to the
status; `Workflow.events` is the history by position and `inbox` the buffered
signals; `IdempotencyKeys.row` is the row of `idempotency_keys`;
`CloudActions.usage` is `usage_counters` by month; `EventDelivery.job` is a
publication on its way and `letters` the dead letters; `Migrations.recorded` the
two tables; `Provisioning.orgs` organisations with members and keys; `Billing.org`
the row the webhooks write; `MissionControl.screen` what a tab shows. History
variables record what the code does not store and properties need (`done`,
`told`, `ran`, `did`, `cleared`, `lapsed`, `effects`, `excuses`, `excused`,
`handled`, `passed`, `executed`, `clashed`, `late`, `slotless`, `peak`, `sent`, `handed`, ...); no
guard of the code's control reads one, except where `ran` supplies a step's
result in `Workflow`. Bounds on faults are counters of their own.

**Abstractions.** Keys, bodies, signals and names are model values; a key is one
tool, arguments and scope, and where keys are derived (`ToolLoop`) arguments are
sequences of fields whose order the derivation forgets. Results are values in
`Workflow` only: the value of a step is the number of its evaluation, so that
two evaluations differ. In `ActionRun` all keys share one scope and one tool, the
budget has no window, and the order of policies is fixed to the one in the
module's comment. `Saga` uses of `run()` what a saga can see: no limits, and
`pending` is `running`. `CloudActions` is one organisation, with or without
overage. Time is relative wherever it decides (breaker, limiter): ticks that are
left or that have passed, followed as far as the code compares them. Billing
events are records of what `resolvePlan()` looks at. Paths are sequences of
segments. Wording, audit records and what is only displayed are left out.
`EventDelivery` is about the way of an event to its subscribers; `Timeline` is about
what its order, loss and repetition make of one subscriber's log, and takes from
there only that an event which is due may be delivered at any time, in any order,
again (the queue repeats a fan-out whose later subscriber threw, `wiring.ts:166-194`,
and dead letters are replayed), or never. In `Metrics` times are numbers where the code
compares ISO strings, which order alike; the log is read in the order of its ids,
which is any order of its times; the averages and the error rate are left out.
`Listings` has keys that sort one way by `localeCompare` and another by code units;
keys that are equal under `localeCompare` are left out.

**How the runs are composed.** TLC explores several instances in one run: a
variable `part`, chosen in the initial state and never changed, says which
instance a behaviour is of; the actions of an instance require its part and leave
the variables of the others alone, so that a run's state space is the sum of its
parts. `MCActionRun`, `MCWorkflow` and `MCSaga` EXTEND the component, `MCRequests`,
`MCOperations`, `MCTenants` and `MCClients` EXTEND `WriteRequests`, `Operations`,
`Tenants` and `Clients`, so that the properties the runs check are the very
definitions that the theorems are about. `MCClients` also INSTANCEs `Metrics`, and
`MCRequests` `Listings` and `MissionControl`, which no theorem is about; a property of
theirs that starts with `part = ... =>` is the property of the component's module, at
that instance. What differs from one deployment or use to another is chosen in the
initial state and never changed, rather than being a constant, where one run is
to check several of them: who of the workers, drivers and clients take part
(`callers`, `drivers`, `senders`), whether a plan allows `overage`, what
`REDIS_URL` decides (`shared` in `RateLimit`, `kind` in `EventDelivery`, `bus` in `Timeline`), what the rows are stored in (`store` in `Listings`), the program
and its policies (`deployed` in `HostedRun`, `setup` in `VercelAdapter`), and whether there is a database to keep `clerk_org_id` unique (`unique` in `Provisioning`). `Alone`
says that one worker, or driver, takes part; a property that the code keeps only
then has `Alone =>` in it, and the theorems are about any choice.
Components that really interact are composed in the modules themselves:
`Onboarding` over `Provisioning`, `KeysPage` over `ApiKeys`, the ledger inside
`Saga`, `HostedRun` and `ToolLoop`, the meter inside `CloudActions`, dead letters
inside `EventDelivery`, the client inside `Listings` and `Routing`.

## The runs

Passing runs:

| Run | Parts and instances | Checks | Shows |
|---|---|---|---|
| `actions` | *racing*: two callers with two calls each, a reviewer, four keys (one gated, one flaky), limit 1, budget 2, deaths, a passing window. *settling*: three keys (one denied, one gated and flaky), limits that ask for approval, one retry, failing `markSucceeded` | `Gate`, `RateOvershoot`, `BudgetOvershoot`, `OncePerStableKey`, `RowsSettle` | a key that cannot be reopened is done once; gated work only after approval; limits are overshot by at most one (or one cost) per further caller and reviewer; without deaths no row stays pending or running |
| `workflow` | *serial*: one worker, two versions of a body with a command of each kind, two signals, a flaky step, two crashes. *racing*: two workers, a body of four commands without signals, a crash, a failed query. *failing*: one worker, a body that waits for two signals around a step, a crash, two failed queries | `SignalsSafe`, `ReplaysSound`, `ImplementsDurableRun`, `HistoryFixed`, `Finishes` | the engine implements a program whose commands commit once and in order; a signal is lost only to a crash, or to a query that failed; racing histories agree, reruns are bounded, a started run completes |
| `saga` | *serial*: one driver, three steps (one without undo, one with approval), a crash, two failed queries. *racing*: two drivers, the same steps, a crash, no failed query | `AllOrNothing`, `StableOnce`, `ReverseOrder`, `SettledFinal`, `Settles` | all or nothing, undone in reverse, settled for good; nothing that does not throw is done or undone twice; the saga gets settled |
| `requests` | *once*: three clients, two bodies. *losses*: two clients, a crash, two lapses, a failed query. *quota*: two requests, two keys, one slot, a crash or a failed query (an insert may have taken effect all the same), two months; with overage, within a month and without a crash. *routing*: every call of both clients against every route, with an ordinary key and three that are named like segments of routes. *listings*: every iteration over three rows that change, in memory and in Postgres. *one tab*: Mission Control in a tab that goes twice to a view and loses its stream once | `OneClaim`, `LossesPaid`, `UsageAccounted`, `RequestsArrive`, `ShownOnce`, `OncePerIdempotencyKey`, `ClaimsEnd`, `BadgesCatchUp` | one execution, replayed to the body it was for; each further one is paid for by a loss; no claim answers 409 for ever; slots are distinct and refunded once, but for an insert whose answer was lost, and the counter is off by no more than what is in flight or lost; a request gets to the operation it names; what is paged through or watched is shown once, but for rows of one millisecond; badges catch up with missed pulses |
| `operations` | breaker with two callers, thresholds of two, a cooldown of three ticks; limiter in two processes and in Redis, a window of three ticks, a restart; three boots with different lists, and three scripts; the bus in the process with an event and two operators, the queues in memory and in Redis with two events and an operator, two subscribers, two attempts, failures, a fault, a crash, shutdowns | `RetryAfterHonest`, `LimiterHonest`, `BootsSafe`, `EventsAccounted`, `Recovers`, `BootsEnd`, `EventsSettle` | whoever waits as told is not refused by the same opening; the breaker closes again; no one gets through more than the windows allow or is refused without having had the limit; recorded is committed, once and in order; each published event is handled, under way, on record, or taken by a crash or an operator, and what is queued comes to its end, also through a drain |
| `tenants` | provisioning in Postgres (two users, four requests, a crash) and in memory; first visits in both; two admins, three keys, a revocation and a lost answer; two creators of rules, two plans, an alert with two attempts; five billing events with two attempts under way and two faults; three inserts, two periods | `FirstVisitsSafe`, `KeysTold`, `AlertsSafe`, `BillingSafe`, `AccessRegained` | one organisation, owned by its founder, with one first key that one user sees; the table of keys tells which are active; rules are too many only by the creations that raced; a handled alert has reached its channels; the plan is that of the last event and who pays can open the portal; notices once per process, and sent unless a sending failed; an organisation locked out gets a key |
| `clients` | timeline with two requests, three updates, a loss and a repeated delivery, in process and over Redis; every log of six rows, one of them twice and in any order, of three runs; the adapter interrupted, waiting, spending, limited to a call, and with a query that fails or a process that dies; the hosted SDK with a fault, for work that is let through and for work that is parked or denied; three agents over three surfaces | `TimelineTells`, `MetricsAgree`, `AdapterBounded`, `HostedSafe`, `BatchesSafe` | what readers see is what happened, but for deliveries that were repeated; work is repeated only for an overlap, an abandoned attempt, or a lost write of success, and done only after an approval where one is needed, whatever is lost; equal tool calls in any shape are one action |

Runs in which the code does something else than it says of itself; each is in
`findings` with the comment and the line:

| Run | Property | What happens |
|---|---|---|
| `actions_at_most_once` | `AtMostOnce` | an approved row is not claimed: two calls that find it both do the work (`run.ts:62`) |
| `workflow_stranded` | `NoStrandedSignal` | a signal is buffered while the workflow goes to wait for it (`workflow.ts:136`) |
| `transitions_terminal` | `TerminalFinal` | a transition is applied to a row that is terminal by then (`service.ts:441`) |
| `onboarding_first_key` | `FirstKeyShown` | rendering the onboarding page provisions the organisation and drops its first key, before the button that shows it (`page.tsx:11`) |
| `decision_overwrites` | `DoneOnce` | a decision on a stale card turns a succeeded action into an approved one, and it is done again (`server.mjs:140`) |

**What the properties leave out, and why.** Where the code does not keep a
stronger property the ones above say so in their bound or their condition:

- Limits are evaluated before the key is claimed (`run.ts:78-80`), and an action
  counts by when its row was created (`policy.ts:123`): hence the overshoot. The
  budgets of the Vercel adapter are checked before the call that spends
  (`wrap.ts:241`) and the limit of alert rules before the insertion
  (`service.ts:725`), with the same effect.
- `approve()` and `reject()` write without a condition (`run.ts:146`, `160`): the
  later one wins, and either may overwrite a row that is running by then.
- Two drives may each evaluate a step that the other has committed
  (`workflow.ts:180`), and one that suspends late takes a run out of `completed`
  (`workflow.ts:188`): `ReplaysSound` and `HistoryFixed` say what remains. Signals
  are matched without a claim (`workflow.ts:136-144`), so `SignalsSafe` is of one
  call at a time; a crash between `consumeSignal` and `appendEvent` loses one.
  An append that was applied and then threw makes a step run again and the
  drive go on with the later value (`workflow.ts:248-264`), and a failed
  `setRunStatus` turns a run that is complete into a failed one (`182-199`): the serial part, of
  which `ImplementsDurableRun` is checked, has no such faults. The failing part
  has, and of it the others are checked.
- Nothing claims a saga: two drivers, one rolling back, can leave work standing,
  so all-or-nothing is of one driver. A step whose `recordStep` fails after
  its work is passed over by the rollback (`saga.ts:165-189`): one per fault. A
  crash inside a step leaves its ledger row running, at which every later
  `resume()` pauses (`saga.ts:174-186`): `Settles` excepts it.
- A stale claim is deleted by key (`service.ts:280`) and completed by key
  (`294`): after a loss two requests may hold one claim, and an answer may be
  stored under another body's fingerprint. `OneClaim` holds until then.
- The counter is exact only while no action has failed and no month has ended.
  `insertPending` refunds the slot on any throw of the insert (`service.ts:324-329`),
  also when the row was written and only the answer was lost: such an action
  counts and has no slot (`slotless`). `UsageCovers` and `NoOvershoot` except
  it, and each one has cost a failed query.
- Over Redis the fan-out of an event is repeated when a later subscriber throws
  (`usageNotifier.ts:50`, `60`), and dead letters are replayed (`service.ts:810`), in
  either case after "event-log" may have appended: the log then has an event
  twice. `NothingButTrue` allows one more row for each such repetition and no other.
  A queue, or a dead letter, also puts events off, so that the log is in the
  order of what happened only while none was: else the order is in the events' own times.
- A queue runs the whole fan-out again, so that only in process a subscriber
  hears of an event once (`HealthyOnce`); a restart over Redis begins to work at
  the next publication (`EventsSettle`).
- The script of migrations takes no lock: of it `AppliedOnce` holds while runs
  do not overlap.
- A user with two requests at a time may end up a member of the organisation he
  founded (`service.ts:236`), and an organisation may stay without owner or
  key when the process dies after its insertion: `Provisioned` excepts both.
- Nothing in a webhook tells that it is older than what was applied: `PlanFollows`
  is of attempts in order, one at a time (`paddle.ts:230`).
- The notice is marked before it is sent (`usageNotifier.ts:57`): one whose sending
  failed is never sent, and a restart may send one again.
- A hosted action that was parked may be done by each attempt of each call that
  finds the approval (`run.ts:62`), and a transition that was checked in time may
  take a succeeded row back to running (`service.ts:441`): hence the factor in
  `GateDespiteLosses`.
- The adapter records a success inside the `try` in which it calls the tool
  (`wrap.ts:266-293`): a store that throws then has the work retried, or recorded as
  failed and done by the next call. `excuses` counts it, like a process that dies
  between the work and its record, next to overlaps and timeouts.
- Neither store pages without gaps or repetitions through rows of one millisecond:
  `NoGapsNoRepeats` says for which rows (`MaySkip`, `MayRepeat`), and that it is no others. In
  memory these are rows that `localeCompare` sorts one way and the cursor cuts the
  other way (`store.ts:324-332`, `344-352`). In Postgres the cursor has lost the
  microseconds (`pgStore.ts:45`): the recent listing skips other rows of the
  millisecond, and a listing by status repeats the last row of a page.
- The latency of a run that was retried may be left out: its creation is read
  again after an outcome, and if that is the last within the window, it is later
  than its end (`actionEvents.ts:203`). `LatenciesOfRuns` says so.
- BullMQ gives up a job that stalls a second time, and since its attempts are not
  used up no dead letter is written (`queue.ts:157`): two crashes may lose an event
  that is in Redis. `EventsAccounted` excuses that. The run has one crash, for a second
  one makes it too long; `EventsAccountedHolds` is of any number of them.

**Bounds and why they suffice.** The races in this code are between two parties
that have both read the same row; two callers show them, and where a third can
come in while two are under way (claims that are retried and taken over, boots
that wait for a lock) there are three. Keys are one more than the limit, so
that limits bite: four in *racing* under a limit of one (one gated, one flaky, two
plain: a row that fails and one that waits overlap with two that run). Workflow
bodies contain each kind of command once; a second version that changes
commands reaches the determinism check. Sagas have steps before, at and after a
failing one, one without undo and one with approval. Breaker thresholds of two
tell the first failure from the one that opens; a cooldown of three ticks, with
two to a second, makes the rounding of `Retry-After` matter. Windows of three
ticks have a boundary inside any stretch that crosses one. Migration
lists differ in length and in a checksum. Events have a subscriber that fails and
one that does not. The rows of the metrics are of a run that ends twice, whose
events may come in any order, of one that takes some time, and of one that is
created when others end, in a window that has them all and in one of an instant. Three rows and pages of one or two give cursors in the
middle of everything. `MaxCalls`, `Retries`, `MaxCrashes`, `MaxFaults`,
`MaxLapses`, `MaxLosses`, `MaxJobs`, `MaxFailures`, `MaxRestarts`, `MaxRevocations`,
`MaxEdits`, `MaxReserved`, `MaxUpdates`, `MaxEvents`, `MaxRepeats`, `MaxMishaps`, `MaxTick`,
`MaxChanges`, `MaxRead`, `MaxInvocations`, `MaxRounds`, `MaxMoves`, `MaxPushes`,
`MaxDrops`, `Months`, `Periods`, `Floor` and `Ceiling` bound what is unbounded in
the code; each is named in a CONSTANTS comment. `Saga.did` stops at 2 ("more than
once"), which is all its properties tell apart. Symmetry is not used: runs check
liveness and safety together. Deadlock is not checked: in every model the work
can be over (all calls made, all signals sent, the saga settled, the process
down), and stopping is then right; the liveness properties say when it is not.

**Fairness.** Every specification that states liveness assumes that a promise
that can continue does (weak fairness of each caller's next step): the Node.js
event loop does that as long as the process lives. What the code leaves to its
host is assumed of the host and named:

- `Workflow`: `start` is called, `tick` is called again and again and unfinished
  runs are resumed (strong fairness, for a worker is busy with other calls in
  between), as the engine's documentation asks of a scheduler.
- `Saga`: `run()` is called until the saga is settled, and reviewers answer.
- `IdempotencyKeys`: time passes, and clients retry (strongly: the claim of
  another may be in the way).
- `CircuitBreaker`: requests keep coming and end, and time passes.
- `Migrations`: a boot that is not killed goes on, and Postgres grants a lock to
  whoever waits for it (strongly: others may hold it in between).
- `EventDelivery`: a subscriber ends, and so do the sink of dead letters and a
  shutdown, which is forced after ten seconds (`index.ts`).
- `KeysPage`: requests are answered, and an admin without a key comes to
  create one in the end. Users wait for an answer before they reload a page.
- `MissionControl`: timers fire, requests are answered, and a stream that was
  lost is opened again, as `EventSource` does. Nobody has to click.

`RowsSettle` of `ActionRun` needs none of the host. Crashes and faults are never
fair.

**Mutants.** For each property of each passing run `PROJECT.json` names a small
change of a mapped definition (an operator next to it in the module, introduced
as "a faulty ...") under which TLC finds the property violated: a claim by upsert,
a policy list whose last verdict wins, a replay that forgets, a rollback in
forward order, a boot that takes the lock anyway or keeps it when it fails, a
subscriber's failure that escapes, a webhook acknowledged before it is applied, a
record that is kept as it was first written. Where a property covers several hazards the
modules hold further faulty operators, against which it was tried as well.

## The proofs

All theorems hold for any number of callers, keys, processes and events, any
limits and thresholds, with crashes and faults or without; what each assumes is
the `...Assumption` of the component's module, about the constants only, unless
said otherwise. Three kinds of argument recur. A property about what a call *did*
needs an account of what calls under way may *still do*. A property that a
counter pays for, such as "one more for each further caller", needs the set of
those who have not yet used theirs, and the step that uses it. And a property of
one call at a time is proved as `Alone => ...` of every behaviour, for whoever
takes part is chosen initially.

**`ActionRunProofs`**

- `TypeCorrect`: `Spec => []TypeOK`.
- `GateHolds`: `Spec => []Gate`. `Gate` speaks of calls that execute, and it is
  not inductive: that a call may go on to the work rests on the verdict it
  holds and on the row it read. `GateInv` adds that an allowing verdict is held
  only at a key the predicates allow, that a key which is parked, awaits approval
  or is held by a reviewer is not one `denyWhen` forbids, and that an approved
  row was approved by a human.
- `ImplementsOncePerKey`: `Spec => OncePerStableKey`, a refinement. The keys are
  those that cannot be reopened: their work does not throw and is always
  recorded and no human is asked. `OnceInv` says why: such a row, once claimed,
  is owned by the one call that inserted it, no status it can get lets another
  call in, and `done` becomes 1 only as that call performs.
- `RateOvershootBounded`: `Spec => []RateOvershoot`. The rows a limit bounds
  are not inductive, since a call adds its row after it was let through.
  `Committed` counts a key from the moment its policies let it through, or a
  reviewer holds it; only `EvaluateRateLimit` makes it grow, and at that moment
  everything in it beyond the counted rows belongs to another caller or a reviewer.
- `BudgetOvershootBounded`: `Spec => []BudgetOvershoot`, in the same way with
  `Spending`, for costs of any size: whoever passes the budget finds what is
  counted and its own cost within it, and what is not counted yet is of one key
  for each other caller and reviewer, none dearer than the dearest.

**`WorkflowProofs`**. The invariant `IInv` of all five says at which awaits a
drive can be for which command, so that only a pending event is ever completed
and a racing append meets an equal one.

- `TypeCorrect`: `Spec => []TypeOK`; a drive never looks past the end of its body.
- `HistoryStays`: `Spec => HistoryFixed`, where no signals are sent or one call is
  under way at a time. Otherwise the code does not keep it: two calls may
  complete one wait with different signals.
- `EvaluationsPaid`: `Spec => []RunsBounded`, whatever interleaves: the work of a
  command is evaluated at most once for each worker, each call that died and each
  query that threw. `Paid` counts those who can no longer evaluate it in their
  drive; a drive that starts over has seen what is recorded by then.
- `ReplaysHold`: `Spec => []ReplaysSound`, where there is one version of the body
  and no signal, or one call at a time (`Ordered`). `ReplayInv`: what a drive has
  seen is a past of the history, everything before its command is completed, and
  so a position is filled only after those before it. With signals and racing
  drives, or while a new body is deployed under a drive, there can be gaps.
- `SignalsHold`: `Spec => []SignalsSafe`. `Talk`: no signal in the buffer has the
  name of a pending wait, whichever of `signal()` and the drive looked first;
  `HeldOnce`: a signal is unsent, with a call, in the buffer, recorded, or lost,
  in one of these only, and the lost ones are paid for.
- `RunsDurably`: `Spec => ImplementsDurableRun`, the refinement of `DurableRun`:
  each append of a completed event, or completion of the last one, is a commit
  of the next command, in order. Two hypotheses are needed. No query throws
  (`MaxFaults = 0`): a step that is tried again after an append that was applied
  evaluates anew, and the drive goes on with a value nobody recorded. And no new
  version of the body is shorter (`BodiesGrow`): it would complete before what
  is already recorded.

**`SagaProofs`**

- `TypeCorrect`: `Spec => []TypeOK`; a rollback undoes only what is before the
  step it is at.
- `StableOnceHolds`: `Spec => []StableOnce`, for any number of drivers. The
  invariant `Owned` is of the row of each stable key: it is absent, running or
  succeeded, it is running while a call is at its work, at most one call is, and
  it has been done no more often than it succeeded.
- `AllOrNothingHolds`, `ReverseOrderHolds`, `SettledFinalHolds`, of one driver,
  all from `LoneInv`. `Kept` relates the ledger's rows, the records of steps and
  the work done, whatever a dead call left between them. `OnCourse` is of the
  driver: its place tells the status of the saga (`Course`) and of the row it is
  at (`RowHeld`), forward every step before its own is recorded (`InOrder`),
  backward all that stands is before it (`ToUndo`), and what it passed over is
  paid for by a failed query (`NoneLost`).

**`WriteRequestsProofs`**

- `OneClaimHolds`: `Spec => []OneClaim`. `ClaimOwned`: until something died, lapsed
  or failed a claim in progress is fresh and belongs to the one request at it;
  `AnswersOwned`: stored answers, and those about to be, are of executions for the
  body they answer.
- `ImplementsOncePerKey`: without losses the replay of an Idempotency-Key
  implements `OncePerKey`, as `run()` does; `RunOnce` adds that an execution
  leaves an answered row or a claim behind it.
- `LossesPaidHolds`: `Spec => []LossesPaid`. `Budgeted` adds to the executions that
  were those still to come (`ToCome`): of requests at work, of a free key, and of
  every request that may reclaim a claim that is doomed. A loss adds one for
  each client at most, and nothing else makes the sum grow.
- `UsageAccountedHolds`: `Cloud!Spec => []UsageAccounted`. That inserted actions
  stay within the limit does not follow from the counter, which a request that
  dies before its rollback raises for good: `QuotaInv` bounds those who reserved a
  slot and have not inserted yet (`Inserting`) together with the actions, beside
  the counter. Actions are those that hold a slot (`Holding`); the others were
  inserted by a query that failed, one for each (`Excepted`).
- `RequestsArriveHolds`: `Router!Spec => []RequestsArrive`, for any keys, whether or
  not they are spelled like segments of routes; only `Wild`, which the patterns
  have in place of a variable, is neither. `DispatchFirst` reduces the search for
  the first match to one index that matches and none before it that does. The
  calls of the clients are sorted by their shape (how long the path is and which
  segment is a key); for each shape the routes of that length are compared, and
  the one case in which another route comes first is the key `page`. The
  invariant `RouteInv` adds what is true while a request waits (`Unasked`,
  `NotYet`), and that a mark which gets an answer the client takes for success has
  been executed (`Accepted`): its path always has a route, so no 404 is the router's.

**`OperationsProofs`**. The four components share no state, so each has a
specification and an invariant of its own.

- `RetryAfterHolds`: `Spec => []RetryAfterHonest` of the breaker, for all
  cooldowns, seconds and thresholds; the arithmetic of the rounded wait is a
  lemma of its own.
- `LimiterHonestHolds`: `Limiter!Spec => []LimiterHonest`, for all limits, windows
  and numbers of instances. What passed in the last window's length says nothing
  of the next tick; `LimiterInv` splits it at the tick in which the open window
  began. `Fits`: since that tick the history has at least what the bucket let
  through, and after it less, for the first request was in it. So when the window
  ends that tick is out of sight and what remains is less than a limit: `Before`,
  what passed before the open window, is below the limit at each place. A
  restart forgets a bucket and adds one limit to it, and the sum over the
  places is bounded, since restarts fall on any of them.
- `BootsSafeHolds`: `Runs!Spec => []BootsSafe`. `Exclusive`: only the boot that holds
  the lock reads or applies, and scripts are alone until two of them overlap.
  `InStep`: the copy of the table that a process made, where it is alone, tells
  of the migrations to come what the table tells, and those before are recorded,
  with its own checksums unless drift is allowed. `FromBoots`: what boots record
  is of some boot's list.
- `EventsAccountedHolds`: `Bus!Spec => []EventsAccounted`. `Covered`: a pair of a
  published event and a subscriber is handled, excused, or on record with a job
  that will come to it or a dead letter. A dead letter is deleted by whoever
  replayed it, and two operators may replay and delete each other's: so a pair
  whose letter is about to be deleted is on record with a *later* publication,
  which cannot be deleted on account of this one. `InTurn` is of the bus in the
  process: a subscriber that did not fail on an event has not handled it
  before its turn.

**`TenantsProofs`**. As in `OperationsProofs` each component has an invariant of its
own.

- `MembersHold`: `Spec => []Membership`, of `Provisioning` by itself. `Membership`
  speaks of the end, when no request is under way. `Making` says what is true on
  the way there: until a crash each row has either one request that makes it,
  its founder's, or its one key and its owner; and no founder who never had two
  requests at a time is about to be written down as a member. `One`: in Postgres
  the row is the first and the only one, and whoever has been answered, or is at
  the insertion of the key, is in it.
- `FirstVisitsHold`: `SpecPage => []FirstVisitsSafe`, the same under the page. That a
  key is shown once follows from nothing that is stored: `Winners` are the users
  of whom a request makes the organisation, or whose page has, or has shown, its
  key; in Postgres they are one at most, and none while there is no organisation.
  `Accounted`: pending samples are of tabs that are about to settle one, or of
  one for each user and crash.
- `KeysHold`: `Page!Spec => []KeysTold`. `Told` relates each table to the keys by what
  the user may not know yet (`Untold`): the key of the request under way.
- `AlertsHold`: `Routes!Spec => []AlertsSafe`. `Counted`: whoever has counted the
  rules and may insert goes by a limit there has been, and is among the most who
  ever did at a time; hence one rule too many for each but one of them.
  `Delivered`: a delivery that has not failed so far waits for each channel that
  its rules select and that has not received the alert.
- `PlansHold`: `Paddle!Spec => []PlansSafe`. Attempts that come one at a time and in
  order are about the latest event; the plan is that of an event after which each
  one that implies a plan still has to be done with (`DoneWith`). That who pays
  can open the portal needs an assumption on the events: subscriptions name their
  customer, which Paddle requires.
- `NoticesHold`, and `BillingHolds` for both: `Notifier!Spec => []NoticesSafe`. A
  process marks a notice before it sends it, so there is one sender of a marked
  notice at a time (`Sender`), and a notice that is marked is sent, is about to be,
  or was missed.

**`ClientsProofs`**. Again each component has an invariant of its own.

- `HostedHolds`: `Spec => []HostedSafe`. A request may take effect long after its
  sender gave up, so the invariant is of callers and late requests alike. `Single`,
  of a key that needs no approval, does not throw and whose success was not lost:
  one caller owns it from a successful insertion to the end; before its work was
  done no late request can change what it relies on (`Before`), and after it the row
  is succeeded or about to be, so that `markRunning` of a retry is refused
  (`After`). `Untouched`: a denied key is never past its policies, and what late
  requests know of it cannot bring it there. `Paid`, of a parked key, adds what was
  done to what may yet be: the attempts that an approved row still lets in (`Open`),
  those of calls that are in (`Left`), and all of both for each approval that is on
  its way; only asking for an approval makes the sum grow, by an attempt for
  each caller and retry. The bound in `GateDespiteLosses` came from this proof: it is
  of every gated key, flaky or not.
- `TimelineHolds`: `History!Spec => []TimelineTells`, over either bus. `Announced` are
  the events on the log, due, and about to be published. `Truth`: they are what
  the action was. `CaughtUp`: until a loss the last update is announced, or a
  request is before the read that will see it; `Complete`: of requests that come one
  at a time, each update is. `OnceEach`: an update is on the log once and once more for
  each repetition, or is on one way there, in which case one less. `Exact`: while no event
  was put off, a request that is alone has told everything but what it wrote itself.
- `BatchesHold`: `Loop!Spec => []BatchesSafe`. `Working`: work under way has its
  ledger entry to itself. That calls which ask for the same have one key, though
  they differ in shape, order of fields and id, is a lemma about the derivation
  (`SameAsksSameKey`).
- `AdapterHolds`: `Adapter!Spec => []AdapterBounded`. `Excused`: work that was done, was
  given up, or may yet be done by calls under way is no more than the excuses pay
  for, and when none is left over its success is on record or all calls of the key
  are about to record it, so that a call which reads the record now is refused
  unless it overlaps. `Afforded`: keys that have succeeded are counted together
  with those of calls that the budget let past (`Bought`). When a call passes,
  what is not counted yet is of one key for each other call.

**`NumberLemmas`** proves what the others need of natural numbers (bounds of a
finite family, least and greatest elements) from the well-ordering of `Nat`: the
least counterexample takes the place of an induction, which would need an
operator as parameter. In the same way a sum over a set, which the community
modules define as a fold, is shown to count its units, one by one (`SumCounts`),
and everything else about sums follows from counting.

The lemmas `...Effect` say once what an action does to a caller's locals; the
step lemmas have one case per action. An operator that a component takes from a
library module is another one in each instance for the prover: `SameSizes`,
`LimiterSizes` and `LimiterSums` say that it is the same.

**Only model-checked**: every liveness property (`RowsSettle`, `Finishes`, `Settles`,
`ClaimsEnd`, `Recovers`, `BootsEnd`, `EventsSettle`, `AccessRegained`,
`BadgesCatchUp`) and `ENABLED`, which are outside what the prover does here; the
sequences of `Metrics`, `Listings` and of Mission Control's feed (`MetricsAgree`,
`ShownOnce`), whose sorting and selecting is recursion over data.

## Other places where code and words differ

Met while modelling and left out of the runs, because they are about data the
models abstract from or are of little consequence:

- `iterateActions` says newest first (`hosted.ts`), but with a status the API lists
  oldest first. `MemStore.listRecent` orders by the last update and `PgStore` by
  creation.
- "Pages through all recent actions with no gaps or duplicates"
  (`pagination.test.ts:42`) holds in neither store of rows of one millisecond (above);
  going up with a limit of one, a cursor of Postgres repeats a row for ever.
- `percentile` says "Nearest-rank" (`actionEvents.ts:158`); when `p * n` is a multiple of 100
  it takes the value above the nearest rank, of two medians the upper one. `Quantiles` is
  of what it computes. `terminalRuns` counts events, not runs, and an event twice
  that was appended twice; a `created` event may carry a later status, for it is
  read again.
- A `GET` of the action whose key is `page` is answered by the listing. A
  transition of a missing action is answered 204 (`service.ts:439`).
- A crash after `insertOrg` leaves an organisation without owner or key, which
  no later request repairs. Two rotations of one key at a time leave two
  replacements. `seedSampleData` may leave a sample pending.
- `alerts.ts` runs all channels of a retry again, also those that had the alert.
- Reservations that are rolled back may set off the notice of a limit reached;
  `usageNotifier.ts:16` promises exactly one notice, a failed one is not repeated.
- `PgStore.getOrgByClerkId` does not select the customer of Paddle. Webhooks out
  of order leave a stale plan (`paddle.ts:230`); the end of one of two
  subscriptions sets the plan to free (`paddle.ts:147-160`).
- The adapter's README promises the cached result for identical calls (line 9 of
  `adapter-vercel/README.md`); two that overlap both run. `excuses` counts them.
- The batch runners do not catch `ActionRejectedError`: a batch with a rejected
  action throws every time.
- Lost answers leave a hosted row pending or running, with no one to take it over.
- Mission Control: a late answer of `/api/runs` is painted over the merged feed; the
  timer that fades a card renders the approvals over another view.
- The table of keys shows a key that another admin has revoked as active until
  it is reloaded; `UpgradeButton` keeps a rejected load of Paddle.js until then.

## Not modelled

- Configuration, logging and metrics endpoints of the API: no state beyond what
  the components keep. What `wiring.ts` decides is a constant, or an initial
  choice, of the modules it concerns.
- Mission Control's views of runs, workflows and sagas show what one query
  returns, and its demo source makes data up. The other pages of the dashboard
  render one answer or submit one form; checkouts and portals are requests to
  Paddle without state.
- The CLI, the web site, the Python client (a port of the TypeScript one), the
  infrastructure and the examples: presentation and deployment.
- The SQL of Postgres itself: each statement, or transaction, is atomic.

## What is left

The code that keeps state and decides is in a module, and every safety invariant
that a run checks is proved, but for two: `ShownOnce` and `MetricsAgree` need facts
about sorting that the provers cannot derive.
