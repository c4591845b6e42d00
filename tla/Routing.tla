------------------------------- MODULE Routing -------------------------------
(***************************************************************************)
(* handleRequest() of router.ts and the two clients that build requests    *)
(* for it: HostedLedger of packages/core (hosted.ts), with an API key, and *)
(* QuorvelClient of the dashboard (quorvel.ts), with the dashboard's       *)
(* secret and the organisation of who is signed in.                        *)
(*                                                                         *)
(* A path is the sequence of its segments; what a client encodes into one  *)
(* the router decodes.  The handlers are the other modules' business: here *)
(* one is named, and runs or throws.                                       *)
(***************************************************************************)
EXTENDS Integers, Sequences, FiniteSets, SequencesExt

CONSTANTS
  Keys,             \* idempotency keys and ids that clients put into paths
  Orgs,
  Wild              \* a segment of a pattern that matches any one

(* The segments that routes name.                                          *)
Named ==
  {"v1", "health", "webhooks", "paddle", "orgs", "provision", "billing", "checkout", "portal", "usage", "me",
   "account", "keys", "rotate", "audit", "dlq", "replay", "alert-rules", "onboarding", "sample", "actions",
   "page", "events", "metrics", "stats", "running", "succeeded", "failed", "awaiting-approval", "approved",
   "rejected", "denied"}

RoutingAssumption == Wild \notin Keys \cup Named

VARIABLES
  sent,             \* the request under way and the call of a client it was made for
  executed,         \* the operation it led to, if any
  reply             \* the status of the response and what the client makes of it

routingVars == <<sent, executed, reply>>

-----------------------------------------------------------------------------
(* The routes in the order in which handleRequest() tries them.            *)
Route(methods, path, op) == [methods |-> methods, path |-> path, op |-> op]
In(root, path, method, op) == Route({method}, <<"v1", root>> \o path, op)

PublicRoutes ==
  << Route({"GET"}, <<>>, "index"), Route({"GET"}, <<"health">>, "health"),
     In("webhooks", <<"paddle">>, "POST", "handlePaddleWebhook"),
     In("orgs", <<"provision">>, "POST", "provisionOrg") >>

AccountRoutes ==
  << In("billing", <<"checkout">>, "POST", "createCheckout"), In("usage", <<>>, "GET", "usage"),
     In("me", <<>>, "GET", "me"),
     In("account", <<"keys">>, "GET", "listApiKeys"), In("account", <<"keys">>, "POST", "createApiKey"),
     In("account", <<"keys", Wild, "rotate">>, "POST", "rotateApiKey"),
     Route({"DELETE", "POST"}, <<"v1", "account", "keys", Wild>>, "revokeApiKey"),
     In("audit", <<>>, "GET", "listAuditLog") >>

OperatorRoutes ==
  << In("dlq", <<>>, "GET", "listDeadLetters"), In("dlq", <<Wild, "replay">>, "POST", "replayDeadLetter"),
     In("dlq", <<Wild>>, "GET", "getDeadLetter"), In("dlq", <<Wild>>, "DELETE", "discardDeadLetter"),
     In("alert-rules", <<>>, "GET", "listAlertRules"), In("alert-rules", <<>>, "POST", "createAlertRule"),
     In("alert-rules", <<Wild>>, "POST", "updateAlertRule"), In("alert-rules", <<Wild>>, "DELETE", "deleteAlertRule"),
     In("billing", <<"portal">>, "POST", "createBillingPortal"),
     In("onboarding", <<"sample">>, "POST", "seedSampleData") >>

Marks == <<"running", "succeeded", "failed", "awaiting-approval", "approved", "rejected", "denied">>
MarkRoutes == [i \in DOMAIN Marks |-> In("actions", <<Wild, Marks[i]>>, "POST", Marks[i])]

(* Faulty ActionRoutes: an action is looked for before the pages.          *)
ActionRoutesKeyFirst ==
  << In("actions", <<>>, "POST", "insertPending"), In("actions", <<>>, "GET", "list"),
     In("actions", <<Wild>>, "GET", "getAction"), In("actions", <<"page">>, "GET", "pageActions"),
     In("events", <<>>, "GET", "listEvents"), In("metrics", <<>>, "GET", "metrics"),
     In("stats", <<>>, "POST", "stats"), In("actions", <<Wild, "events">>, "GET", "runTimeline") >>
  \o MarkRoutes

ActionRoutes ==
  << In("actions", <<>>, "POST", "insertPending"), In("actions", <<>>, "GET", "list"),
     In("actions", <<"page">>, "GET", "pageActions"), In("events", <<>>, "GET", "listEvents"),
     In("metrics", <<>>, "GET", "metrics"), In("stats", <<>>, "POST", "stats"),
     In("actions", <<Wild, "events">>, "GET", "runTimeline"), In("actions", <<Wild>>, "GET", "getAction") >>
  \o MarkRoutes

OrgRoutes == AccountRoutes \o OperatorRoutes \o ActionRoutes

Matches(route, method, path) ==
  /\ method \in route.methods /\ Len(path) = Len(route.path)
  /\ \A i \in DOMAIN path : route.path[i] \in {path[i], Wild}

(* The first route that matches, and what Wild stands for in it.           *)
Dispatch(routes, method, path) ==
  LET i == SelectInSeq(routes, LAMBDA route : Matches(route, method, path))
      keys == {j \in DOMAIN routes[i].path : routes[i].path[j] = Wild}
  IN IF i = 0 THEN {}
     ELSE {[op |-> routes[i].op, key |-> IF keys = {} THEN Wild ELSE path[CHOOSE j \in keys : TRUE]]}

-----------------------------------------------------------------------------
(* The calls of the clients: the operation meant, and the request made.    *)
Sends(method, root, path, op, key) ==
  [method |-> method, path |-> <<"v1", root>> \o path, op |-> op, key |-> key]
Plain(method, root, path, op) == Sends(method, root, path, op, Wild)

LedgerCalls ==
  {Sends("GET", "actions", <<k>>, "getAction", k) : k \in Keys}
  \cup {Sends("POST", "actions", <<k, mark>>, mark, k) : k \in Keys, mark \in ToSet(Marks)}
  \cup {Plain("POST", "actions", <<>>, "insertPending"), Plain("GET", "actions", <<>>, "list"),
        Plain("GET", "actions", <<"page">>, "pageActions"), Plain("POST", "stats", <<>>, "stats")}

DashboardReads ==
  (UNION {{Sends("GET", "actions", <<k>>, "getAction", k),
           Sends("GET", "actions", <<k, "events">>, "runTimeline", k)} : k \in Keys})
  \cup {Plain("GET", "actions", <<>>, "list"), Plain("GET", "actions", <<"page">>, "pageActions"),
        Plain("GET", "usage", <<>>, "usage"), Plain("GET", "events", <<>>, "listEvents"),
        Plain("GET", "metrics", <<>>, "metrics"), Plain("GET", "me", <<>>, "me"),
        Plain("GET", "alert-rules", <<>>, "listAlertRules"),
        Plain("GET", "account", <<"keys">>, "listApiKeys"), Plain("GET", "audit", <<>>, "listAuditLog")}

DashboardWrites ==
  (UNION {{Sends("POST", "actions", <<k, "approved">>, "approved", k),
           Sends("POST", "actions", <<k, "rejected">>, "rejected", k),
           Sends("POST", "alert-rules", <<k>>, "updateAlertRule", k),
           Sends("DELETE", "alert-rules", <<k>>, "deleteAlertRule", k),
           Sends("POST", "account", <<"keys", k, "rotate">>, "rotateApiKey", k),
           Sends("DELETE", "account", <<"keys", k>>, "revokeApiKey", k)} : k \in Keys})
  \cup {Plain("POST", "billing", <<"checkout">>, "createCheckout"),
        Plain("POST", "orgs", <<"provision">>, "provisionOrg"),
        Plain("POST", "alert-rules", <<>>, "createAlertRule"),
        Plain("POST", "account", <<"keys">>, "createApiKey"),
        Plain("POST", "billing", <<"portal">>, "createBillingPortal"),
        Plain("POST", "onboarding", <<"sample">>, "seedSampleData")}

Nothing == [op |-> "none", key |-> Wild, org |-> "none"]
NoReply == [status |-> 0, outcome |-> "none"]
NoRequest == [client |-> "none", call |-> Plain("GET", "none", <<>>, "none"), secret |-> "none", bearer |-> "none",
              org |-> "none", idempotent |-> FALSE]

Init == sent = NoRequest /\ executed = Nothing /\ reply = NoReply

(* request() of HostedLedger: an API key, live, revoked or another's.      *)
LedgerAsks(call, org, bearer, idempotent) ==
  /\ sent = NoRequest
  /\ sent' = [client |-> "ledger", call |-> call, secret |-> "none", bearer |-> bearer, org |-> org,
              idempotent |-> idempotent]
  /\ UNCHANGED <<executed, reply>>

(* request() of QuorvelClient: the secret, which may be out of date.       *)
DashboardAsks(call, org, secret) ==
  /\ sent = NoRequest
  /\ sent' = [client |-> "dashboard", call |-> call, secret |-> secret, bearer |-> "none", org |-> org,
              idempotent |-> FALSE]
  /\ UNCHANGED <<executed, reply>>

-----------------------------------------------------------------------------
(* A secret that is present is what counts, else the API key.              *)
Authenticated == IF sent.secret # "none" THEN sent.secret = "right" ELSE sent.bearer = "live"

Respond(status) == reply' = [NoReply EXCEPT !.status = status]
Execute(found, org) == executed' = [op |-> found.op, key |-> found.key, org |-> org]

(* What a handler answers or throws: ApiError has a status of its own.     *)
Statuses(op) == IF op \in ToSet(Marks) THEN {204, 409, 500} ELSE {200, 404, 409, 500}

(* withIdempotency() may answer in the handler's stead.                    *)
Wrapped == sent.idempotent /\ sent.call.method \in {"POST", "DELETE"}

HandleRequest ==
  LET call == sent.call
      public == Dispatch(PublicRoutes, call.method, call.path)
      found == Dispatch(OrgRoutes, call.method, call.path)
  IN /\ sent # NoRequest /\ reply = NoReply
     /\ \/ /\ public # {}
           /\ \E route \in public :
                IF route.op = "provisionOrg" /\ sent.secret # "right"
                THEN Respond(401) /\ UNCHANGED executed
                ELSE Execute(route, sent.org) /\ \E status \in Statuses(route.op) : Respond(status)
        \/ /\ public = {} /\ ~Authenticated /\ Respond(401) /\ UNCHANGED executed
        \/ /\ public = {} /\ Authenticated /\ found = {} /\ Respond(404) /\ UNCHANGED executed
        \/ /\ public = {} /\ Authenticated
           /\ \E route \in found : Execute(route, sent.org) /\ \E status \in Statuses(route.op) : Respond(status)
        \/ /\ public = {} /\ Authenticated /\ Wrapped
           /\ \E status \in {200, 409, 422} : Respond(status) /\ UNCHANGED executed
     /\ UNCHANGED sent

(* HostedLedger takes a 404 for an answer: no such action, or a mark that  *)
(* it does not read.  QuorvelClient takes none but 2xx.                    *)
Receive ==
  /\ reply.status # 0 /\ reply.outcome = "none"
  /\ reply' = [reply EXCEPT !.outcome =
       IF reply.status \in 200 .. 299 \/ (sent.client = "ledger" /\ reply.status = 404) THEN "returned" ELSE "threw"]
  /\ UNCHANGED <<sent, executed>>

Done ==
  /\ reply.outcome # "none"
  /\ sent' = NoRequest /\ executed' = Nothing /\ reply' = NoReply

Next ==
  \/ \E org \in Orgs :
       \/ \E call \in LedgerCalls, bearer \in {"live", "revoked"}, idempotent \in BOOLEAN :
            LedgerAsks(call, org, bearer, idempotent)
       \/ \E call \in DashboardReads \cup DashboardWrites, secret \in {"right", "wrong"} :
            DashboardAsks(call, org, secret)
  \/ HandleRequest \/ Receive \/ Done

Spec == Init /\ [][Next]_routingVars
-----------------------------------------------------------------------------
(* Type correctness.                                                       *)
TypeOK ==
  /\ sent # NoRequest => sent.call \in LedgerCalls \cup DashboardReads \cup DashboardWrites
  /\ executed.key \in Keys \cup {Wild} /\ reply.outcome \in {"none", "returned", "threw"}

(* A request leads to the operation its client meant, with its key and for *)
(* its organisation, and to no other: no route shadows another.  All but   *)
(* one: GET of an action whose key is "page" is taken for the pages.       *)
ReachesItsOperation ==
  LET call == sent.call
      shadowed == call.op = "getAction" /\ call.key = "page"
  IN executed # Nothing =>
       /\ executed.org = sent.org
       /\ executed = [op |-> call.op, key |-> call.key, org |-> sent.org] \/ shadowed

(* And a mark that HostedLedger takes to be made has reached the action,   *)
(* or was answered for an earlier request of the same idempotency key: the *)
(* 404 it takes for success (hosted.ts:201) is not that of the router.     *)
MarksArrive ==
  /\ sent.client = "ledger" /\ sent.call.op \in ToSet(Marks) /\ reply.outcome = "returned"
  => executed.op = sent.call.op \/ Wrapped

(* What a client of the API may rely on.                                   *)
RequestsArrive == TypeOK /\ ReachesItsOperation /\ MarksArrive
=============================================================================
