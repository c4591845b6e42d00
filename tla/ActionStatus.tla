---------------------------- MODULE ActionStatus ----------------------------
(***************************************************************************)
(* The statuses of an action in the cloud, and the steps between them that *)
(* the API lets a request make.                                            *)
(***************************************************************************)

Status == {"pending", "running", "succeeded", "failed", "awaiting_approval",
           "approved", "rejected", "denied"}

(* ALLOWED_TRANSITIONS.                                                    *)
Allowed ==
  [pending |-> {"running", "succeeded", "failed", "awaiting_approval", "denied", "rejected"},
   running |-> {"running", "succeeded", "failed", "awaiting_approval", "denied"},
   awaiting_approval |-> {"approved", "rejected", "denied"},
   approved |-> {"running", "succeeded", "failed"},
   failed |-> {"running", "succeeded", "failed", "awaiting_approval", "denied"},
   succeeded |-> {}, rejected |-> {}, denied |-> {}]

(* What is in one of these does not count against the quota.               *)
NonCounting == {"failed", "denied", "rejected"}
=============================================================================
