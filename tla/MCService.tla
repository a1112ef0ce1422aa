----------------------------- MODULE MCService -----------------------------
(***************************************************************************)
(* A small instance of Service: first start, the administrator, a second   *)
(* user who may be promoted, demoted and disabled, and one API key.        *)
(***************************************************************************)
EXTENDS Service

CONSTANTS u1, u2

MCAsked ==
  {[op |-> "create", user |-> u2, name |-> "own", admin |-> a] : a \in BOOLEAN}
    \cup {[op |-> "edit", user |-> u1, admin |-> FALSE, active |-> Keep]}
    \cup {[op |-> "edit", user |-> u, admin |-> Keep, active |-> FALSE] : u \in {u1, u2}}
    \cup {[op |-> "delete", user |-> u2]}
    \cup {[op |-> "issue", key |-> k, user |-> u1] : k \in Keys}
    \cup {[op |-> "toggle", key |-> k, active |-> FALSE] : k \in Keys}
    \cup {[op |-> "revoke", key |-> k] : k \in Keys}
=============================================================================
