------------------------------ MODULE Failover ------------------------------
(***************************************************************************)
(* The request loop of proxy_handler and anthropic_proxy_handler           *)
(* (src/src/proxy/handlers.rs): the list of candidate upstreams, the       *)
(* retries on each, the fallback of an exhausted model, the daily limit    *)
(* each upstream has (UpstreamRateLimiter), the books of the request and   *)
(* the charge for its answer.  Requests run concurrently with each other   *)
(* and with an administrator who changes upstreams and model settings.     *)
(*                                                                         *)
(* A slot is one request in flight, from its arrival to the end of its     *)
(* handler or, for a streamed answer, of the relay task it spawned.        *)
(***************************************************************************)
EXTENDS Integers, Sequences, FiniteSets

CONSTANTS
  Slots,          \* requests in flight at once
  KindOf,         \* KindOf[r]: the API the client of slot r speaks
  Upstreams,
  ApiType,        \* ApiType[u]: the API upstream u speaks
  Limit,          \* Limit[u]: daily request limit of u, 0 for none
  Models,
  TenantOrder,    \* the tenant's upstreams in priority order
  Resolve,        \* Resolve[u]: what resolve_requested_model gives on u
  NoModel,        \* ... when the user may not use the model on u
  AliasChoices,   \* what resolve_conditional_alias_routes may return
  Access,         \* routes check_model_access allows the user
  NoRoute,        \* no fallback configured (or strategy "error")
  MaxRetries,     \* bound: the largest retry_count in use
  Tables,         \* bound: the model settings a behavior may start with
  NewSettings,    \* bound: the settings an administrator may change a model to
  MaxEdits        \* bound: administrator edits per behavior

Kinds == {"openai", "anthropic"}
Routes == Upstreams \X Models
Up(route) == route[1]

\* retry_count, and the fallback route of strategy "route" (NoRoute otherwise).
Settings == [retries : 0..MaxRetries, fallback : Routes \cup {NoRoute}]

\* One element of available_upstreams: the route and its settings as they
\* were when the route was put on the list.
Entries == [route : Routes, retries : 0..MaxRetries,
            fallback : Routes \cup {NoRoute}]

MaxAlias == 2     \* a matching route and the alias's fallback

ASSUME FailoverAssumption ==
  /\ IsFiniteSet(Slots)
  /\ KindOf \in [Slots -> Kinds]
  /\ IsFiniteSet(Upstreams)
  /\ ApiType \in [Upstreams -> Kinds]
  /\ Limit \in [Upstreams -> Nat]
  /\ TenantOrder \in Seq(Upstreams)
  /\ NoModel \notin Models
  /\ Resolve \in [Upstreams -> Models \cup {NoModel}]
  /\ AliasChoices \subseteq Seq(Routes)
  /\ \A a \in AliasChoices : Len(a) <= MaxAlias
  /\ Access \subseteq Routes
  /\ NoRoute \notin Routes
  /\ MaxRetries \in Nat
  /\ Tables \subseteq [Routes -> Settings]
  /\ NewSettings \subseteq Settings
  /\ MaxEdits \in Nat

VARIABLES
  \* shared: StoreManager's caches and the upstream limiter
  live,           \* upstreams that are cached with status "active"
  vis,            \* vis[route]: the retry settings of the model
  used,           \* used[u]: daily_requests of u's window
  edits,          \* administrator edits so far
  \* one handler
  pc,             \* where the handler of slot r is
  stream,         \* stream[r]: the body asked for a streamed answer
  alias,          \* alias[r]: conditional routes still to be considered
  tenant,         \* tenant[r]: tenant upstreams still to be considered
  snap,           \* snap[r]: upstreams active when the tenant's were cloned
  queue,          \* queue[r]: available_upstreams from upstream_idx on
  idx,            \* idx[r]: upstream_idx, entries given up so far
  attempt,        \* attempt[r]: attempts already failed on Head(queue[r])
  tried,          \* tried[r]: tried_upstream_ids
  err,            \* err[r]: last_error
  reply,          \* reply[r]: what the client was told
  book,           \* book[r]: what was ordered for the log row and conversation
  bill,           \* bill[r]: calls of record_usage for this request
  dead            \* history: upstreams not live at any time since r arrived

admin == <<live, vis, edits>>
request == <<stream, alias, tenant, snap>>
books == <<reply, book, bill>>
loop == <<queue, idx, attempt, tried, err>>
vars == <<live, vis, used, edits, pc, stream, alias, tenant, snap, queue,
          idx, attempt, tried, err, reply, book, bill, dead>>

PCs == {"new", "list", "tenant", "check", "await", "body", "stream",
        "exhausted", "giveup", "done"}
Errors == {"none", "local", "429", "500"}
Replies == {"none", "refused", "forbidden", "whole", "stream",
            "rate_limited", "internal", "unavailable", "dropped"}

TypeOK ==
  /\ live \in SUBSET Upstreams
  /\ vis \in [Routes -> Settings]
  /\ used \in [Upstreams -> Nat]
  /\ edits \in 0..MaxEdits
  /\ pc \in [Slots -> PCs]
  /\ stream \in [Slots -> BOOLEAN]
  /\ alias \in [Slots -> Seq(Routes)]
  /\ tenant \in [Slots -> Seq(Upstreams)]
  /\ snap \in [Slots -> SUBSET Upstreams]
  /\ queue \in [Slots -> Seq(Entries)]
  /\ idx \in [Slots -> Nat]
  /\ attempt \in [Slots -> Nat]
  /\ tried \in [Slots -> SUBSET Upstreams]
  /\ err \in [Slots -> Errors]
  /\ reply \in [Slots -> Replies]
  /\ book \in [Slots -> {"none", "open", "success", "failed"}]
  /\ bill \in [Slots -> Nat]
  /\ dead \in [Slots -> SUBSET Upstreams]
-----------------------------------------------------------------------------
\* The settings of a route are copied into the entry with it.
Entry(route) == [route |-> route, retries |-> vis[route].retries,
                 fallback |-> vis[route].fallback]

Current(r) == Head(queue[r])
CurrentUp(r) == Up(Current(r).route)

\* The handler of an API lists only upstreams of that API.
Speaks(r, u) == ApiType[u] = KindOf[r]

\* Mutant of Eligible: the status is not looked at.
EligibleInactive(r, u) == Speaks(r, u)

\* An upstream may be listed for r: cached, active and of the client's API.
Eligible(r, u) == u \in live /\ Speaks(r, u)

\* retry_count > 0 means that many attempts more than the first.
MaxAttempts(r) == IF Current(r).retries > 0 THEN Current(r).retries + 1 ELSE 1

Listed(r) == {Up(queue[r][i].route) : i \in DOMAIN queue[r]}

Init ==
  /\ live \in SUBSET Upstreams
  /\ vis \in Tables
  /\ used = [u \in Upstreams |-> 0]
  /\ edits = 0
  /\ pc = [r \in Slots |-> "new"]
  /\ stream = [r \in Slots |-> FALSE]
  /\ alias = [r \in Slots |-> <<>>]
  /\ tenant = [r \in Slots |-> <<>>]
  /\ snap = [r \in Slots |-> {}]
  /\ queue = [r \in Slots |-> <<>>]
  /\ idx = [r \in Slots |-> 0]
  /\ attempt = [r \in Slots |-> 0]
  /\ tried = [r \in Slots |-> {}]
  /\ err = [r \in Slots |-> "none"]
  /\ reply = [r \in Slots |-> "none"]
  /\ book = [r \in Slots |-> "none"]
  /\ bill = [r \in Slots |-> 0]
  /\ dead = [r \in Slots |-> {}]

Goto(r, label) == pc' = [pc EXCEPT ![r] = label]

-----------------------------------------------------------------------------
(* Before the loop: admission and the list of candidates. *)

\* The key, its limits, the user's quota or the body is refused (4xx).
Refuse(r) ==
  /\ pc[r] = "new"
  /\ Goto(r, "done")
  /\ reply' = [reply EXCEPT ![r] = "refused"]
  /\ UNCHANGED <<admin, used, request, loop, book, bill, dead>>

\* All checks passed; the conditional routes of the model are resolved.
Admit(r) ==
  /\ pc[r] = "new"
  /\ Goto(r, "list")
  /\ \E s \in BOOLEAN : stream' = [stream EXCEPT ![r] = s]
  /\ \E a \in AliasChoices : alias' = [alias EXCEPT ![r] = a]
  /\ tenant' = [tenant EXCEPT ![r] = TenantOrder]
  /\ dead' = [dead EXCEPT ![r] = Upstreams \ live]
  /\ UNCHANGED <<admin, used, snap, loop, books>>

\* A conditional route is listed when its upstream is eligible.
ConsiderAlias(r) ==
  /\ pc[r] = "list" /\ alias[r] # <<>>
  /\ alias' = [alias EXCEPT ![r] = Tail(@)]
  /\ queue' = IF Eligible(r, Up(Head(alias[r])))
              THEN [queue EXCEPT ![r] = Append(@, Entry(Head(alias[r])))]
              ELSE queue
  /\ UNCHANGED <<admin, used, pc, stream, tenant, snap, idx, attempt, tried,
                 err, books, dead>>

\* get_upstreams_by_tenant clones the tenant's upstreams: from here on their
\* status is what it is now.
ListTenant(r) ==
  /\ pc[r] = "list" /\ alias[r] = <<>>
  /\ Goto(r, "tenant")
  /\ snap' = [snap EXCEPT ![r] = live]
  /\ UNCHANGED <<admin, used, stream, alias, tenant, loop, books, dead>>

\* Then each tenant upstream that no conditional route has brought in and on
\* which the user may use the model.
ConsiderTenant(r) ==
  LET u == Head(tenant[r]) IN
  /\ pc[r] = "tenant" /\ tenant[r] # <<>>
  /\ tenant' = [tenant EXCEPT ![r] = Tail(@)]
  /\ queue' = IF /\ u \in snap[r] /\ Speaks(r, u)
                 /\ u \notin Listed(r) /\ Resolve[u] # NoModel
              THEN [queue EXCEPT ![r] = Append(@, Entry(<<u, Resolve[u]>>))]
              ELSE queue
  /\ UNCHANGED <<admin, used, pc, stream, alias, snap, idx, attempt, tried,
                 err, books, dead>>

\* The list is complete: an empty one is 403, otherwise the conversation and
\* the pending log row are created and the loop starts.
StartLoop(r) ==
  /\ pc[r] = "tenant" /\ tenant[r] = <<>>
  /\ IF queue[r] = <<>>
     THEN /\ Goto(r, "done")
          /\ reply' = [reply EXCEPT ![r] = "forbidden"]
          /\ UNCHANGED book
     ELSE /\ Goto(r, "check")
          /\ book' = [book EXCEPT ![r] = "open"]
          /\ UNCHANGED reply
  /\ UNCHANGED <<admin, used, request, loop, bill, dead>>

-----------------------------------------------------------------------------
(* One attempt on the current upstream. *)

\* Mutant of AtLimit: the window may hold one request more than the limit.
AtLimitPast(u) == Limit[u] > 0 /\ used[u] > Limit[u]

AtLimit(u) == Limit[u] > 0 /\ used[u] >= Limit[u]

\* Mutant of LimitRefuses: the refusal is not remembered as last_error.
LimitRefusesSilently(r) ==
  /\ pc[r] = "check" /\ AtLimit(CurrentUp(r))
  /\ Goto(r, "exhausted")
  /\ UNCHANGED <<admin, used, request, loop, books, dead>>

\* check_limit refuses: no further attempt on this upstream.
LimitRefuses(r) ==
  /\ pc[r] = "check" /\ AtLimit(CurrentUp(r))
  /\ err' = [err EXCEPT ![r] = "local"]
  /\ Goto(r, "exhausted")
  /\ UNCHANGED <<admin, used, request, queue, idx, attempt, tried, books, dead>>

\* check_limit passes (it counts nothing) and the request is sent.
Send(r) ==
  /\ pc[r] = "check" /\ ~AtLimit(CurrentUp(r))
  /\ Goto(r, "await")
  /\ UNCHANGED <<admin, used, request, loop, books, dead>>

\* Mutant of AttemptFails: the attempt is not counted.
AttemptFailsUncounted(r, e) ==
  /\ err' = [err EXCEPT ![r] = e]
  /\ Goto(r, IF attempt[r] + 1 < MaxAttempts(r) THEN "check" ELSE "exhausted")
  /\ UNCHANGED <<admin, used, request, queue, idx, attempt, tried, books, dead>>

\* continue 'retry: the next attempt, or none is left.
AttemptFails(r, e) ==
  /\ err' = [err EXCEPT ![r] = e]
  /\ attempt' = [attempt EXCEPT ![r] = @ + 1]
  /\ Goto(r, IF attempt[r] + 1 < MaxAttempts(r) THEN "check" ELSE "exhausted")
  /\ UNCHANGED <<admin, used, request, queue, idx, tried, books, dead>>

\* 429 or a body that says so; any other error status; a failed connection or
\* a timeout, which count as one or the other by their text.
UpstreamFails(r) ==
  /\ pc[r] = "await"
  /\ \E e \in {"429", "500"} : AttemptFails(r, e)

\* A success status for a streamed request: the relay task takes over and the
\* client has its answer.
AnswerStream(r) ==
  /\ pc[r] = "await" /\ stream[r]
  /\ Goto(r, "stream")
  /\ reply' = [reply EXCEPT ![r] = "stream"]
  /\ UNCHANGED <<admin, used, request, loop, book, bill, dead>>

\* A success status for a normal request: its body is read.
ReadBody(r) ==
  /\ pc[r] = "await" /\ ~stream[r]
  /\ Goto(r, "body")
  /\ UNCHANGED <<admin, used, request, loop, books, dead>>

\* The body cannot be read, is not UTF-8 or does not parse.
BodyFails(r) ==
  /\ pc[r] = "body"
  /\ AttemptFails(r, "500")

\* Mutant of Charge: the window counts down.
ChargeDown(r) ==
  /\ used' = [used EXCEPT ![CurrentUp(r)] = @ - 1]
  /\ bill' = [bill EXCEPT ![r] = @ + 1]

\* record_usage on the key's and on the upstream's window.
Charge(r) ==
  /\ used' = [used EXCEPT ![CurrentUp(r)] = @ + 1]
  /\ bill' = [bill EXCEPT ![r] = @ + 1]

\* The body parses; usage is recorded when the upstream reports it.
AnswerWhole(r) ==
  /\ pc[r] = "body"
  /\ Goto(r, "done")
  /\ reply' = [reply EXCEPT ![r] = "whole"]
  /\ book' = [book EXCEPT ![r] = "success"]
  /\ Charge(r) \/ UNCHANGED <<used, bill>>
  /\ UNCHANGED <<admin, request, loop, dead>>

\* Mutant of StreamEnds: a stream that failed is charged as well.
StreamEndsCharged(r) ==
  /\ pc[r] = "stream"
  /\ Goto(r, "done")
  /\ Charge(r)
  /\ \E b \in {"success", "failed"} : book' = [book EXCEPT ![r] = b]
  /\ UNCHANGED <<admin, request, loop, reply, dead>>

\* The relay task reaches the end of the upstream's stream, whether or not
\* the client still listens; an empty stream counts as failed.
StreamEnds(r) ==
  /\ pc[r] = "stream"
  /\ Goto(r, "done")
  /\ \/ /\ Charge(r)
        /\ book' = [book EXCEPT ![r] = "success"]
     \/ /\ book' = [book EXCEPT ![r] = "failed"]
        /\ UNCHANGED <<used, bill>>
  /\ UNCHANGED <<admin, request, loop, reply, dead>>

-----------------------------------------------------------------------------
(* After the last attempt on an upstream. *)

\* Mutants of FallbackUsable: tried upstreams come back; access is not checked.
FallbackAgain(r, f, triedNow) ==
  f # NoRoute /\ Eligible(r, Up(f)) /\ f \in Access

FallbackUnchecked(r, f, triedNow) ==
  f # NoRoute /\ Eligible(r, Up(f)) /\ Up(f) \notin triedNow

\* The fallback of the exhausted entry may be inserted: strategy "route", the
\* upstream eligible, the user allowed, and not tried for this request yet.
FallbackUsable(r, f, triedNow) ==
  /\ f # NoRoute
  /\ Eligible(r, Up(f))
  /\ f \in Access
  /\ Up(f) \notin triedNow

\* Mutant of NextUpstream: only the last upstream is remembered as tried.
NextUpstreamForgets(r) ==
  LET f    == Current(r).fallback
      rest == IF FallbackUsable(r, f, {CurrentUp(r)})
              THEN <<Entry(f)>> \o Tail(queue[r])
              ELSE Tail(queue[r])
  IN
  /\ pc[r] = "exhausted"
  /\ tried' = [tried EXCEPT ![r] = {CurrentUp(r)}]
  /\ queue' = [queue EXCEPT ![r] = rest]
  /\ idx' = [idx EXCEPT ![r] = @ + 1]
  /\ attempt' = [attempt EXCEPT ![r] = 0]
  /\ Goto(r, IF rest = <<>> THEN "giveup" ELSE "check")
  /\ UNCHANGED <<admin, used, request, err, books, dead>>

\* The walk goes on with the inserted fallback, the next entry, or gives up.
NextUpstream(r) ==
  LET f        == Current(r).fallback
      triedNow == tried[r] \cup {CurrentUp(r)}
      rest     == IF FallbackUsable(r, f, triedNow)
                  THEN <<Entry(f)>> \o Tail(queue[r])
                  ELSE Tail(queue[r])
  IN
  /\ pc[r] = "exhausted"
  /\ tried' = [tried EXCEPT ![r] = triedNow]
  /\ queue' = [queue EXCEPT ![r] = rest]
  /\ idx' = [idx EXCEPT ![r] = @ + 1]
  /\ attempt' = [attempt EXCEPT ![r] = 0]
  /\ Goto(r, IF rest = <<>> THEN "giveup" ELSE "check")
  /\ UNCHANGED <<admin, used, request, err, books, dead>>

\* The reply of a request that no upstream answered: the last error.
ErrorReply(r) ==
  CASE err[r] \in {"local", "429"} -> "rate_limited"
    [] err[r] = "500" -> "internal"
    [] err[r] = "none" -> "unavailable"

GiveUp(r) ==
  /\ pc[r] = "giveup"
  /\ Goto(r, "done")
  /\ reply' = [reply EXCEPT ![r] = ErrorReply(r)]
  /\ book' = [book EXCEPT ![r] = "failed"]
  /\ UNCHANGED <<admin, used, request, loop, bill, dead>>

-----------------------------------------------------------------------------
(* The client, the slot and the administrator. *)

\* The client closes its connection: the server drops the handler where it is
\* suspended (a retry delay, the upstream call, the body, an error log write).
Disconnect(r) ==
  /\ \/ pc[r] \in {"await", "body", "exhausted"}
     \/ pc[r] = "check" /\ attempt[r] > 0
  /\ Goto(r, "done")
  /\ reply' = [reply EXCEPT ![r] = "dropped"]
  /\ UNCHANGED <<admin, used, request, loop, book, bill, dead>>

\* The slot is free for another request.
Recycle(r) ==
  /\ pc[r] = "done"
  /\ Goto(r, "new")
  /\ stream' = [stream EXCEPT ![r] = FALSE]
  /\ alias' = [alias EXCEPT ![r] = <<>>]
  /\ tenant' = [tenant EXCEPT ![r] = <<>>]
  /\ snap' = [snap EXCEPT ![r] = {}]
  /\ queue' = [queue EXCEPT ![r] = <<>>]
  /\ idx' = [idx EXCEPT ![r] = 0]
  /\ attempt' = [attempt EXCEPT ![r] = 0]
  /\ tried' = [tried EXCEPT ![r] = {}]
  /\ err' = [err EXCEPT ![r] = "none"]
  /\ reply' = [reply EXCEPT ![r] = "none"]
  /\ book' = [book EXCEPT ![r] = "none"]
  /\ bill' = [bill EXCEPT ![r] = 0]
  /\ dead' = [dead EXCEPT ![r] = {}]
  /\ UNCHANGED <<admin, used>>

Edit == edits < MaxEdits /\ edits' = edits + 1

\* An upstream is activated, or deactivated or deleted, in the cache.
SetUpstream(u) ==
  /\ Edit
  /\ \/ /\ u \in live
        /\ live' = live \ {u}
        /\ UNCHANGED dead
     \/ /\ u \notin live
        /\ live' = live \cup {u}
        /\ dead' = [r \in Slots |-> dead[r] \ {u}]
  /\ UNCHANGED <<vis, used, pc, request, loop, books>>

\* The retry settings of a model change; listed entries keep theirs.
SetVisibility(route) ==
  /\ Edit
  /\ \E s \in NewSettings : vis' = [vis EXCEPT ![route] = s]
  /\ UNCHANGED <<live, used, pc, request, loop, books, dead>>

\* update_upstream with a limit in it drops the upstream's window.
ResetWindow(u) ==
  /\ used' = [used EXCEPT ![u] = 0]
  /\ UNCHANGED <<admin, pc, request, loop, books, dead>>

\* The date changes: every window restarts its daily count.
NewDay ==
  /\ used' = [u \in Upstreams |-> 0]
  /\ UNCHANGED <<admin, pc, request, loop, books, dead>>

Handler(r) ==
  \/ ConsiderAlias(r) \/ ListTenant(r) \/ ConsiderTenant(r) \/ StartLoop(r)
  \/ LimitRefuses(r) \/ Send(r)
  \/ UpstreamFails(r) \/ AnswerStream(r) \/ ReadBody(r)
  \/ BodyFails(r) \/ AnswerWhole(r) \/ StreamEnds(r)
  \/ NextUpstream(r) \/ GiveUp(r)

Client(r) == Refuse(r) \/ Admit(r) \/ Disconnect(r) \/ Recycle(r)

Admin ==
  \/ \E u \in Upstreams : SetUpstream(u) \/ ResetWindow(u)
  \/ \E route \in Routes : SetVisibility(route)
  \/ NewDay

Next ==
  \/ \E r \in Slots : Handler(r) \/ Client(r)
  \/ Admin

Spec == Init /\ [][Next]_vars

\* The runtime polls every handler, and an upstream that neither answers nor
\* fails runs into the client's read timeout.
FairSpec == Spec /\ \A r \in Slots : WF_vars(Handler(r))

-----------------------------------------------------------------------------
(* Properties. *)

\* Requests that passed u's limit check and have not been counted yet.
Using(u) == {r \in Slots : /\ pc[r] \in {"await", "body", "stream"}
                           /\ CurrentUp(r) = u}

\* check_limit and record_usage are far apart, so concurrent requests overshoot
\* an upstream's limit; each request in flight but the one that fills the
\* window can add one, never more, however many requests come and go.
UpstreamOvershoot ==
  \A u \in Upstreams :
    Limit[u] > 0 => used[u] <= Limit[u] + Cardinality(Slots) - 1

\* The strengthening that is inductive: once the window is full, what was
\* counted and what may still be counted stay below that bound.
OvershootInv ==
  \A u \in Upstreams :
    Limit[u] > 0 /\ used[u] >= Limit[u] =>
      used[u] + Cardinality(Using(u)) <= Limit[u] + Cardinality(Slots) - 1

\* What is left of the loop: listed entries, and upstreams a fallback can add.
Seen(r) == tried[r] \cup (IF queue[r] = <<>> THEN {} ELSE {CurrentUp(r)})
Fuel(r) == Len(queue[r]) + Cardinality(Upstreams \ Seen(r))

\* Fallbacks insert into the list the loop walks over, and may name each other;
\* still every entry given up brings the loop strictly closer to its end.
FuelBurns ==
  [][\A r \in Slots : idx'[r] > idx[r] => Fuel(r)' < Fuel(r)]_vars

\* ... so a request walks over a bounded number of entries, whatever fallbacks
\* the administrators configure, also while it runs.
VisitBound ==
  \A r \in Slots :
    idx[r] + Fuel(r) <= MaxAlias + Len(TenantOrder) + Cardinality(Upstreams)

\* An upstream that was deactivated or deleted before the request arrived and
\* stayed so is never contacted for it, through whichever of the three places
\* that list an upstream.
NeverDead == \A r \in Slots : Listed(r) \cap dead[r] = {}

\* Every candidate speaks the client's API, and is a route of the alias, the
\* resolved model of a tenant upstream or a fallback the user has access to.
OnlyPermitted ==
  \A r \in Slots : \A i \in DOMAIN queue[r] :
    LET route == queue[r][i].route IN
    /\ ApiType[Up(route)] = KindOf[r]
    /\ \/ \E a \in AliasChoices : \E k \in DOMAIN a : a[k] = route
       \/ Up(route) \in Upstreams /\ Resolve[Up(route)] = route[2]
       \/ route \in Access

\* The 503 at the end of both handlers cannot happen: whoever ran out of
\* upstreams knows why, since every entry makes at least one attempt.
NeverUnavailable ==
  \A r \in Slots :
    /\ reply[r] # "unavailable"
    /\ pc[r] = "giveup" => err[r] # "none"

\* Every request ends: no configuration of retries and fallbacks keeps a
\* handler in its loop.
EveryRequestEnds ==
  \A r \in Slots : pc[r] \notin {"new", "done"} ~> pc[r] = "done"

\* Refinement: the promise to the client, the books and the charge.
OutcomeOf(told) ==
  CASE told = "none" -> "none"
    [] told \in {"refused", "forbidden"} -> "refused"
    [] told \in {"whole", "stream"} -> "answered"
    [] told \in {"rate_limited", "internal", "unavailable"} -> "error"
    [] told = "dropped" -> "abandoned"

outcome == [r \in Slots |-> OutcomeOf(reply[r])]

Promise == INSTANCE ProxyPromise WITH ledger <- book, charges <- bill

\* The handlers keep the promise of ProxyPromise in every step.
KeepsPromise == Promise!Spec

\* README.md:18 promises "automatic upstream blocking on 429 errors": after a
\* 429 the same upstream is not asked again by the same request's retries.
BlockedAfter429 ==
  [][\A r \in Slots :
       pc[r] = "check" /\ attempt[r] > 0 /\ err[r] = "429" => pc'[r] # "await"]_vars

=============================================================================
