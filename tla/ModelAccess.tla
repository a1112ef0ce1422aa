---------------------------- MODULE ModelAccess ----------------------------
(***************************************************************************)
(* What a requested model name means to a user: the read side of           *)
(* StoreManager's model settings (src/src/store/mod.rs).  vis is the map   *)
(* of visibility rows, one per upstream and model; routes is the map of    *)
(* smart routes (conditional aliases), one per alias.  The maps come from  *)
(* ModelSettings, which also applies these operators to the database, to   *)
(* compare what is served with what is stored.                             *)
(***************************************************************************)
EXTENDS Integers, FiniteSets, Sequences

CONSTANTS
  Keys,        \* the models of the upstreams that have or may get a row
  UpstreamOf,  \* UpstreamOf[k]: the upstream of key k
  ModelOf,     \* ModelOf[k]: the name of the model there
  Ollama,      \* the upstreams whose api_type or provider is ollama
  Offered,     \* Offered[p]: the models column of upstream p, {} for any
  Base,        \* Base[x]: the name x without the suffix ":latest"
  None,        \* no row, no route, no condition, no answer
  Blank        \* an empty time string, which is not an absent one

Upstreams == {UpstreamOf[k] : k \in Keys}
At(k) == <<UpstreamOf[k], ModelOf[k]>>
ModelNames == {ModelOf[k] : k \in Keys}

\* UNIQUE(upstream_id, model_name); no name stands for the absence of one.
ASSUME ModelAccessAssumption ==
  /\ \A j, k \in Keys : At(j) = At(k) => j = k
  /\ None \notin ModelNames \cup UNION {Offered[p] : p \in Upstreams}

\* model_name_matches: an ollama upstream takes m and m:latest for one model.
Same(p, x, y) == x = y \/ (p \in Ollama /\ Base[x] = Base[y])

\* model_visibility_allows_user and is_visible_to.
Allows(entry, u) == entry.all \/ u \in entry.users

\* Mutant of CheckAccess: a smart route goes where its rules say.
CheckAccessNever(vis, u, k) == TRUE

\* check_model_access: a model without a row is open to everyone.
CheckAccess(vis, u, k) ==
  k \in DOMAIN vis /\ vis[k] # None => Allows(vis[k], u)

\* resolve_requested_model.  The map is iterated in no particular order: each
\* row that could answer is a possible answer.
Resolutions(vis, u, p, name) ==
  LET rows == {k \in DOMAIN vis : UpstreamOf[k] = p /\ vis[k] # None}
      byAlias == {k \in rows : \E a \in vis[k].aliases : Same(p, a, name)}
      granted == {k \in byAlias : Allows(vis[k], u)}
      direct == {k \in rows \ byAlias : Same(p, ModelOf[k], name)}
      supported == Offered[p] = {} \/ \E m \in Offered[p] : Same(p, m, name)
  IN CASE ~supported     -> {None}
       [] supported /\ granted # {} -> {ModelOf[k] : k \in granted}
       [] supported /\ granted = {} /\ byAlias # {} -> {None}
       [] supported /\ byAlias = {} /\ direct # {} ->
            {IF Allows(vis[k], u) THEN ModelOf[k] ELSE None : k \in direct}
       [] supported /\ byAlias = {} /\ direct = {} ->
            {IF rows = {} THEN name ELSE None}
-----------------------------------------------------------------------------
(* Smart routes.  A configuration is [rules, fallback, all, users], a rule *)
(* [to, min, max, words, image, from, until].                              *)

\* matches_time_range; both ends belong to the range.
InTime(rule, time) ==
  /\ rule.from # None => time >= rule.from
  /\ rule.until # None => time <= rule.until

\* matches: one of the keywords is enough, everything else must hold.
Matches(rule, req) ==
  /\ rule.image => req.image
  /\ rule.min # None => req.tokens >= rule.min
  /\ rule.max # None => req.tokens <= rule.max
  /\ rule.words = {} \/ rule.words \cap req.words # {}
  /\ InTime(rule, req.time)

\* resolve_conditional_alias_routes: the first rule that matches, then the
\* fallback; models the user may not have are passed over.
RouteTargets(vis, cfg, u, req) ==
  LET hits == {i \in DOMAIN cfg.rules :
                 CheckAccess(vis, u, cfg.rules[i].to) /\ Matches(cfg.rules[i], req)}
      first == cfg.rules[CHOOSE i \in hits : \A j \in hits : i <= j].to
      back == IF CheckAccess(vis, u, cfg.fallback) THEN <<cfg.fallback>> ELSE <<>>
  IN IF cfg = None \/ ~Allows(cfg, u) THEN <<>>
     ELSE IF hits = {} THEN back
     ELSE <<first>> \o (IF back = <<first>> THEN <<>> ELSE back)

\* The upstreams and models a request may be sent to: those of the smart route
\* first, then what the other upstreams make of the name.
Candidates(vis, routes, u, name, req) ==
  LET cfg == IF name \in DOMAIN routes THEN routes[name] ELSE None
      targets == RouteTargets(vis, cfg, u, req)
      routed == {targets[i] : i \in DOMAIN targets}
  IN {At(k) : k \in routed} \cup
     UNION {{<<p, m>> : m \in Resolutions(vis, u, p, name) \ {None}} :
              p \in Upstreams \ {UpstreamOf[k] : k \in routed}}

\* Mutant of RowNames: the list shows every row.
RowNamesOfAll(vis, u) ==
  UNION {IF vis[k].aliases = {} THEN {ModelOf[k]} ELSE vis[k].aliases :
           k \in {j \in DOMAIN vis : vis[j] # None}}

\* get_visible_models: what GET /v1/models shows to u, as sets of names.
\* The models column is listed whatever the rows say about its models.
RowNames(vis, u) ==
  UNION {IF vis[k].aliases = {} THEN {ModelOf[k]} ELSE vis[k].aliases :
           k \in {j \in DOMAIN vis : vis[j] # None /\ Allows(vis[j], u)}}
SeenNames(vis, u) ==
  UNION {{ModelOf[k]} \cup vis[k].aliases :
           k \in {j \in DOMAIN vis : vis[j] # None /\ Allows(vis[j], u)}}
ColumnNames(vis, u) == UNION {Offered[p] : p \in Upstreams} \ SeenNames(vis, u)
RouteNames(routes, u) == {a \in DOMAIN routes : routes[a] # None /\ Allows(routes[a], u)}
=============================================================================
