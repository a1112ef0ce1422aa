----------------------------- MODULE MCFailover -----------------------------
(* Instances of Failover for TLC: contention on limits, and routing. *)
EXTENDS Failover

CONSTANTS s1, s2, u1, u2, u3, m, n

\* Contention: two requests, two upstreams, the first with a limit and a retry.
CSlots == {s1, s2}
CKind == [r \in CSlots |-> "openai"]
CUpstreams == {u1, u2}
CApi == [u \in CUpstreams |-> "openai"]
CLimit == [u \in CUpstreams |-> IF u = u1 THEN 1 ELSE 2]
CModels == {m}
COrder == <<u1, u2>>
CResolve == [u \in CUpstreams |-> m]
CAlias == {<<>>}
CAccess == {<<u1, m>>, <<u2, m>>}
CTables == {[route \in CUpstreams \X CModels |->
               [retries |-> IF route[1] = u1 THEN 1 ELSE 0,
                fallback |-> NoRoute]]}
CNew == {}

\* Routing: one request, three upstreams of which u3 speaks the other API,
\* aliases that name an upstream twice, fallbacks that name each other.
RSlots == {s1}
RKind == [r \in RSlots |-> "openai"]
RUpstreams == {u1, u2, u3}
RApi == [u \in RUpstreams |-> IF u = u3 THEN "anthropic" ELSE "openai"]
RLimit == [u \in RUpstreams |-> IF u = u3 THEN 0 ELSE 1]
RModels == {m, n}
ROrder == <<u1, u3, u2>>
RResolve == [u \in RUpstreams |-> IF u = u2 THEN NoModel ELSE m]
RAlias == {<<>>, <<<<u1, n>>>>, <<<<u1, n>>, <<u1, m>>>>, <<<<u3, m>>, <<u2, m>>>>}
RAccess == {<<u1, m>>, <<u2, m>>, <<u3, n>>}
RRoutes == RUpstreams \X RModels
RTables ==
  LET P == [retries |-> 0, fallback |-> NoRoute] IN
  { [route \in RRoutes |-> P],
    [route \in RRoutes |-> IF route[1] = u1
                           THEN [retries |-> 1, fallback |-> <<u2, m>>]
                           ELSE [retries |-> 0, fallback |-> <<u1, m>>]],
    [route \in RRoutes |-> IF route = <<u1, n>>
                           THEN [retries |-> 0, fallback |-> <<u3, n>>]
                           ELSE [retries |-> 0, fallback |-> <<u2, n>>]] }
RNew == {[retries |-> 0, fallback |-> <<u1, m>>], [retries |-> 1, fallback |-> NoRoute]}
=============================================================================
