---------------------------- MODULE MCUpstreams ----------------------------
(* Two upstreams, two keys, two administrators. *)
EXTENDS Upstreams, TLC

With(jwt, upstream, secret) ==
  [cfg |-> [jwt |-> jwt, upstream |-> upstream], env |-> secret]

MCInstalled ==
  {With(Weak, None, None), With(<<"jwt", 1>>, Blank, None),
   With(<<"jwt", 1>>, None, <<"env", 0>>),
   With(<<"jwt", 1>>, <<"upstream", 1>>, <<"upstream", 1>>),
   With(<<"jwt", 1>>, <<"upstream", 1>>, None)}

\* States after a mishap are checked, and not followed any further.
Unharmed == mishaps = {}

Symmetry == Permutations(Upstreams) \cup Permutations(Keys) \cup Permutations(Admins)
=============================================================================
