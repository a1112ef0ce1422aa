-------------------------- MODULE MCModelSettings --------------------------
(* Constants for TLC.  The ollama upstream "p" has a models column and two *)
(* models with rows, "q" has neither column nor ollama's naming.  Two      *)
(* of the aliases differ in ":latest" only.                                *)
EXTENDS ModelSettings, TLC

CONSTANTS k1, k2, k3

MCUpstreamOf == (k1 :> "p") @@ (k2 :> "p") @@ (k3 :> "q")
MCModelOf == (k1 :> "m") @@ (k2 :> "n") @@ (k3 :> "n")
MCOffered == [p |-> {"m", "a", "b"}, q |-> {}]
MCBase == [x \in {"m", "n", "a", "b", "a:latest"} |-> IF x = "a:latest" THEN "a" ELSE x]

Save(k, aliases, all, users) ==
  [op |-> "save", key |-> k, want |-> [aliases |-> aliases, all |-> all, users |-> users]]

Rule(k, min, max, from, until) ==
  [to |-> k, min |-> min, max |-> max, words |-> {}, image |-> FALSE,
   from |-> from, until |-> until]

Open(rule) == [rules |-> <<rule>>, fallback |-> k3, all |-> TRUE, users |-> {}]
Long == Open([Rule(k1, 2, None, None, None) EXCEPT !.words = {"w"}])
Unmet == Open(Rule(k1, 3, 1, None, None))
Idle == Open(Rule(k3, None, None, Blank, None))
Morning == [rules |-> <<Rule(k3, None, None, Blank, 10)>>, fallback |-> k1,
            all |-> FALSE, users |-> {"u"}]
Night == Open(Rule(k1, None, None, 13, None))    \* "24:00" or later
MCConfigs == {Long, Unmet, Idle, Morning, Night}

MCAsked ==
  {Save(k1, {"a", "b"}, FALSE, {"u"}), Save(k1, {}, TRUE, {}),
   Save(k2, {"b", "a:latest"}, FALSE, {"u"}), Save(k2, {"m"}, FALSE, {}),
   Save(k3, {}, FALSE, {}),
   [op |-> "show", alias |-> "b", all |-> FALSE, users |-> {"u"}],
   [op |-> "drop", alias |-> "b"], [op |-> "refresh"]}
    \cup [op : {"route"}, alias : {"b"}, want : MCConfigs]

Symmetry == Permutations(Admins)

MCRequests ==
  {[tokens |-> n, words |-> IF n = 1 THEN {} ELSE {"w"}, image |-> FALSE, time |-> h] :
     n \in {1, 2}, h \in {5, 12}}
=============================================================================
