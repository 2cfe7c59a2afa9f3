-------------------------- MODULE MCProviderClient --------------------------
(* Small instances of ProviderClient: two visitors, one with two tabs.     *)
EXTENDS ProviderClient

CONSTANTS ann, bob, ann1, ann2, bob1

TabsOf == [r \in Requests |-> IF r = bob1 THEN bob ELSE ann]

\* Keys, tasks and the tabs of one visitor are interchangeable.
Interchangeable ==
  Permutations(Keys) \cup Permutations(Tasks) \cup Permutations({ann1, ann2})
=============================================================================
