--------------------------- MODULE MCTemplateStore ---------------------------
(* TemplateStore for TLC: three scenarios, two of them under way at once.     *)
EXTENDS TemplateStore, TLC

CONSTANTS r1, r2, r3, h1, h2, n1, n2, n3, c12, c3

\* node-upgrade, node-upgrade-skip-preflight (a clone's name keeps twelve characters of
\* the scenario's, so the two share it) and workload-attach.
RepoNameOf == r1 :> n1 @@ r2 :> n2 @@ r3 :> n3
RepoCloneOf == r1 :> c12 @@ r2 :> c12 @@ r3 :> c3
RepoBegins == {<<n, n>> : n \in Name} \cup {<<n2, n1>>}
\* Each scenario is always run with one change-set.
OneChangeSet == r1 :> {h1} @@ r2 :> {h2} @@ r3 :> {h1}

\* The same scenario with a newer commit: another hash, the same cluster name.
NewCommit == r1 :> {h1, h2} @@ r2 :> {} @@ r3 :> {}

\* Prism Central gives out uuids in no order.
Symmetry == Permutations(VM)
=============================================================================
