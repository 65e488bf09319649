-------------------------- MODULE MCProjectStore ---------------------------
(* Small instances of ProjectStore. *)
EXTENDS ProjectStore, TLC

CONSTANTS h1, h2, h3, c1, c2, k1

TwoHandlers == {h1, h2}
ThreeHandlers == {h1, h2, h3}
OneClient == {c1}
TwoClients == {c1, c2}
OneClip == {k1}
NoClips == {}

\* Handlers and clients differ in name only.
Alike == Permutations(Handlers) \cup Permutations(Clients)

=============================================================================
