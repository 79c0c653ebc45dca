----------------------------- MODULE MCReadings -----------------------------
(* Instances of Readings for TLC. *)
EXTENDS Readings, TLC

CONSTANTS battery, k, l    \* a field, and keys of raw payloads

\* With and without the field, with and without either key, in both orders.
SomeSightings == {<<{battery}, {k}, 2>>, <<{}, {l}, 1>>, <<{}, {}, 2>>, <<{battery}, {}, 1>>}

Symmetry == Permutations(Nodes)
=============================================================================
