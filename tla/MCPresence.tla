----------------------------- MODULE MCPresence -----------------------------
(***************************************************************************)
(* A small server: two connections of one account (a Studio reconnecting)  *)
(* and one of another, with rooms on one or two projects.                  *)
(***************************************************************************)
EXTENDS Presence, TLC

CONSTANTS c1, c2, c3, ana, ben

MCAccountOf == (c1 :> ana) @@ (c2 :> ana) @@ (c3 :> ben)

\* Three installations with one room between them, or two with two rooms.
MCBound == Cardinality(DOMAIN instances) = 3 => Cardinality(DOMAIN sessions) <= 1

MCSymmetry == Permutations({c1, c2}) \cup Permutations(Instances)
                \cup Permutations(Projects) \cup Permutations(Rooms) \cup Permutations(Codes)
=============================================================================
