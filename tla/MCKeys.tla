------------------------------- MODULE MCKeys -------------------------------
(***************************************************************************)
(* A server that rotates and retires while it is asked and reloads, and a  *)
(* command that does the same beside it.                                   *)
(***************************************************************************)
EXTENDS Keys, TLC

CONSTANTS up, h1, h2, h3, c1

Look == {[does |-> "list"]}
Rotate == {[does |-> "rotate"]}
Sign == {[does |-> "sign"]}
Retire == {[does |-> "retire", kid |-> k] : k \in 1..MaxKeys}
Verify(k) == {[does |-> "verify", kid |-> k]}

MCDoes ==
  (h1 :> Look \cup Sign \cup Verify(2)) @@ (h2 :> Rotate) @@ (h3 :> Retire)
  @@ (c1 :> Rotate \cup Retire \cup Look)

\* A call that reloads, a rotation, and a token.
MCThree == (h1 :> Look) @@ (h2 :> Rotate) @@ (h3 :> Sign) @@ (c1 :> {})
=============================================================================
