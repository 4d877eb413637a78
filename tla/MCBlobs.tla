------------------------------- MODULE MCBlobs -------------------------------
(***************************************************************************)
(* A file on its way.                                                      *)
(***************************************************************************)
EXTENDS Blobs, TLC

CONSTANTS r1, r2, a1, a2, g1, x1, n1, p1, d1

MCProjectOf == [n \in Names |-> p1]

POST(n, length) == [verb |-> "POST", name |-> n, length |-> length, digest |-> d1]
PATCH(n, offset, size) ==
  [verb |-> "PATCH", name |-> n, offset |-> offset, size |-> size, digest |-> d1]
GET(n, from) == [verb |-> "GET", name |-> n, from |-> from]
DELETE(n) == [verb |-> "DELETE", name |-> n]

\* A name reserved twice, a sender that comes back and sends too much, a reader and
\* a removal.
MCOneName ==
  (r1 :> {POST(n1, 2)}) @@ (r2 :> {POST(n1, 2)})
  @@ (a1 :> {PATCH(n1, 0, 2)}) @@ (a2 :> {PATCH(n1, 1, 3)})
  @@ (g1 :> {GET(n1, 0)}) @@ (x1 :> {DELETE(n1)})
=============================================================================
