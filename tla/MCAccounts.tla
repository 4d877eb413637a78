----------------------------- MODULE MCAccounts -----------------------------
(***************************************************************************)
(* Two operators and a member, who are signed in and administered at once. *)
(***************************************************************************)
EXTENDS Accounts, TLC

CONSTANTS s1, k1, k2, k3, m1, root, ann, bob, eve, bot, i1

Ask(by, write, on, id) ==
  [by |-> by, write |-> write, on |-> on, id |-> id, noting |-> FALSE]

\* What one operator may send, and send again; what the other may do to the first.
MCDoes ==
  (s1 :> {bob, bot})
  @@ (k1 :> {Ask(root, "revokeTokens", bob, i1), Ask(root, "disable", ann, i1),
             Ask(root, "disable", bob, i1), Ask(root, "create", eve, i1)})
  @@ (k2 :> {Ask(root, "revokeTokens", bob, i1), Ask(root, "revokeAdmin", root, i1),
             Ask(root, "mint", bob, i1), Ask(root, "createOperator", eve, i1)})
  @@ (k3 :> {Ask(root, "revokeTokens", bob, i1), Ask(root, "mint", bob, i1),
             Ask(ann, "disable", root, NoId)})
  @@ (m1 :> {[write |-> "enable", on |-> bob]})
=============================================================================
