------------------------------- MODULE Roster -------------------------------
(***************************************************************************)
(* The accounts as a list (src/src/identity/users.ts), read a page at a    *)
(* time over the protocol (admin.users.list) while accounts are made: by   *)
(* nlteam init and scripts, several in one millisecond.                    *)
(***************************************************************************)
EXTENDS Paging

CONSTANTS
  RosterIds,    \* random, so that they come in any order
  Usernames

ASSUME RosterAssumption == RosterIds \subseteq Nat

VARIABLE roster   \* rows: [id, at, name]

RosterInit == roster = {}

\* prepareUser takes the moment when it has hashed, and insertUser writes it; a
\* name that is taken by then is refused and leaves nothing.
CreateUser(id, username, now) ==
  /\ ~\E u \in roster : u.id = id \/ u.name = username
  /\ roster' = roster \cup {[id |-> id, at |-> now, name |-> username]}
  /\ UNCHANGED pager

\* pageUsers, for admin.users.list: newest first, and no cursor of a page that is the last.
PageUsers ==
  /\ Turns(<<"accounts">>, [u \in roster |-> 0], "newest")
  /\ UNCHANGED roster
=============================================================================
