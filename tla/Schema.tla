------------------------------- MODULE Schema -------------------------------
(***************************************************************************)
(* team.db as several processes open it: `up` and the commands beside it,  *)
(* of builds that know different schemas, each migrating it as it opens    *)
(* (src/src/identity/database.ts), and `nlteam init`, which makes the      *)
(* first account of a server (src/src/init.ts).  A process may die at any  *)
(* step: what its transaction has not committed is gone.                   *)
(***************************************************************************)
EXTENDS Naturals

CONSTANTS
  Openers,    \* processes, each of which opens the file once
  Knows,      \* SCHEMA_VERSION of the build each is of
  Statements  \* the statements of a migration

ASSUME SchemaAssumption ==
  Knows \in [Openers -> Nat] /\ Statements \in Nat /\ "nobody" \notin Openers

VARIABLES
  recorded,   \* versions in schema_version
  schema,     \* <<version, statement>> for every statement whose work is in the file
  writer,     \* who holds the write lock: BEGIN IMMEDIATE ... COMMIT
  pending,    \* the statements that transaction has run so far
  at,         \* where each process is
  current,    \* the version each believes the file to be at
  users       \* accounts, by the process that made each

schemaVars == <<recorded, schema, writer, pending, at, current, users>>

Nobody == "nobody"
Highest == IF recorded = {} THEN 0 ELSE CHOOSE v \in recorded : \A w \in recorded : w <= v
Next1(p) == current[p] + 1

\* Some file an older build left.
SchemaInit ==
  /\ \E n \in {0, 1} : recorded = 1..n /\ schema = (1..n) \X (1..Statements)
  /\ writer = Nobody /\ pending = 0
  /\ at = [p \in Openers |-> "unrun"]
  /\ current = [p \in Openers |-> 0]
  /\ users = {}

GoTo(p, place) == at' = [at EXCEPT ![p] = place]

\* migrate: what is read here is not read again.
OpenFile(p) ==
  /\ at[p] = "unrun"
  /\ current' = [current EXCEPT ![p] = Highest]
  /\ GoTo(p, IF Highest > Knows[p] THEN "closed"
             ELSE IF Highest = Knows[p] THEN "opened" ELSE "migrating")
  /\ UNCHANGED <<recorded, schema, writer, pending, users>>

Begin(p) ==
  /\ at[p] = "migrating" /\ writer = Nobody
  /\ writer' = p /\ pending' = 0
  /\ GoTo(p, "within")
  /\ UNCHANGED <<recorded, schema, current, users>>

\* busy_timeout is over before the lock is free.
BeginTimesOut(p) ==
  /\ at[p] \in {"migrating", "hashed"} /\ writer \notin {Nobody, p}
  /\ GoTo(p, "closed")
  /\ UNCHANGED <<recorded, schema, writer, pending, current, users>>

Rollback(p) ==
  /\ writer' = Nobody /\ pending' = 0
  /\ GoTo(p, "closed")
  /\ UNCHANGED <<recorded, schema, current, users>>

\* Mutation: every statement is a commit of its own.
StatementCommits(p) ==
  /\ at[p] = "within"
  /\ LET s == <<Next1(p), pending + 1>>
     IN  /\ s[2] <= Statements
         /\ pending' = pending + 1 /\ schema' = schema \cup {s}
         /\ UNCHANGED <<recorded, writer, at, current, users>>

\* A table that is there already is an error, and so is one to drop that is not.
Statement(p) ==
  /\ at[p] = "within"
  /\ LET s == <<Next1(p), pending + 1>>
     IN  /\ s[2] <= Statements
         /\ \/ s \in schema /\ Rollback(p)
            \/ /\ s \notin schema
               /\ pending' = pending + 1
               /\ UNCHANGED <<recorded, schema, writer, at, current, users>>

Commit(p) ==
  /\ at[p] = "within" /\ pending = Statements
  /\ schema' = schema \cup ({Next1(p)} \X (1..Statements))
  /\ recorded' = recorded \cup {Next1(p)}
  /\ writer' = Nobody /\ pending' = 0
  /\ current' = [current EXCEPT ![p] = Next1(p)]
  /\ GoTo(p, IF Next1(p) = Knows[p] THEN "opened" ELSE "migrating")
  /\ UNCHANGED users

Die(p) ==
  /\ at[p] \notin {"unrun", "closed"}
  /\ GoTo(p, "closed")
  /\ writer' = IF writer = p THEN Nobody ELSE writer
  /\ pending' = IF writer = p THEN 0 ELSE pending
  /\ UNCHANGED <<recorded, schema, current, users>>

-----------------------------------------------------------------------------
(* init, once the file is open.                                            *)

\* Asked before the hash, for the moment it saves.
InitAsks(p) ==
  /\ at[p] = "opened"
  /\ GoTo(p, IF users = {} THEN "hashed" ELSE "closed")
  /\ UNCHANGED <<recorded, schema, writer, pending, current, users>>

\* And inside the transaction, for what may have happened since.
InitInserts(p) ==
  /\ at[p] = "hashed" /\ writer = Nobody
  /\ users' = IF users = {} THEN {p} ELSE users
  /\ GoTo(p, "closed")
  /\ UNCHANGED <<recorded, schema, writer, pending, current>>

SchemaNext ==
  \E p \in Openers :
    \/ OpenFile(p) \/ Begin(p) \/ BeginTimesOut(p)
    \/ Statement(p) \/ Commit(p) \/ Die(p)
    \/ InitAsks(p) \/ InitInserts(p)

-----------------------------------------------------------------------------
(* Properties.                                                             *)

\* However many processes migrate one file at once, and wherever they die, it
\* is at a version, all of what led to that version is in it, and nothing else.
SchemaIsWhole ==
  recorded = 1..Highest /\ schema = (1..Highest) \X (1..Statements)

=============================================================================
