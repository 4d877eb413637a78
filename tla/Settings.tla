------------------------------ MODULE Settings ------------------------------
(***************************************************************************)
(* What this deployment has chosen and what it was started as, both rows   *)
(* of one table (src/src/identity/settings.ts), who changes and reads them *)
(* (src/src/settings.ts, admin.settings), and the one of them that decides *)
(* what the rest of the protocol answers (src/src/team/collaboration.ts).  *)
(* Commands are processes of their own and read row by row; a session      *)
(* keeps the capabilities it was told when it opened.                      *)
(***************************************************************************)
EXTENDS Integers, FiniteSets, Sequences

CONSTANTS
  Sessions,       \* sessions of accounts
  IdentityRows,   \* how many rows up writes of its own configuration: nine
  MaxStarts,      \* a bound on the times up is started
  MaxChanges,     \* a bound on the changes of settings
  MaxWorking,     \* a bound on the calls and transfers under way
  Absent          \* no row, no session

ASSUME SettingsAssumption ==
  /\ MaxStarts \in Nat /\ MaxChanges \in Nat /\ MaxWorking \in Nat
  /\ IdentityRows \in Nat \ {0}

Lifetimes == {"signIn", "repository"}
SettingKeys == Lifetimes \cup {"name", "lineage", "collaboration"}

\* What each may be; the first is what answers where nothing else does.
Values(key) == IF key = "collaboration" THEN {"open", "closed"} ELSE {"first", "second"}
Default(key) == IF key = "collaboration" THEN "open" ELSE "first"

\* Whoever has the storage root can write anything into the file.
Junk == "junk"

VARIABLES
  stored,      \* the row of each setting
  identity,    \* which start of up each row of the identity is of
  starts,
  changes,
  command,     \* what a command has read of the identity so far
  operators,   \* sessions whose account is an operator
  announced,   \* sessions that announced an installation while they could
  capable,     \* what each session was told when it opened
  working,     \* calls and transfers that were let in and are not done
  closedAt,    \* how many changes there were when collaboration was last closed
  event        \* the last setting-changed

servedVars == <<capable, announced, working>>
settingVars ==
  <<stored, identity, starts, changes, command, operators, servedVars, closedAt, event>>

SettingsInit ==
  /\ stored \in {f \in [SettingKeys -> {Absent, "closed", Junk}] :
                   \A k \in SettingKeys : f[k] = "closed" => k = "collaboration"}
  /\ identity = [k \in 1..IdentityRows |-> 0]
  /\ starts = 0 /\ changes = 0 /\ command = <<>>
  /\ operators \in SUBSET Sessions
  /\ announced = {} /\ capable = [s \in Sessions |-> Absent]
  /\ working = {} /\ closedAt = 0 /\ event = Absent

-----------------------------------------------------------------------------
(* Reading and writing a setting.                                          *)

\* A label or a rule nobody can read falls back; a lifetime raises, either of
\* them, since they are read as a pair.
ReadSetting(key) ==
  IF stored[key] = Absent THEN Default(key)
  ELSE IF stored[key] = Junk THEN Default(key)
  ELSE stored[key]
Raises(keys) == keys \cap Lifetimes # {} /\ \E k \in Lifetimes : stored[k] = Junk

CollaborationOpen == ReadSetting("collaboration") = "open"

\* Checked, then written over whatever was there.
Chooses(key, value) ==
  /\ value \in Values(key)
  /\ changes < MaxChanges /\ changes' = changes + 1
  /\ stored' = [stored EXCEPT ![key] = value]
  /\ closedAt' = IF key = "collaboration" /\ value = "closed" /\ CollaborationOpen
                 THEN changes' ELSE closedAt

\* nlteam settings set, beside the server: nobody is told.  What was there is
\* read first, so a lifetime that cannot be read cannot be replaced.
SettingsSet(key, value) ==
  /\ ~Raises({key})
  /\ Chooses(key, value)
  /\ UNCHANGED <<identity, starts, command, operators, servedVars, event>>

\* admin.settings.set: found in the whole list, which is read before and after.
AdminSettingsSet(s, key, value) ==
  /\ capable[s] # Absent /\ s \in operators
  /\ ~Raises(SettingKeys)
  /\ Chooses(key, value)
  /\ event' = IF ReadSetting(key) = value THEN event ELSE key
  /\ UNCHANGED <<identity, starts, command, operators, servedVars>>

-----------------------------------------------------------------------------
(* The identity.                                                           *)

\* persistIdentity: all rows in one commit, on every start.
PersistIdentity ==
  /\ starts < MaxStarts /\ starts' = starts + 1
  /\ identity' = [k \in 1..IdentityRows |-> starts']
  /\ UNCHANGED <<stored, changes, command, operators, servedVars, closedAt, event>>

\* storedIdentity of a command that mints: one row, and then the next.
ReadIdentity ==
  /\ Len(command) < IdentityRows
  /\ command' = Append(command, identity[Len(command) + 1])
  /\ UNCHANGED <<stored, identity, starts, changes, operators, servedVars, closedAt, event>>

CommandEnds ==
  /\ Len(command) = IdentityRows /\ command' = <<>>
  /\ UNCHANGED <<stored, identity, starts, changes, operators, servedVars, closedAt, event>>

-----------------------------------------------------------------------------
(* What is served.                                                         *)

Coordination == {"comments", "clients", "live", "overlay", "blobs"}
KeptForOperators == {"projects", "members"}
Calls == Coordination \cup KeptForOperators \cup {"session"}

unservedVars == <<stored, identity, starts, changes, command, closedAt, event>>

\* withoutCoordination, in what a session is told as it opens.
Hello(s) ==
  /\ capable[s] = Absent
  /\ capable' = [capable EXCEPT ![s] = IF CollaborationOpen THEN Coordination ELSE {}]
  /\ UNCHANGED <<unservedVars, operators, announced, working>>

\* What the session was still waiting for goes on without it.
Leaves(s) ==
  /\ capable[s] # Absent
  /\ capable' = [capable EXCEPT ![s] = Absent] /\ announced' = announced \ {s}
  /\ UNCHANGED <<unservedVars, operators, working>>

Regroup(s) ==
  /\ operators' = (operators \ {s}) \cup ({s} \ operators)
  /\ UNCHANGED <<unservedVars, servedVars>>

\* Mutation: what a session was told it may do, it may do.
JudgedByHello(s, call) == call \in Coordination => call \in capable[s]

\* judgeCollaboration, of every call, by the setting as it stands.
JudgeCollaboration(s, call) ==
  \/ CollaborationOpen
  \/ call \notin Coordination /\ (call \in KeptForOperators => s \in operators)

\* judgeBlobRoute: that the installation announced itself is not enough.
JudgeBlobRoute(s) == CollaborationOpen /\ s \in announced

\* It is let in now, by what s is now, and judged no more: the handler is awaited.
Begins(s, call) ==
  /\ Cardinality(working) < MaxWorking
  /\ working' = working \cup
       {[on |-> s, call |-> call, operator |-> s \in operators, since |-> changes]}

\* answer, up to the await; what a client announces is announced by then.
Call(s, call) ==
  /\ capable[s] # Absent /\ call # "blobs"
  /\ JudgeCollaboration(s, call)
  /\ Begins(s, call)
  /\ announced' = IF call = "clients" THEN announced \cup {s} ELSE announced
  /\ UNCHANGED <<unservedVars, operators, capable>>

\* authorise, once, before all of a piece is carried.
BlobRequest(s) ==
  /\ JudgeBlobRoute(s)
  /\ Begins(s, "blobs")
  /\ UNCHANGED <<unservedVars, operators, capable, announced>>

\* The handler is done, or the piece is carried, whatever has been chosen since.
Finishes(w) ==
  /\ working' = working \ {w}
  /\ UNCHANGED <<unservedVars, operators, capable, announced>>

Identifying == PersistIdentity \/ ReadIdentity \/ CommandEnds

Choosing ==
  \/ \E key \in SettingKeys : \E value \in Values(key) :
       SettingsSet(key, value) \/ \E s \in Sessions : AdminSettingsSet(s, key, value)
  \/ \E s \in Sessions :
       Hello(s) \/ Leaves(s) \/ Regroup(s) \/ BlobRequest(s) \/ \E call \in Calls : Call(s, call)
  \/ \E w \in working : Finishes(w)

-----------------------------------------------------------------------------
(* Properties.                                                             *)

\* Closing a deployment stops what has not begun, and that only: what a closed one
\* is still at, of the coordination plane, of the files of an installation that
\* announced itself, or for one that is no operator of what is on it, had been let in
\* before it was last closed, however often it was opened and closed in between, by
\* whichever process, and whatever its session was told when it opened.
ClosedIsClosed ==
  ~CollaborationOpen =>
    \A w \in working :
      w.call \in Coordination \/ (w.call \in KeptForOperators /\ ~w.operator) => w.since < closedAt

\* settings.ts: "a half-written identity is not a half-configured server but a
\* wrong one": what a command mints by is what one start of up wrote.
IdentityIsOfOneStart ==
  Len(command) = IdentityRows => \A j, k \in DOMAIN command : command[j] = command[k]
=============================================================================
