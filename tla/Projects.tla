------------------------------ MODULE Projects ------------------------------
(***************************************************************************)
(* The projects of a server, and how one is made (src/src/projects:        *)
(* registry.ts, create.ts, repository.ts; src/src/team/methods/projects.ts *)
(* and src/src/project.ts, the command beside it).  A create writes its    *)
(* row, asks loreserver for the repository while anything else may happen, *)
(* and takes the row out again if loreserver refuses.  loreserver tells    *)
(* the server about every repository it makes, a create's own included:    *)
(* that is in Authorization.                                               *)
(***************************************************************************)
EXTENDS Naturals, FiniteSets

CONSTANTS
  Creates,  \* attempts to make a project, a retry being one of its own
  Ids,      \* repository ids
  Names,    \* what projects are called: an id is a name too
  Writes    \* what clients call their writes

None == "none"

VARIABLES
  projects,  \* the rows
  made,      \* rows made so far
  asked,     \* what each attempt asked for
  creating,  \* where each attempt is
  answer,    \* what it was told, and which rows that was because of
  repos,     \* repositories loreserver has
  reached,   \* rows a caller was answered with or a pass has listed
  undone,    \* rows a refused create took out again
  parted     \* attempts whose row was taken out by anybody

projectVars == <<projects, made, asked, creating, answer, repos, reached, undone, parted>>

Requests == [name : Names, claimed : Ids \cup {None}, write : Writes \cup {None}]
NoAnswer == [kind |-> None, rows |-> {}]

ProjectsInit ==
  /\ projects = {} /\ made = 0 /\ repos = {}
  /\ asked = [c \in Creates |-> [name |-> None, write |-> None, id |-> None]]
  /\ creating = [c \in Creates |-> "unasked"]
  /\ answer = [c \in Creates |-> NoAnswer]
  /\ reached = {} /\ undone = {} /\ parted = {}

Row(id, name, write, by) == [id |-> id, name |-> name, write |-> write, by |-> by, gen |-> made + 1]

\* findProjectById, findProject: the index of the ids is searched first.
WithId(id) == {p \in projects : p.id = id}
Found(reference) ==
  IF WithId(reference) # {} THEN WithId(reference) ELSE {p \in projects : p.name = reference}

\* findProjectByClientId, for one account.
WrittenAs(write) == {p \in projects : write # None /\ p.write = write}

\* What keeps a row from being inserted: its columns are unique, one by one.
Blocking(row) ==
  {p \in projects : p.id = row.id \/ p.name = row.name} \cup WrittenAs(row.write)

\* forgetProject: whatever goes by that reference goes.
Forgotten(reference) ==
  /\ projects' = projects \ Found(reference)
  /\ parted' = parted \cup {p.by : p \in Found(reference)}

Told(c, kind, rows) ==
  /\ creating' = [creating EXCEPT ![c] = "told"]
  /\ answer' = [answer EXCEPT ![c] = [kind |-> kind, rows |-> {p.gen : p \in rows}]]

\* newProjectId: never an id anybody has.
IsNew(id) ==
  /\ \A p \in projects : p.id # id
  /\ id \notin repos
  /\ \A c \in Creates : creating[c] # "unasked" => asked[c].id # id

-----------------------------------------------------------------------------
(* makeOrAdoptProject, up to its await.                                    *)

Repeats(c, r) ==
  /\ WrittenAs(r.write) # {}
  /\ Told(c, "repeat", WrittenAs(r.write))
  /\ reached' = reached \cup {p.gen : p \in WrittenAs(r.write)}
  /\ UNCHANGED <<projects, made>>

Taken(c, r) ==
  /\ r.claimed # None /\ WithId(r.claimed) # {}
  /\ Told(c, "repository-taken", WithId(r.claimed))
  /\ UNCHANGED <<projects, made, reached>>

NameTaken(c, r, row) ==
  /\ Blocking(row) # {}
  /\ Told(c, "name-taken", Blocking(row))
  /\ UNCHANGED <<projects, made, reached>>

\* An adoption is over with its row, and is announced.
Inserts(c, r, row) ==
  /\ Blocking(row) = {}
  /\ projects' = projects \cup {row} /\ made' = made + 1
  /\ IF r.claimed # None
     THEN Told(c, "made", {row}) /\ reached' = reached \cup {row.gen}
     ELSE creating' = [creating EXCEPT ![c] = "asking"] /\ UNCHANGED <<answer, reached>>

Asks(c, r, id) ==
  /\ creating[c] = "unasked"
  /\ IF r.claimed = None THEN IsNew(id) ELSE id = r.claimed
  /\ asked' = [asked EXCEPT ![c] = [name |-> r.name, write |-> r.write, id |-> id]]

\* Mutation: a repository that is taken is asked about first.
MakeOrAdoptTakenFirst(c, r, id) ==
  /\ Asks(c, r, id)
  /\ LET row == Row(id, r.name, r.write, c)
     IN  \/ Taken(c, r)
         \/ /\ r.claimed = None \/ WithId(r.claimed) = {}
            /\ \/ Repeats(c, r)
               \/ WrittenAs(r.write) = {} /\ (NameTaken(c, r, row) \/ Inserts(c, r, row))
  /\ UNCHANGED <<repos, undone, parted>>

\* Mutation: loreserver first, then the row.
MakeOrAdoptAsksFirst(c, r, id) ==
  /\ Asks(c, r, id)
  /\ LET row == Row(id, r.name, r.write, c)
     IN  \/ Repeats(c, r)
         \/ WrittenAs(r.write) = {} /\ Taken(c, r)
         \/ /\ WrittenAs(r.write) = {} /\ r.claimed # None /\ WithId(r.claimed) = {}
            /\ NameTaken(c, r, row) \/ Inserts(c, r, row)
         \/ /\ WrittenAs(r.write) = {} /\ r.claimed = None
            /\ creating' = [creating EXCEPT ![c] = "asking"]
            /\ UNCHANGED <<projects, made, answer, reached>>
  /\ UNCHANGED <<repos, undone, parted>>

MakeOrAdopt(c, r, id) ==
  /\ Asks(c, r, id)
  /\ LET row == Row(id, r.name, r.write, c)
     IN  \/ Repeats(c, r)
         \/ WrittenAs(r.write) = {} /\ Taken(c, r)
         \/ /\ WrittenAs(r.write) = {} /\ (r.claimed = None \/ WithId(r.claimed) = {})
            /\ NameTaken(c, r, row) \/ Inserts(c, r, row)
  /\ UNCHANGED <<repos, undone, parted>>

-----------------------------------------------------------------------------
(* And after it.                                                           *)

\* repositoryCreate, as loreserver has done it.
RepositoryMade(c) ==
  /\ creating[c] = "asking" /\ asked[c].id \notin repos
  /\ repos' = repos \cup {asked[c].id}
  /\ UNCHANGED <<projects, made, asked, creating, answer, reached, undone, parted>>

\* The project is announced as it was when its row was written.
Made(c) ==
  /\ creating[c] = "asking" /\ asked[c].id \in repos
  /\ Told(c, "made", {p \in projects : p.by = c})
  /\ reached' = reached \cup {p.gen : p \in {p \in projects : p.by = c}}
  /\ UNCHANGED <<projects, made, asked, repos, undone, parted>>

\* An answer that does not come is a refusal, whatever loreserver has done.
RepositoryRefused(c) ==
  /\ creating[c] = "asking"
  /\ Forgotten(asked[c].id)
  /\ undone' = undone \cup {p.gen : p \in Found(asked[c].id)}
  /\ Told(c, "repository-refused", {})
  /\ UNCHANGED <<made, asked, repos, reached>>

\* The process dies meanwhile: the row stays.
CreateLost(c) ==
  /\ creating[c] = "asking"
  /\ creating' = [creating EXCEPT ![c] = "lost"]
  /\ UNCHANGED <<projects, made, asked, answer, repos, reached, undone, parted>>

CreateNext ==
  \E c \in Creates :
    \/ \E r \in Requests, id \in Ids : MakeOrAdopt(c, r, id)
    \/ RepositoryMade(c) \/ Made(c) \/ RepositoryRefused(c)

-----------------------------------------------------------------------------
(* Properties.                                                             *)

\* A retry of a create, whatever it changed of its request, is never told that
\* a name or a repository is taken by the attempt it is a retry of.
RetriesAreNotCollisions ==
  \A c, d \in Creates :
    /\ answer[d].kind \in {"repository-taken", "name-taken"}
    /\ c # d /\ asked[d].write # None
    => \A p \in projects : ~(p.by = c /\ p.write = asked[d].write /\ p.gen \in answer[d].rows)

\* create.ts calls its undo a delete of a row nothing else has reached yet.
UndoneBeforeReached == undone \cap reached = {}
=============================================================================
