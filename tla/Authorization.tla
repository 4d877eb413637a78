---------------------------- MODULE Authorization ----------------------------
(***************************************************************************)
(* The authorization service loreserver asks (src/src/projects/service.ts, *)
(* served by src/src/grpc/server.ts): may this account reach these         *)
(* repositories, and what tokens may it have; and what loreserver says of  *)
(* repositories made and gone.  A token whose signing key is not one that  *)
(* was loaded has the keys read again, and that is an await.               *)
(***************************************************************************)
EXTENDS Readings

CONSTANT Questions   \* calls loreserver makes

VARIABLES
  question,  \* each call, with what it found before it awaited, or was answered
  loaded,    \* whether the key the tokens are signed with is one that was loaded
  live       \* whether the account they are of may still use them

authVars == <<question, loaded, live>>

AuthInit ==
  /\ question = [q \in Questions |-> [kind |-> None, ids |-> {}]]
  /\ loaded \in BOOLEAN /\ live = TRUE

Known == {p.id : p \in projects}

\* What a permission question is about: a project that goes by that.
Reachable(ids) == {id \in ids : Found(id) # {}}

Replies(q, ids) == question' = [question EXCEPT ![q] = [kind |-> "done", ids |-> ids]]

\* A call arrives.  What it looks up before it awaits is kept.
Arrives(q, kind, ids, name) ==
  /\ question[q].kind = None
  /\ kind \in {"create", "delete"} => Cardinality(ids) = 1
  /\ question' = [question EXCEPT ![q] =
       [kind |-> kind, ids |-> ids, name |-> name, target |-> IF kind \in {"create", "delete"} THEN UNION {Found(id) : id \in ids} ELSE {}]]
  /\ UNCHANGED <<loaded, live>>

\* identify: the keys are read again for a key that is not known.
Reloads ==
  /\ ~loaded /\ loaded' = TRUE
  /\ \E q \in Questions : question[q].kind \in {"check", "lookup", "create", "delete"}
  /\ UNCHANGED <<question, live>>

Identified == loaded /\ live

\* checkUserPermission: a refusal is an empty answer, and one decision.
Check(q) ==
  /\ question[q].kind = "check" /\ loaded
  /\ Replies(q, IF live THEN Reachable(question[q].ids) ELSE {})
  /\ UNCHANGED <<loaded, live>>

\* lookupUserPermissions: everything there is.
Lookup(q) ==
  /\ question[q].kind = "lookup" /\ loaded
  /\ Replies(q, IF live THEN Known ELSE {})
  /\ UNCHANGED <<loaded, live>>

\* exchangeExternalToken: nothing is awaited, and a key not known is a refusal.
Exchange(q) ==
  /\ question[q].kind = "exchange"
  /\ Replies(q, IF Identified THEN Known ELSE {})
  /\ UNCHANGED <<loaded, live>>

\* exchangeMultiresourceToken: all of them, or none.
Multiresource(q) ==
  /\ question[q].kind = "multiresource"
  /\ LET all == Identified /\ Reachable(question[q].ids) = question[q].ids
     IN  Replies(q, IF all THEN question[q].ids ELSE {})
  /\ UNCHANGED <<loaded, live>>

AnswersOnly == UNCHANGED <<projectVars, readingVars>>

\* availableProjectName.
NameFor(name, id) == IF name # None /\ Found(name) = {} THEN name ELSE id

\* createResource: a repository nobody made a row for is given one.
CreateResource(q) ==
  /\ question[q].kind = "create"
  /\ LET id == CHOOSE i \in question[q].ids : TRUE
         row == Row(id, NameFor(question[q].name, id), None, "loreserver")
     IN  /\ question[q].target = {} => loaded
         /\ IF question[q].target = {} /\ live /\ Blocking(row) = {}
            THEN projects' = projects \cup {row} /\ made' = made + 1
            ELSE UNCHANGED <<projects, made>>
  /\ Replies(q, {})
  /\ UNCHANGED <<asked, creating, answer, repos, reached, undone, parted, readingVars, loaded, live>>

\* deleteResource: what was found before the await is forgotten after it, and
\* `forgotten` is called whether or not it was still there.
DeleteResource(q) ==
  /\ question[q].kind = "delete" /\ loaded
  /\ IF question[q].target # {} /\ live
     THEN LET id == (CHOOSE p \in question[q].target : TRUE).id
          IN  Forgotten(id) /\ DropReading({id})
     ELSE UNCHANGED <<projects, parted, readings>>
  /\ Replies(q, {})
  /\ UNCHANGED <<made, asked, creating, answer, repos, reached, undone, loaded, live>>
  /\ UNCHANGED <<wanted, passVars, inside, pages, diskVars, readingsStopped, owed, deaths>>

\* loreserver removes a repository; people remove accounts.
RepositoryGone(id) ==
  /\ id \in repos /\ repos' = repos \ {id}
  /\ UNCHANGED <<projects, made, asked, creating, answer, reached, undone, parted, readingVars, authVars>>

Revoked ==
  /\ live /\ live' = FALSE
  /\ UNCHANGED <<question, loaded>>

\* loreserver tells of what it has made, and of what it has no longer.
Tells(q) ==
  \E id \in Ids, name \in Names \cup {None} :
    \/ id \in repos /\ Arrives(q, "create", {id}, name)
    \/ id \notin repos /\ Arrives(q, "delete", {id}, None)

AsksAbout(q) ==
  \E kind \in {"check", "lookup", "exchange", "multiresource"}, ids \in (SUBSET Ids) \ {{}} :
    Arrives(q, kind, ids, None)

-----------------------------------------------------------------------------
(* Properties.                                                             *)

\* A repository that loreserver makes for a create comes back, while the create
\* is still open, to the row the create has written, and makes no other.
RepositoriesComeBackToTheirRow ==
  \A c \in Creates, p \in projects :
    creating[c] = "asking" /\ c \notin parted /\ p.id = asked[c].id => p.by = c

=============================================================================
