----------------------------- MODULE MCRecords -----------------------------
(***************************************************************************)
(* What a server keeps beside accounts, each by itself: projects as they   *)
(* are made and asked about, conversations as lists of threads and of      *)
(* comments, records attached to a project, decisions, accounts as a list, *)
(* how often a password was wrong, and its settings; and what its clients  *)
(* keep of it, and one call between servers.                               *)
(***************************************************************************)
EXTENDS
  Overlay, Decisions, Roster, SignIn, Settings, Authorization, Credentials,
  Calls, TLC

CONSTANTS t1, t2, x, y, ann, bob, k1, p1, p2, s1, s2, s3, i1, i2, c1, c2, q1, a1, a2, n1, n2

\* One server as it is typed in two ways, and one of an IPv6 address.
Typing(server, numbered, capitals) ==
  [server |-> server, numbered |-> numbered, capitals |-> capitals, zeros |-> FALSE]
MCTexts ==
  {Typing("team", FALSE, FALSE), Typing("team", FALSE, TRUE), Typing("other", TRUE, FALSE)}

VARIABLE part

clientVars == <<credentialVars, callVars>>
registerVars == <<projectVars, readingVars, authVars>>
vars ==
  <<registerVars, pager, conversationVars, overlayVars, decisionVars, roster, signInVars, settingVars,
    clientVars, part>>

Init ==
  /\ part \in {"made", "asked", "threads", "comments", "writes", "overlay", "decisions",
               "accounts", "signIn", "settings", "identity", "credentials", "call"}
  /\ ProjectsInit /\ ReadingsInit /\ AuthInit /\ (part # "asked" => loaded)
  /\ pager = AtRest
  /\ ConversationsInit /\ OverlayInit /\ DecisionsInit
  /\ RosterInit /\ SignInInit /\ SettingsInit
  /\ operators = {}
  /\ \A k \in SettingKeys \ {"collaboration", "signIn"} : stored[k] = Absent
  /\ part # "settings" => \A k \in SettingKeys : stored[k] = Absent
  /\ CredentialsInit /\ answering = [server \in Servers |-> a1]
  /\ CallsInit /\ (part # "call" => request = <<>> /\ stream.make = "ours")

\* Where the keys are loaded already an await of identify may still take any
\* time.
Adopts(r) == r.claimed # None /\ r.write = None

\* The attempts are alike: one of them is the first.
Making ==
  /\ part = "made"
  /\ \/ (CreateNext \/ \E c \in Creates : CreateLost(c)) /\ UNCHANGED <<readingVars, authVars>>
     \/ \E q \in Questions : Tells(q) /\ AnswersOnly
     \/ \E q \in Questions : CreateResource(q) \/ DeleteResource(q)
     \/ \E id \in Ids : RepositoryGone(id)
  /\ creating'[c2] # "unasked" => creating'[c1] # "unasked"

Asking ==
  /\ part = "asked"
  /\ \/ \E c \in Creates, r \in Requests :
          Adopts(r) /\ MakeOrAdopt(c, r, r.claimed) /\ UNCHANGED <<readingVars, authVars>>
     \/ \E q \in Questions : AsksAbout(q) /\ AnswersOnly
     \/ \E q \in Questions :
          (Check(q) \/ Lookup(q) \/ Exchange(q) \/ Multiresource(q)) /\ AnswersOnly
     \/ (Reloads \/ Revoked) /\ AnswersOnly

ForgettingOne == \E reference \in Ids \cup Names : Forget(reference) /\ UNCHANGED authVars

OthersThanLists == UNCHANGED <<registerVars, signInVars, settingVars, clientVars, part>>
OthersThanProjects ==
  /\ UNCHANGED <<pager, conversationVars, overlayVars, decisionVars, roster, signInVars>>
  /\ UNCHANGED <<settingVars, clientVars, part>>
OthersThanConversations == UNCHANGED <<overlayVars, decisionVars, roster>> /\ OthersThanLists
OthersThanOverlay == UNCHANGED <<decisionVars, roster>> /\ OthersThanLists
OthersThanDecisions == UNCHANGED <<conversationVars, overlayVars, roster>> /\ OthersThanLists
OthersThanRoster == UNCHANGED <<conversationVars, overlayVars, decisionVars>> /\ OthersThanLists
OthersThanSignIn ==
  /\ UNCHANGED <<registerVars, pager, conversationVars, overlayVars, decisionVars, roster>>
  /\ UNCHANGED <<settingVars, clientVars, part>>
OthersThanSettings ==
  /\ UNCHANGED <<registerVars, pager, conversationVars, overlayVars, decisionVars, roster>>
  /\ UNCHANGED <<signInVars, clientVars, part>>

\* Threads that are opened, and one of them touched, while they are listed.
ListingThreads ==
  /\ part = "threads"
  /\ \/ \E now \in Now : ThreadsCreate(ann, p1, NoKey, 1, now)
     \/ \E r \in threads, now \in Now :
          /\ \A other \in threads \ {r} : ~other.resolved
          /\ ThreadsResolve(r.id, ~r.resolved, now)
     \/ ThreadsList(p1)

\* One conversation that goes on while it is read.
ReadingAThread ==
  /\ part = "comments"
  /\ \/ \E now \in Now : threads = {} /\ ThreadsCreate(ann, p1, NoKey, 1, now)
     \/ \E r \in threads, size \in {1, 2}, now \in Now : ThreadsReply(bob, r.id, NoKey, size, now)
     \/ \E c \in comments, now \in Now : CommentsEdit(c.by, c, 2, now)
     \/ \E r \in threads : ThreadsGet(r.id)

\* Writes and repeats of them, under one client id, and projects forgotten: two
\* threads, and three comments between them.  The authors are alike, and the projects.
Writing ==
  /\ part = "writes"
  /\ \/ \E by \in Authors, p \in Places, key \in Keys \cup {NoKey} : ThreadsCreate(by, p, key, 1, 1)
     \/ \E by \in Authors, r \in threads, key \in Keys : ThreadsReply(by, r.id, key, 1, 1)
     \/ \E c \in comments, by \in Authors : CommentsDelete(by, c, 1) \/ CommentsEdit(by, c, 2, 1)
  /\ Cardinality(threads') <= 2
  /\ threads = {} => \A r \in threads' : r.by = ann /\ (p1 \in places => r.project = p1)

Attaching ==
  /\ part = "overlay"
  /\ \/ \E now \in Now : OverlayPut(bob, p1, NoKey, 2, now) \/ OverlayPut(ann, p1, k1, 2, now)
     \/ \E r \in overlay, by \in Authors, now \in Now : OverlayRevise(by, r, 1, now)
     \/ \E r \in overlay, by \in Authors : OverlayDrop(by, r)
     \/ OverlayList(p1)

Forgetting == part \in {"writes", "overlay"} /\ \E p \in Places : ProjectGoes(p)

Deciding ==
  /\ part = "decisions"
  /\ \/ \E allowed \in BOOLEAN, now \in Now : RecordDecision(allowed, now)
     \/ DiesDeciding
     \/ PageDecisions

Enlisting ==
  /\ part = "accounts"
  /\ \/ \E id \in RosterIds, username \in Usernames, now \in Now : CreateUser(id, username, now)
     \/ PageUsers

\* Three pairs: one account from two places, and another.
Knocking ==
  /\ part = "signIn" /\ SignInNext
  /\ \A k \in Knockers : knocking'[k] # Nowhere => knocking'[k].pair # <<bob, y>>

\* Two commands about one server, one of which may be about another; what follows an
\* overlap is left.
Keeping ==
  /\ part = "credentials" /\ ~overlapped /\ CredentialsNext
  /\ answering'["other"] = a1
  /\ doing'[n2].stage # "none" => doing'[n2].address.server = "team"

Calling == part = "call" /\ (CallsNext \/ \E body \in Bodies : ForeignAnswer(body))

\* The sessions are alike: it is one of them that asks; and so are methods of one
\* kind, of which one is called, and the labels and the lifetimes.
Setting ==
  /\ part = "settings" /\ Choosing
  /\ \A w \in working' : w.on # s2 /\ w.call \notin {"live", "overlay", "members"}
  /\ \A k \in {"lineage", "repository"} : stored'[k] = stored[k]

OthersThanClients ==
  /\ UNCHANGED <<registerVars, pager, conversationVars, overlayVars, decisionVars, roster>>
  /\ UNCHANGED <<signInVars, settingVars, part>>

Next ==
  \/ (Making \/ Asking) /\ OthersThanProjects
  \/ part \in {"made", "asked"} /\ ForgettingOne /\ OthersThanProjects
  \/ (ListingThreads \/ ReadingAThread \/ Writing) /\ OthersThanConversations
  \/ (Attaching \/ Forgetting) /\ OthersThanOverlay
  \/ Deciding /\ OthersThanDecisions
  \/ Enlisting /\ OthersThanRoster
  \/ Knocking /\ OthersThanSignIn
  \/ Setting /\ OthersThanSettings
  \/ part = "identity" /\ Identifying /\ OthersThanSettings
  \/ Keeping /\ OthersThanClients /\ UNCHANGED callVars
  \/ Calling /\ OthersThanClients /\ UNCHANGED credentialVars

Spec == Init /\ [][Next]_vars
=============================================================================
