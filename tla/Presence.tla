------------------------------ MODULE Presence ------------------------------
(***************************************************************************)
(* Who is connected and which rooms they are in: TeamPresence              *)
(* (src/src/team/presence.ts) driven by the clients.* and live.* methods   *)
(* (src/src/team/methods/clients.ts, live.ts).                             *)
(*                                                                         *)
(* The server is one thread and none of these handlers awaits, so each     *)
(* call is one action here.  What a handler publishes while it runs, and   *)
(* how publishing can re-enter this code, is module Delivery, which is     *)
(* shown to implement this one.  A refused call changes nothing and is a   *)
(* stuttering step.                                                        *)
(***************************************************************************)
EXTENDS Naturals, FiniteSets, SequencesExt

CONSTANTS
  Connections,            \* link sessions, one per WebSocket
  Accounts,               \* usernames
  AccountOf,              \* the account whose token opened each connection
  Instances,              \* installation ids a client may announce
  Projects,               \* projects of the registry
  NoProject,              \* an announcement that names no project
  Rooms,                  \* ids of live sessions (random UUIDs in the code)
  Codes,                  \* the four-digit codes (10 000 of them in the code)
  InstancesPerConnection, \* INSTANCES_PER_CONNECTION, 16
  LiveSessionLimit        \* LIVE_SESSION_LIMIT, 32 per project

ASSUME PresenceAssumption ==
  /\ AccountOf \in [Connections -> Accounts]
  /\ NoProject \notin Projects
  /\ InstancesPerConnection \in Nat \ {0}
  /\ LiveSessionLimit \in Nat \ {0}

VARIABLES
  instances,     \* Map: instance id -> what it said and who carries it
  byConnection,  \* Map: connection -> ids announced on it, in insertion order
  sessions       \* Map: room id -> room

vars == <<instances, byConnection, sessions>>

Rules == {"open", "code", "request"}

InstanceEntry ==
  [connection : Connections, account : Accounts, project : Projects \cup {NoProject}]

LiveEntry ==
  [project : Projects, openedBy : Accounts, openedByInstance : Instances,
   members : SUBSET Instances, rule : Rules, requests : SUBSET Instances, code : Codes]

(* The Maps are partial functions: everything in them has the shape it is  *)
(* declared with.                                                          *)
TypeOK ==
  /\ DOMAIN instances \subseteq Instances
  /\ instances \in [DOMAIN instances -> InstanceEntry]
  /\ byConnection \in [Connections -> Seq(Instances)]
  /\ DOMAIN sessions \subseteq Rooms
  /\ sessions \in [DOMAIN sessions -> LiveEntry]

Init ==
  /\ instances = <<>>
  /\ byConnection = [c \in Connections |-> <<>>]
  /\ sessions = <<>>

-----------------------------------------------------------------------------
(* Map and Set operations.                                                 *)

MapSet(map, key, value) ==
  [k \in DOMAIN map \cup {key} |-> IF k = key THEN value ELSE map[k]]

MapDelete(map, keys) == Restrict(map, DOMAIN map \ keys)

\* Deletion from an insertion-ordered Set.
SetDelete(held, id) ==
  IF id \in ToSet(held)
  THEN RemoveAt(held, CHOOSE n \in DOMAIN held : held[n] = id)
  ELSE held

SetAdd(held, id) == IF id \in ToSet(held) THEN held ELSE Append(held, id)

-----------------------------------------------------------------------------
(* instanceOn: a call is made by the first instance, in insertion order,   *)
(* that its connection announced on the project the call is about.  A room *)
(* says which project a call about it is about (callingInstance, room).    *)

OnProject(id, p) == id \in DOMAIN instances /\ instances[id].project = p

IsInstanceOn(id, c, p) ==
  \E n \in DOMAIN byConnection[c] :
    /\ byConnection[c][n] = id
    /\ OnProject(id, p)
    /\ \A m \in 1 .. n - 1 : ~OnProject(byConnection[c][m], p)

CallerFor(id, c, r) == r \in DOMAIN sessions /\ IsInstanceOn(id, c, sessions[r].project)

-----------------------------------------------------------------------------
(* part and end: members leaving a room end it when one of them opened it  *)
(* or when nobody is left.  gone is removed one member at a time in the    *)
(* code; the outcome depends only on the set.                              *)

\* Mutation: only the last member to leave ends the room.
EndsWhenEmpty(room, gone) == room.members # {} /\ room.members \subseteq gone

Ends(room, gone) ==
  LET leaving == room.members \cap gone
  IN  leaving # {} /\ (room.openedByInstance \in leaving \/ room.members \subseteq gone)

\* retire: instances that are gone are gone from every room and every queue of
\* requests, and the rooms that ends are removed.
RoomsWithout(gone) ==
  [r \in {r \in DOMAIN sessions : ~Ends(sessions[r], gone)} |->
     [sessions[r] EXCEPT !.members = @ \ gone, !.requests = @ \ gone]]

-----------------------------------------------------------------------------
(* Connections and the instances they carry.                               *)

\* What announcing an id comes to when nothing stands in its way.
Hold(c, id, entry) ==
  /\ instances' = MapSet(instances, id, entry)
  /\ byConnection' =
       [d \in Connections |->
          IF d = c THEN SetAdd(byConnection[c], id)
          ELSE IF id \in DOMAIN instances /\ instances[id].connection = d
               THEN SetDelete(byConnection[d], id)
               ELSE byConnection[d]]
  /\ UNCHANGED sessions

HasRoomFor(c, id, limit) ==
  id \in ToSet(byConnection[c]) \/ Len(byConnection[c]) < limit

Unclaimed(c, id) == id \in DOMAIN instances => instances[id].account = AccountOf[c]

Entry(c, p) == [connection |-> c, account |-> AccountOf[c], project |-> p]

\* Mutations: an id is taken over from another account; the older connection keeps
\* the id.
AnnounceTakesOver(c, id, p) ==
  HasRoomFor(c, id, InstancesPerConnection) /\ Hold(c, id, Entry(c, p))
AnnounceLeavesOld(c, id, p) ==
  /\ Unclaimed(c, id) /\ HasRoomFor(c, id, InstancesPerConnection)
  /\ instances' = MapSet(instances, id, Entry(c, p))
  /\ byConnection' = [byConnection EXCEPT ![c] = SetAdd(@, id)]
  /\ UNCHANGED sessions

(* clients.announce.  An id held by another account is refused; an id held *)
(* on another connection of the same account moves to this one.            *)
Announce(c, id, p) ==
  /\ Unclaimed(c, id)
  /\ HasRoomFor(c, id, InstancesPerConnection)
  /\ Hold(c, id, Entry(c, p))

(* clients.withdraw: one window closed while its socket stays.             *)
Withdraw(c, id, p) ==
  /\ IsInstanceOn(id, c, p)
  /\ byConnection' = [byConnection EXCEPT ![c] = SetDelete(@, id)]
  /\ instances' = MapDelete(instances, {id})
  /\ sessions' = RoomsWithout({id})

(* dropConnection: the socket closed, and what it still carries goes.      *)
DropConnection(c) ==
  LET carried == {id \in ToSet(byConnection[c]) :
                    id \in DOMAIN instances /\ instances[id].connection = c}
  IN  /\ byConnection[c] # <<>>
      /\ byConnection' = [byConnection EXCEPT ![c] = <<>>]
      /\ instances' = MapDelete(instances, carried)
      /\ sessions' = RoomsWithout(carried)

-----------------------------------------------------------------------------
(* Rooms.                                                                  *)

RoomsOf(p) == {r \in DOMAIN sessions : sessions[r].project = p}
TakenCodes == {sessions[r].code : r \in DOMAIN sessions}

(* live.open: the opener is the first member, and the code is one no open  *)
(* room of the whole server uses (mintCode).                               *)
LiveOpen(c, id, p, r, rule, code) ==
  /\ IsInstanceOn(id, c, p)
  /\ Cardinality(RoomsOf(p)) < LiveSessionLimit
  /\ r \notin DOMAIN sessions
  /\ code \notin TakenCodes
  /\ sessions' = MapSet(sessions, r,
                   [project |-> p, openedBy |-> instances[id].account,
                    openedByInstance |-> id, members |-> {id}, rule |-> rule,
                    requests |-> {}, code |-> code])
  /\ UNCHANGED <<instances, byConnection>>

(* live.rule, which only the window that opened the room may call.         *)
LiveRule(c, id, r, rule) ==
  /\ CallerFor(id, c, r)
  /\ sessions[r].openedByInstance = id
  /\ sessions' = [sessions EXCEPT ![r].rule = rule]
  /\ UNCHANGED <<instances, byConnection>>

\* Mutation: a room that is joined by asking is joined like any other.
LiveJoinUnasked(c, id, r, byCode) ==
  /\ CallerFor(id, c, r)
  /\ id \notin sessions[r].members
  /\ sessions[r].rule = "code" => byCode
  /\ sessions' = [sessions EXCEPT ![r].members = @ \cup {id}]
  /\ UNCHANGED <<instances, byConnection>>

(* live.join, by the room's id or by its code (a code finds its own room,  *)
(* so a call that carries one always carries the right one).               *)
LiveJoin(c, id, r, byCode) ==
  /\ CallerFor(id, c, r)
  /\ id \notin sessions[r].members
  /\ sessions[r].rule = "code" => byCode
  /\ sessions[r].rule # "request"
  /\ sessions' = [sessions EXCEPT ![r].members = @ \cup {id}]
  /\ UNCHANGED <<instances, byConnection>>

(* live.requestJoin, whatever the room's rule is.                          *)
LiveRequestJoin(c, id, r) ==
  /\ CallerFor(id, c, r)
  /\ id \notin sessions[r].members \cup sessions[r].requests
  /\ sessions' = [sessions EXCEPT ![r].requests = @ \cup {id}]
  /\ UNCHANGED <<instances, byConnection>>

(* live.answerJoin, which only the window that opened the room may call.   *)
LiveAnswerJoin(c, id, r, asked, admit) ==
  /\ CallerFor(id, c, r)
  /\ sessions[r].openedByInstance = id
  /\ asked \in sessions[r].requests
  /\ sessions' = [sessions EXCEPT
                    ![r].requests = @ \ {asked},
                    ![r].members = IF admit THEN @ \cup {asked} ELSE @]
  /\ UNCHANGED <<instances, byConnection>>

(* live.leave.  The room is left by whichever instance the call resolves   *)
(* to; where it resolves to none, or to one that is no member, nothing     *)
(* changes and the call succeeds all the same.                             *)
LiveLeave(c, id, r) ==
  /\ CallerFor(id, c, r)
  /\ id \in sessions[r].members
  /\ sessions' = IF Ends(sessions[r], {id})
                 THEN MapDelete(sessions, {r})
                 ELSE [sessions EXCEPT ![r].members = @ \ {id}]
  /\ UNCHANGED <<instances, byConnection>>

(* live.close, which only the window that opened the room may call.        *)
LiveClose(c, id, r) ==
  /\ CallerFor(id, c, r)
  /\ sessions[r].openedByInstance = id
  /\ sessions' = MapDelete(sessions, {r})
  /\ UNCHANGED <<instances, byConnection>>

Next ==
  \E c \in Connections :
    \/ DropConnection(c)
    \/ \E id \in Instances :
         \/ \E p \in Projects \cup {NoProject} : Announce(c, id, p)
         \/ \E p \in Projects : Withdraw(c, id, p)
         \/ \E p \in Projects, r \in Rooms, rule \in Rules, code \in Codes :
              LiveOpen(c, id, p, r, rule, code)
         \/ \E r \in Rooms, rule \in Rules : LiveRule(c, id, r, rule)
         \/ \E r \in Rooms, byCode \in BOOLEAN : LiveJoin(c, id, r, byCode)
         \/ \E r \in Rooms : LiveRequestJoin(c, id, r)
         \/ \E r \in Rooms, asked \in Instances, admit \in BOOLEAN :
              LiveAnswerJoin(c, id, r, asked, admit)
         \/ \E r \in Rooms : LiveLeave(c, id, r)
         \/ \E r \in Rooms : LiveClose(c, id, r)

Spec == Init /\ [][Next]_vars

-----------------------------------------------------------------------------
(* Properties.                                                             *)

(* An announced instance is in the set of exactly the connection its entry *)
(* names, once.  A close finds everything it carried through that set, so  *)
(* an entry outside it is a ghost nothing ever sweeps, and an id in the    *)
(* set of a connection that lost it would be swept by the older one.       *)
CarriedOnce ==
  /\ \A id \in DOMAIN instances : id \in ToSet(byConnection[instances[id].connection])
  /\ \A c \in Connections :
       /\ IsInjective(byConnection[c])
       /\ \A id \in ToSet(byConnection[c]) :
            id \in DOMAIN instances /\ instances[id].connection = c

(* A room is always led: its opener is in it, and nobody is in it or       *)
(* waiting to be let in who is not connected right now ("a room full of    *)
(* people who are not there is worse than no room at all").                *)
RoomsAreLed ==
  \A r \in DOMAIN sessions :
    /\ sessions[r].openedByInstance \in sessions[r].members
    /\ sessions[r].members \cup sessions[r].requests \subseteq DOMAIN instances

(* Control of a room is keyed on an instance id and not on an account, and *)
(* still never changes hands: the id that opened it is held by the account *)
(* that opened it for as long as the room is open.                         *)
ControlStaysPut ==
  \A r \in DOMAIN sessions :
    LET opener == sessions[r].openedByInstance
    IN  opener \in DOMAIN instances /\ instances[opener].account = sessions[r].openedBy

(* A code is an address: no two open rooms of the server answer to one.    *)
CodesAreAddresses ==
  \A r, s \in DOMAIN sessions : sessions[r].code = sessions[s].code => r = s

(* Neither bound is passed by any route, a move between connections        *)
(* included.                                                               *)
ConnectionsWithinLimit ==
  \A c \in Connections : Len(byConnection[c]) <= InstancesPerConnection
ProjectsWithinLimit ==
  /\ IsFiniteSet(DOMAIN sessions)
  /\ \A p \in Projects : Cardinality(RoomsOf(p)) <= LiveSessionLimit
WithinLimits == ConnectionsWithinLimit /\ ProjectsWithinLimit

(* An instance that is in a room is the one its connection's calls about   *)
(* that room resolve to, so that leaving leaves it and speaking is heard:  *)
(* "The state the caller wanted is the state there is"                     *)
(* (src/src/team/methods/live.ts:303).  Announcing another project breaks  *)
(* it: the member stays in the room, and live.leave succeeds without       *)
(* finding it.                                                             *)
MembersCanLeave ==
  \A r \in DOMAIN sessions : \A id \in sessions[r].members :
    IsInstanceOn(id, instances[id].connection, sessions[r].project)

Seated(r) == sessions[r].members \cup sessions[r].requests

(* A place in a room, or in the queue for one, is never inherited: while   *)
(* an id keeps it the id stays one account's, although ids are dropped,    *)
(* moved and announced afresh by anybody.                                  *)
PlacesAreNotInherited ==
  [][\A r \in DOMAIN sessions \cap DOMAIN sessions' :
       \A id \in Seated(r) \cap Seated(r)' :
         instances'[id].account = instances[id].account]_vars

(* Nobody walks into a room that is joined by asking: whoever becomes a    *)
(* member of one was waiting to be let in.                                 *)
NobodyWalksIn ==
  [][\A r \in DOMAIN sessions \cap DOMAIN sessions' :
       sessions[r].rule = "request" =>
         sessions[r].members' \subseteq sessions[r].members \cup sessions[r].requests]_vars
=============================================================================
