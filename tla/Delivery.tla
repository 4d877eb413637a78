------------------------------ MODULE Delivery ------------------------------
(***************************************************************************)
(* How what happens to instances and rooms reaches the sessions that asked *)
(* to be told: TeamHub (src/src/team/hub.ts), TeamSession (session.ts) and *)
(* TeamPresence (presence.ts) calling each other.                          *)
(*                                                                         *)
(* The process is one thread, and yet these calls interleave: publishing   *)
(* writes to a socket, a socket with too much queued closes at once        *)
(* (websocket.ts), closing calls session.closed, that drops everything the *)
(* connection had announced, and dropping publishes, all inside the first  *)
(* publish.  stack holds the calls that have begun and not returned, the   *)
(* innermost first; a step is what runs up to the next publish.            *)
(*                                                                         *)
(* The clients are external.  What one keeps follows docs/protocol.md: a   *)
(* copy of a collection, changed by each event that carries exactly the    *)
(* next number and read again at any other.                                *)
(***************************************************************************)
EXTENDS Presence

CONSTANTS
  Operators,          \* the accounts that are operators to begin with
  SlowPeers,          \* connections that may have more queued than they read
  SubscriptionLimit,  \* SUBSCRIPTION_LIMIT, 64
  Sends,              \* the frames each client may send in the instance that is checked
  MaxFrames           \* how many they send

\* Room ids are never used again, and the Map of rooms is in the order of
\* opening: here they are numbered in it.
ASSUME DeliveryAssumption ==
  /\ Rooms = 1 .. Cardinality(Rooms)
  /\ Operators \subseteq Accounts
  /\ SlowPeers \subseteq Connections
  /\ SubscriptionLimit \in Nat \ {0}
  /\ MaxFrames \in Nat

VARIABLES
  dead,       \* rooms that have ended and that a retire under way still holds
  opened,     \* how many rooms have ever been opened
  status,     \* of each connection: "new", "open" or "over"
  hub,        \* the open sessions, in the order they were added
  topics,     \* what each session subscribes to
  sequences,  \* the last sequence of each topic
  operators,  \* the accounts that are operators now
  stack,      \* the calls that have begun and not returned, innermost first
  up,         \* how far `up` is: "serving", "closing" or "stopped"
  frames,     \* how many frames clients have sent, for MaxFrames
  copy        \* the collections each client holds a copy of it believes in

presence == <<instances, byConnection, sessions, dead, opened>>
server   == <<status, hub, topics, operators, up, frames>>
dvars    == <<presence, server, sequences, stack, copy>>

-----------------------------------------------------------------------------
(* Topics and events.                                                      *)

ClientsTopic(p) == [of |-> "clients", key |-> p]
LiveTopic(p)    == [of |-> "live", key |-> p]
RoomTopic(r)    == [of |-> "room", key |-> r]
AdminTopic      == [of |-> "admin", key |-> "users"]
Topics == {ClientsTopic(p) : p \in Projects} \cup {LiveTopic(p) : p \in Projects}
            \cup {RoomTopic(r) : r \in Rooms} \cup {AdminTopic}

View(room) == [members |-> room.members, rule |-> room.rule]

Publish(topic, kind, key, value) ==
  [at |-> "publish", topic |-> topic, kind |-> kind, key |-> key, value |-> value]

ClientGone(id, p)     == Publish(ClientsTopic(p), "client-gone", id, "gone")
ClientHere(id, p)     == Publish(ClientsTopic(p), "client-here", id, "here")
Opened(r, room)       == Publish(LiveTopic(room.project), "live-opened", r, View(room))
Changed(r, room)      == Publish(LiveTopic(room.project), "live-changed", r, View(room))
Closed(r, room)       == Publish(LiveTopic(room.project), "live-closed", r, "gone")
Requested(r, room)    == Publish(LiveTopic(room.project), "live-requested", r, "said")
RequestRefused(r, room) == Publish(LiveTopic(room.project), "live-refused", r, "said")
Said(r)               == Publish(RoomTopic(r), "live-message", r, "said")
AdminChanged          == Publish(AdminTopic, "users-changed", "users", "said")

\* What a client that applies an event to its copy of the collection holds then.
Applied(view, event) ==
  CASE event.kind \in {"client-here", "live-opened", "live-changed"} ->
         MapSet(view, event.key, event.value)
    [] event.kind \in {"client-gone", "live-closed"} -> MapDelete(view, {event.key})
    [] OTHER -> view

\* clients.list and live.list, which leaves out the rooms joined by code.
Collection(t) ==
  CASE t.of = "clients" ->
         [id \in {id \in DOMAIN instances : instances[id].project = t.key} |-> "here"]
    [] t.of = "live" ->
         [r \in {r \in RoomsOf(t.key) : sessions[r].rule # "code"} |-> View(sessions[r])]
    [] OTHER -> <<>>

\* The rooms of a copy that the list would show.
Listed(t, view) ==
  IF t.of = "live" THEN Restrict(view, {r \in DOMAIN view : view[r].rule # "code"}) ELSE view

-----------------------------------------------------------------------------
(* The stack.                                                              *)

Idle == stack = <<>>
Top == Head(stack)
Below == Tail(stack)
At(kind) == ~Idle /\ Top.at = kind

\* Mutation: what a session carried stays behind.
CloseSessionOnly(c, below) ==
  /\ status' = [status EXCEPT ![c] = "over"]
  /\ hub' = SetDelete(hub, c)
  /\ topics' = [topics EXCEPT ![c] = {}]
  /\ stack' = below
  /\ UNCHANGED <<presence, sequences, operators>>

\* closed(): the session leaves the hub with its subscriptions, and what its
\* connection carried is about to be retired, one instance after another.
CloseSession(c, below) ==
  /\ status' = [status EXCEPT ![c] = "over"]
  /\ hub' = SetDelete(hub, c)
  /\ topics' = [topics EXCEPT ![c] = {}]
  /\ byConnection' = [byConnection EXCEPT ![c] = <<>>]
  /\ stack' = <<[at |-> "drop", connection |-> c, ids |-> byConnection[c]]>> \o below
  /\ UNCHANGED <<instances, sessions, dead, opened, sequences, operators>>

\* A room that ended is held on to while a retire under way has yet to visit it.
Buried(r, room, below) ==
  IF \E n \in DOMAIN below : below[n].at = "retire" /\ r \in below[n].rooms
  THEN MapSet(dead, r, room) ELSE MapDelete(dead, {r})

\* What a room has become, in the Map or held on to outside it.
Keep(r, room, below) ==
  IF r \in DOMAIN sessions
  THEN sessions' = [sessions EXCEPT ![r] = room] /\ UNCHANGED dead
  ELSE dead' = Buried(r, room, below) /\ UNCHANGED sessions

\* Mutation: the topic that is forgotten is the project's, not the room's.
EndForgetsProject(r, room, below) ==
  /\ sessions' = MapDelete(sessions, {r})
  /\ dead' = Buried(r, room, below)
  /\ stack' = <<Closed(r, room), [at |-> "forget", topic |-> LiveTopic(room.project)]>> \o below

\* end: the room leaves the Map, the project is told, the room's topic forgotten.
End(r, room, below) ==
  /\ sessions' = MapDelete(sessions, {r})
  /\ dead' = Buried(r, room, below)
  /\ stack' = <<Closed(r, room), [at |-> "forget", topic |-> RoomTopic(r)]>> \o below

\* Mutation: the last to leave ends a room, its opener does not.
PartLeavesOpen(r, room, id, below) ==
  LET left == [room EXCEPT !.members = @ \ {id}]
  IN  IF left.members = {} THEN End(r, left, below)
      ELSE Keep(r, left, below) /\ stack' = <<Changed(r, left)>> \o below

\* part: one member leaves, of a room that may have ended since it was looked up.
Part(r, room, id, below) ==
  LET left == [room EXCEPT !.members = @ \ {id}]
  IN  IF Ends(room, {id}) THEN End(r, left, below)
      ELSE Keep(r, left, below) /\ stack' = <<Changed(r, left)>> \o below

\* retire takes the instance out of the Map and walks over a copy of the rooms,
\* of which those the instance has no place in are passed over.
Retire(id) ==
  [at |-> "retire", id |-> id, project |-> instances[id].project,
   rooms |-> {r \in DOMAIN sessions : id \in Seated(r)}]

-----------------------------------------------------------------------------
(* Clients.                                                                *)

Open(c) ==
  /\ Idle /\ up = "serving" /\ status[c] = "new"
  /\ status' = [status EXCEPT ![c] = "open"]
  /\ hub' = Append(hub, c)
  /\ UNCHANGED <<presence, topics, operators, up, frames, sequences, stack, copy>>

(* A session ends by itself: the client closes, a heartbeat goes           *)
(* unanswered, the token is refused, or the answer to a call is one write  *)
(* too many.                                                               *)
Close(c) ==
  /\ Idle /\ status[c] = "open"
  /\ CloseSession(c, <<>>)
  /\ copy' = [copy EXCEPT ![c] = <<>>]
  /\ UNCHANGED <<up, frames>>

Calls ==
  [method : {"clients.announce"}, id : Instances, project : Projects \cup {NoProject}]
  \cup [method : {"clients.withdraw"}, project : Projects]
  \cup [method : {"live.open"}, project : Projects, rule : Rules]
  \cup [method : {"live.rule"}, room : Rooms, rule : Rules]
  \cup [method : {"live.join"}, room : Rooms, byCode : BOOLEAN]
  \cup [method : {"live.answerJoin"}, room : Rooms, asked : Instances, admit : BOOLEAN]
  \cup [method : {"live.requestJoin", "live.leave", "live.close", "live.say"}, room : Rooms]
  \cup [method : {"subscribe", "unsubscribe"}, topic : Topics]

\* What clients send are calls there are.
ASSUME SendsAssumption == Sends \in [Connections -> SUBSET Calls]

\* identify: a session whose account is no operator any more loses what it was
\* told as one, and is told that: a write, which may end it.  What called
\* identify goes on either way.
Identify(c, below) ==
  IF AdminTopic \in topics[c] /\ AccountOf[c] \notin operators
  THEN \/ /\ topics' = [topics EXCEPT ![c] = @ \ {AdminTopic}]
          /\ copy' = [copy EXCEPT ![c] = MapDelete(@, {AdminTopic})]
          /\ stack' = below
          /\ UNCHANGED <<presence, status, hub, operators, sequences>>
       \/ /\ c \in SlowPeers
          /\ CloseSession(c, below)
          /\ copy' = [copy EXCEPT ![c] = <<>>]
  ELSE stack' = below /\ UNCHANGED <<presence, status, hub, topics, operators, sequences, copy>>

Receive(c, call) ==
  LET handle == <<[at |-> "handle", connection |-> c, call |-> call]>>
  IN  /\ Idle /\ status[c] = "open"
      /\ frames < MaxFrames
      /\ frames' = frames + 1
      /\ IF call.method = "unsubscribe"
         THEN stack' = handle
              /\ UNCHANGED <<presence, status, hub, topics, operators, sequences, copy>>
         ELSE Identify(c, handle)
      /\ UNCHANGED up

\* The timer of an open session asks the same question.
Revalidate(c) ==
  /\ Idle /\ status[c] = "open"
  /\ AdminTopic \in topics[c] /\ AccountOf[c] \notin operators
  /\ Identify(c, <<>>)
  /\ UNCHANGED <<up, frames>>

\* A client whose copy is not in step reads the collection again.
ReadAgain(c, t) ==
  /\ Idle /\ status[c] = "open"
  /\ t \in topics[c] \ DOMAIN copy[c]
  /\ copy' = [copy EXCEPT ![c] =
                MapSet(@, t, [last |-> sequences[t], view |-> Collection(t)])]
  /\ UNCHANGED <<presence, server, sequences, stack>>

(* Elsewhere: an account stops being an operator, by a write of this       *)
(* process or of the CLI's to the one database; an operator's call, which  *)
(* has awaited something, publishes what it did.                           *)
Demote(a) ==
  /\ Idle /\ a \in operators
  /\ operators' = operators \ {a}
  /\ UNCHANGED <<presence, status, hub, topics, up, frames, sequences, stack, copy>>

PublishElsewhere ==
  /\ Idle /\ operators # {} /\ frames < MaxFrames
  /\ frames' = frames + 1
  /\ stack' = <<AdminChanged>>
  /\ UNCHANGED <<presence, status, hub, topics, operators, up, sequences, copy>>

\* up is told to stop.  It closes the listener first, so that no connection is
\* accepted any more, and waits for the ones that are open.
Stop ==
  /\ Idle /\ up = "serving"
  /\ up' = "closing"
  /\ UNCHANGED <<presence, status, hub, topics, operators, frames, sequences, stack, copy>>

-----------------------------------------------------------------------------
(* The handlers, each up to what it publishes.  c is the connection the    *)
(* call came on, which may be over by now.                                 *)

HandleAnnounce(c, id, p) ==
  LET before == IF id \in DOMAIN instances THEN instances[id].project ELSE NoProject
  IN  /\ Announce(c, id, p)
      /\ stack' = (IF before \in {NoProject, p} THEN <<>> ELSE <<ClientGone(id, before)>>)
                    \o (IF p = NoProject THEN <<>> ELSE <<ClientHere(id, p)>>) \o Below
      /\ UNCHANGED <<dead, opened>>

HandleWithdraw(c, p) ==
  \E id \in ToSet(byConnection[c]) :
    /\ IsInstanceOn(id, c, p)
    /\ byConnection' = [byConnection EXCEPT ![c] = SetDelete(@, id)]
    /\ instances' = MapDelete(instances, {id})
    /\ stack' = <<Retire(id)>> \o Below
    /\ UNCHANGED <<sessions, dead, opened>>

HandleOpen(c, p, rule) ==
  \E id \in ToSet(byConnection[c]), code \in Codes :
    /\ opened + 1 \in Rooms
    /\ LiveOpen(c, id, p, opened + 1, rule, code)
    /\ opened' = opened + 1
    /\ stack' = <<Opened(opened', sessions'[opened'])>> \o Below
    /\ UNCHANGED dead

HandleRule(c, r, rule) ==
  \E id \in ToSet(byConnection[c]) :
    /\ LiveRule(c, id, r, rule)
    /\ stack' = (IF sessions[r].rule = rule THEN <<>> ELSE <<Changed(r, sessions'[r])>>) \o Below
    /\ UNCHANGED <<dead, opened>>

\* Mutation: the room is joined and nobody is told.
HandleJoinInSilence(c, r, byCode) ==
  \E id \in ToSet(byConnection[c]) :
    /\ LiveJoin(c, id, r, byCode)
    /\ stack' = Below
    /\ UNCHANGED <<dead, opened>>

HandleJoin(c, r, byCode) ==
  \E id \in ToSet(byConnection[c]) :
    /\ LiveJoin(c, id, r, byCode)
    /\ stack' = <<Changed(r, sessions'[r])>> \o Below
    /\ UNCHANGED <<dead, opened>>

HandleRequestJoin(c, r) ==
  \E id \in ToSet(byConnection[c]) :
    /\ LiveRequestJoin(c, id, r)
    /\ stack' = <<Requested(r, sessions[r])>> \o Below
    /\ UNCHANGED <<dead, opened>>

HandleAnswerJoin(c, r, asked, admit) ==
  \E id \in ToSet(byConnection[c]) :
    /\ LiveAnswerJoin(c, id, r, asked, admit)
    /\ stack' = <<IF admit THEN Changed(r, sessions'[r])
                  ELSE RequestRefused(r, sessions[r])>> \o Below
    /\ UNCHANGED <<dead, opened>>

HandleLeave(c, r) ==
  \E id \in ToSet(byConnection[c]) :
    /\ CallerFor(id, c, r)
    /\ id \in sessions[r].members
    /\ Part(r, sessions[r], id, Below)
    /\ UNCHANGED <<instances, byConnection, opened>>

HandleClose(c, r) ==
  \E id \in ToSet(byConnection[c]) :
    /\ CallerFor(id, c, r)
    /\ sessions[r].openedByInstance = id
    /\ End(r, sessions[r], Below)
    /\ UNCHANGED <<instances, byConnection, opened>>

HandleSay(c, r) ==
  \E id \in ToSet(byConnection[c]) :
    /\ CallerFor(id, c, r)
    /\ id \in sessions[r].members
    /\ stack' = <<Said(r)>> \o Below
    /\ UNCHANGED presence

HandleCall ==
  LET c == Top.connection call == Top.call
  IN  /\ At("handle")
      /\ \/ call.method = "clients.announce" /\ HandleAnnounce(c, call.id, call.project)
         \/ call.method = "clients.withdraw" /\ HandleWithdraw(c, call.project)
         \/ call.method = "live.open"        /\ HandleOpen(c, call.project, call.rule)
         \/ call.method = "live.rule"        /\ HandleRule(c, call.room, call.rule)
         \/ call.method = "live.join"        /\ HandleJoin(c, call.room, call.byCode)
         \/ call.method = "live.requestJoin" /\ HandleRequestJoin(c, call.room)
         \/ call.method = "live.answerJoin"
              /\ HandleAnswerJoin(c, call.room, call.asked, call.admit)
         \/ call.method = "live.leave"       /\ HandleLeave(c, call.room)
         \/ call.method = "live.close"       /\ HandleClose(c, call.room)
         \/ call.method = "live.say"         /\ HandleSay(c, call.room)
      /\ UNCHANGED <<server, sequences, copy>>

\* judgeTopic: a project's topics, a room that is open, and an operator's own.
MaySubscribe(c, t) ==
  /\ t.of = "room" => t.key \in DOMAIN sessions
  /\ t.of = "admin" => AccountOf[c] \in operators

\* The answer carries the topic's sequence; the client reads the collection.
HandleSubscribe ==
  LET c == Top.connection t == Top.call.topic
  IN  /\ At("handle") /\ Top.call.method = "subscribe"
      /\ t \notin topics[c]
      /\ Cardinality(topics[c]) < SubscriptionLimit
      /\ MaySubscribe(c, t)
      /\ topics' = [topics EXCEPT ![c] = @ \cup {t}]
      /\ copy' = IF status[c] = "over" THEN copy
                 ELSE [copy EXCEPT ![c] =
                         MapSet(@, t, [last |-> sequences[t], view |-> Collection(t)])]
      /\ stack' = Below
      /\ UNCHANGED <<presence, status, hub, operators, up, frames, sequences>>

HandleUnsubscribe ==
  LET c == Top.connection t == Top.call.topic
  IN  /\ At("handle") /\ Top.call.method = "unsubscribe"
      /\ topics' = [topics EXCEPT ![c] = @ \ {t}]
      /\ copy' = [copy EXCEPT ![c] = MapDelete(@, {t})]
      /\ stack' = Below
      /\ UNCHANGED <<presence, status, hub, operators, up, frames, sequences>>

\* A call may be refused before it changes anything: its parameters, the account,
\* the project or the room are not what it takes.
Refuse ==
  /\ At("handle")
  /\ stack' = Below
  /\ UNCHANGED <<presence, server, sequences, copy>>

-----------------------------------------------------------------------------
(* What a call sets off.                                                   *)

\* publish: the sequence moves whoever listens, and the hub's Set is walked.
BeginPublish ==
  /\ At("publish")
  /\ sequences' = [sequences EXCEPT ![Top.topic] = @ + 1]
  /\ stack' = <<[at |-> "deliver", event |-> Top, seq |-> sequences'[Top.topic], to |-> hub]>>
                \o Below
  /\ UNCHANGED <<presence, server, copy>>

\* The sessions of the Set, as it is now, that want a topic.
Wanting(topic) == {c \in ToSet(hub) : topic \in topics[c]}

\* What a client does with an event: exactly the next number is applied.
Heard(held, deliver) ==
  LET t == deliver.event.topic
  IN  IF t \notin DOMAIN held THEN held
      ELSE IF deliver.seq = held[t].last + 1
      THEN MapSet(held, t, [last |-> deliver.seq, view |-> Applied(held[t].view, deliver.event)])
      ELSE MapDelete(held, {t})

\* Every session that wants the event is written to, in turn, up to one that has too
\* much queued already; that one closes, and the walk goes on when its close is done.
Deliver ==
  LET to == Top.to
      wanting == Wanting(Top.event.topic)
  IN  /\ At("deliver")
      /\ \E n \in 0 .. Len(to) :
           LET told == wanting \cap {to[m] : m \in 1 .. n}
               after == [c \in Connections |-> IF c \in told THEN Heard(copy[c], Top) ELSE copy[c]]
           IN  IF n = Len(to)
               THEN /\ copy' = after
                    /\ stack' = Below
                    /\ UNCHANGED <<presence, status, hub, topics, operators, sequences>>
               ELSE LET slow == to[n + 1]
                        rest == SubSeq(to, n + 2, Len(to))
                    IN  /\ slow \in wanting \cap SlowPeers
                        /\ copy' = [after EXCEPT ![slow] = <<>>]
                        /\ CloseSession(slow, <<[Top EXCEPT !.to = rest]>> \o Below)
      /\ UNCHANGED <<up, frames>>

\* dropConnection, after the connection's set is out of its Map: one instance,
\* unless it is gone or a newer connection has it.
DropNext ==
  /\ At("drop") /\ Top.ids # <<>>
  /\ LET id == Head(Top.ids)
         below == <<[at |-> "drop", connection |-> Top.connection, ids |-> Tail(Top.ids)]>> \o Below
     IN  IF id \in DOMAIN instances /\ instances[id].connection = Top.connection
         THEN /\ instances' = MapDelete(instances, {id})
              /\ stack' = <<Retire(id)>> \o below
         ELSE stack' = below /\ UNCHANGED instances
  /\ UNCHANGED <<byConnection, sessions, dead, opened, server, sequences, copy>>

\* retire, in the first room left of its copy: the request goes, and the member
\* parts, in a room that may have ended since the copy was made.
RetireFrom(r, id, below) ==
  LET held == IF r \in DOMAIN sessions THEN sessions[r] ELSE dead[r]
      room == [held EXCEPT !.requests = @ \ {id}]
  IN  IF id \in room.members THEN Part(r, room, id, below)
      ELSE Keep(r, room, below) /\ stack' = below

RetireFromRoom ==
  /\ At("retire")
  /\ \E r \in Top.rooms :
       /\ \A s \in Top.rooms : r <= s
       /\ RetireFrom(r, Top.id, <<[Top EXCEPT !.rooms = @ \ {r}]>> \o Below)
  /\ UNCHANGED <<instances, byConnection, opened, server, sequences, copy>>

\* retire, after the rooms: the project is told.
RetireDone ==
  /\ At("retire") /\ Top.rooms = {}
  /\ stack' = (IF Top.project = NoProject THEN <<>> ELSE <<ClientGone(Top.id, Top.project)>>)
                \o Below
  /\ UNCHANGED <<presence, server, sequences, copy>>

Forget ==
  /\ At("forget")
  /\ sequences' = [sequences EXCEPT ![Top.topic] = 0]
  /\ stack' = Below
  /\ UNCHANGED <<presence, server, copy>>

\* A drop with nothing left to do returns.
DropDone ==
  /\ At("drop") /\ Top.ids = <<>>
  /\ stack' = Below
  /\ UNCHANGED <<presence, server, sequences, copy>>

\* The listener has closed once no connection of its own is open; then closeAll,
\* which finds nobody, and the hub is cleared.
CloseAll ==
  /\ Idle /\ up = "closing"
  /\ \A c \in Connections : status[c] # "open"
  /\ up' = "stopped"
  /\ hub' = <<>>
  /\ UNCHANGED <<presence, status, topics, operators, frames, sequences, stack, copy>>

-----------------------------------------------------------------------------

DInit ==
  /\ Init
  /\ dead = <<>>
  /\ opened = 0
  /\ status = [c \in Connections |-> "new"]
  /\ hub = <<>>
  /\ topics = [c \in Connections |-> {}]
  /\ sequences = [t \in Topics |-> 0]
  /\ operators = Operators
  /\ stack = <<>>
  /\ up = "serving"
  /\ frames = 0
  /\ copy = [c \in Connections |-> <<>>]

\* What the thread does once something has arrived, without waiting for anything.
Run ==
  \/ HandleCall
  \/ HandleSubscribe
  \/ HandleUnsubscribe
  \/ Refuse
  \/ BeginPublish
  \/ Deliver
  \/ DropNext
  \/ RetireFromRoom
  \/ RetireDone
  \/ Forget
  \/ DropDone
  \/ CloseAll

\* What arrives from outside.
Arrive ==
  \/ \E c \in Connections :
       \/ Open(c)
       \/ Close(c)
       \/ \E call \in Sends[c] : Receive(c, call)
       \/ Revalidate(c)
       \/ \E t \in Topics : ReadAgain(c, t)
  \/ \E a \in Accounts : Demote(a)
  \/ PublishElsewhere
  \/ Stop

DNext == Run \/ Arrive

\* The thread runs while there is something to run.
DSpec == DInit /\ [][DNext]_dvars /\ WF_dvars(Run)

-----------------------------------------------------------------------------
(* Presence, as its callers see it: what a drop or a retire under way has  *)
(* yet to take away is gone already.                                       *)

Dropping ==
  UNION {{id \in ToSet(stack[n].ids) :
            id \in DOMAIN instances /\ instances[id].connection = stack[n].connection} :
         n \in {n \in DOMAIN stack : stack[n].at = "drop"}}
Retiring == {stack[n].id : n \in {n \in DOMAIN stack : stack[n].at = "retire"}}

Abstract == INSTANCE Presence WITH
  instances <- MapDelete(instances, Dropping),
  sessions  <- RoomsWithout(Dropping \cup Retiring)

-----------------------------------------------------------------------------
(* Properties.                                                             *)

(* However the calls nest, what they do to instances and rooms is what     *)
(* they would do one at a time.                                            *)
NestingIsInvisible == Abstract!Spec

(* No event is lost without its subscriber being able to tell: a client    *)
(* that believes its copy to be in step has seen the last number of the    *)
(* topic.  (A room's own topic is forgotten with the room.)                *)
NothingMissedUnnoticed ==
  Idle => \A c \in Connections : \A t \in DOMAIN copy[c] :
            t.of = "room" \/ copy[c][t].last = sequences[t]

(* A client in step holds what a read would give it: "anything other than  *)
(* exactly the next number means read the collection again"                *)
(* (docs/protocol.md), so exactly the next number means there is no need.  *)
InStepMeansRight ==
  Idle => \A c \in Connections : \A t \in DOMAIN copy[c] :
            Listed(t, copy[c][t].view) = Collection(t)

\* identify has ended the session it let go on: it was an operator's, is not, and
\* had too much queued to be told that.
DemotedWhileSlow(c) == c \in SlowPeers /\ AccountOf[c] \in Operators \ operators

(* Nothing outlives the connection it came on: when a call has run to its  *)
(* end, every instance is on a connection that is open ("Whatever this     *)
(* connection said it was goes with it", src/src/team/session.ts:258).     *)
(* Only a call that runs after its own identify has ended its session      *)
(* announces what nothing takes back.                                      *)
NobodyLeftBehind ==
  Idle => \A id \in DOMAIN instances :
            \/ status[instances[id].connection] = "open"
            \/ DemotedWhileSlow(instances[id].connection)

(* `up` that is told to stop does stop: "one idle session" is not "enough  *)
(* to stop that happening" (src/src/team/websocket.ts:225-227).            *)
UpStops == up = "closing" ~> up = "stopped"
=============================================================================
