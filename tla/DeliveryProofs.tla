--------------------------- MODULE DeliveryProofs ---------------------------
(***************************************************************************)
(* What Delivery promises to those it serves, for any clients and whatever *)
(* they send: its callers see Presence, however the calls nest, and a      *)
(* client that believes its copy of a collection to be in step holds what  *)
(* a read would give.  Both rest on DInv, the invariant of Delivery, which *)
(* PresenceProofs proves.                                                  *)
(***************************************************************************)
EXTENDS PresenceProofs

-----------------------------------------------------------------------------
(* Presence as its callers see it.                                         *)

Gone == Dropping \cup Retiring
InstancesSeen == MapDelete(instances, Dropping)
SessionsSeen == RoomsWithout(Gone)

\* What is gone already is what the drops and the retires under way say.
GoneAre ==
  /\ \A id : id \in Dropping <=>
       /\ id \in DOMAIN instances
       /\ \E f \in Calling : /\ f.at = "drop" /\ f.connection = instances[id].connection
                             /\ id \in ToSet(f.ids)
  /\ \A id : id \in Retiring <=> \E f \in Calling : f.at = "retire" /\ f.id = id

LEMMA GoneFacts == GoneAre
<1>1. \A f : f \in Calling <=> \E n \in DOMAIN stack : stack[n] = f
  BY DEF Calling, ToSet
<1>2. ASSUME NEW id
      PROVE  id \in Dropping <=>
               /\ id \in DOMAIN instances
               /\ \E f \in Calling : /\ f.at = "drop" /\ f.connection = instances[id].connection
                                     /\ id \in ToSet(f.ids)
  BY <1>1 DEF Dropping
<1>3. ASSUME NEW id
      PROVE  id \in Retiring <=> \E f \in Calling : f.at = "retire" /\ f.id = id
  BY <1>1 DEF Retiring
<1> QED
  BY <1>2, <1>3 DEF GoneAre

\* What a room is once some have left it.
Without(room, gone) == [room EXCEPT !.members = @ \ gone, !.requests = @ \ gone]

LEMMA WithoutFacts ==
  ASSUME NEW room \in LiveEntry, NEW gone
  PROVE  /\ Without(room, gone) \in LiveEntry
         /\ Without(room, gone).members = room.members \ gone
         /\ Without(room, gone).requests = room.requests \ gone
         /\ Without(room, gone).openedByInstance = room.openedByInstance
BY DEF Without, LiveEntry

\* Rooms are the same when what they are called is.
LEMMA SameRoom ==
  ASSUME NEW a \in LiveEntry, NEW b \in LiveEntry,
         a.project = b.project, a.openedBy = b.openedBy,
         a.openedByInstance = b.openedByInstance, a.members = b.members, a.rule = b.rule,
         a.requests = b.requests, a.code = b.code
  PROVE  a = b
BY DEF LiveEntry

\* Nobody in a room is gone when nobody is.
LEMMA WithoutNobody ==
  ASSUME NEW room \in LiveEntry
  PROVE  Without(room, {}) = room /\ ~Ends(room, {})
<1>1. ~Ends(room, {})
  BY DEF Ends
<1>2. Without(room, {}) = room
  BY DEF Without, LiveEntry
<1> QED
  BY <1>1, <1>2

\* Leaving in two parts is leaving at once.
LEMMA WithoutTwice ==
  ASSUME NEW room \in LiveEntry, NEW a, NEW b
  PROVE  /\ Ends(room, a) => Ends(room, a \cup b)
         /\ ~Ends(room, a) => (Ends(Without(room, a), b) <=> Ends(room, a \cup b))
         /\ Without(Without(room, a), b) = Without(room, a \cup b)
<1>1. PICK m, o : m = room.members /\ o = room.openedByInstance
  OBVIOUS
<1>2. PICK left \in LiveEntry : /\ left = Without(room, a)
                                /\ left.members = m \ a /\ left.openedByInstance = o
  BY <1>1, WithoutFacts
<1>3. Ends(room, a) => Ends(room, a \cup b)
  BY DEF Ends
<1>4. ASSUME ~Ends(room, a)
      PROVE  Ends(left, b) <=> Ends(room, a \cup b)
  <2>1. Ends(left, b) <=>
          /\ (m \ a) \cap b # {}
          /\ o \in (m \ a) \cap b \/ m \ a \subseteq b
    BY <1>2 DEF Ends
  <2>2. Ends(room, a \cup b) <=>
          /\ m \cap (a \cup b) # {}
          /\ o \in m \cap (a \cup b) \/ m \subseteq a \cup b
    BY <1>1 DEF Ends
  <2>3. m \cap a = {} \/ (o \notin m \cap a /\ ~(m \subseteq a))
    BY <1>1, <1>4 DEF Ends
  <2> QED
    BY ONLY <2>1, <2>2, <2>3
<1>5. Without(Without(room, a), b) = Without(room, a \cup b)
  BY DEF Without, LiveEntry
<1> QED
  BY <1>2, <1>3, <1>4, <1>5

\* What the Map of rooms comes to when some are gone.
LEMMA RoomsWithoutFacts ==
  ASSUME NEW gone
  PROVE  /\ DOMAIN RoomsWithout(gone) = {r \in DOMAIN sessions : ~Ends(sessions[r], gone)}
         /\ \A r \in DOMAIN RoomsWithout(gone) :
              RoomsWithout(gone)[r] = Without(sessions[r], gone)
         /\ RoomsWithout(gone) = [r \in DOMAIN RoomsWithout(gone) |-> RoomsWithout(gone)[r]]
BY DEF RoomsWithout, Without

\* A step its callers do not see.
LEMMA Unseen ==
  ASSUME byConnection' = byConnection, InstancesSeen' = InstancesSeen,
         SessionsSeen' = SessionsSeen
  PROVE  [Abstract!Next]_(Abstract!vars)
BY DEF Abstract!vars, InstancesSeen, SessionsSeen, Gone

\* Nothing that was under way has changed.
LEMMA UnseenUnderWay ==
  ASSUME UNCHANGED <<instances, byConnection, sessions>>,
         \A f \in Calling : f.at = "drop" => f \in Calling' \/ ToSet(f.ids) = {},
         \A f \in Calling' : f.at \in {"drop", "retire"} => f \in Calling,
         \A f \in Calling : f.at = "retire" => f \in Calling'
  PROVE  [Abstract!Next]_(Abstract!vars)
<1>1. GoneAre /\ GoneAre'
  BY GoneFacts, PTL
<1>2. ASSUME NEW id
      PROVE  id \in Dropping' <=> id \in Dropping
  BY <1>1 DEF GoneAre
<1>3. ASSUME NEW id
      PROVE  id \in Retiring' <=> id \in Retiring
  BY <1>1 DEF GoneAre
<1>4. Dropping' = Dropping /\ Retiring' = Retiring
  BY <1>2, <1>3
<1>5. InstancesSeen' = InstancesSeen /\ SessionsSeen' = SessionsSeen
  BY <1>4 DEF InstancesSeen, SessionsSeen, RoomsWithout, Gone
<1> QED
  BY <1>5, Unseen

\* Who is in no room is not missed in any.
LEMMA NotSeated ==
  ASSUME sessions \in [DOMAIN sessions -> LiveEntry], NEW a, NEW b,
         \A r \in DOMAIN sessions : Seated(r) \cap a = Seated(r) \cap b
  PROVE  RoomsWithout(a) = RoomsWithout(b)
<1>1. ASSUME NEW r \in DOMAIN sessions
      PROVE  /\ Ends(sessions[r], a) <=> Ends(sessions[r], b)
             /\ Without(sessions[r], a) = Without(sessions[r], b)
  <2>1. PICK room \in LiveEntry : room = sessions[r]
    OBVIOUS
  <2>2. /\ room.members \cap a = room.members \cap b
        /\ room.members \ a = room.members \ b /\ room.requests \ a = room.requests \ b
        /\ room.members \subseteq a <=> room.members \subseteq b
    BY <2>1 DEF Seated
  <2>3. Ends(room, a) <=> Ends(room, b)
    BY <2>2 DEF Ends
  <2>4. Without(room, a) = Without(room, b)
    BY <2>2 DEF Without
  <2> QED
    BY <2>1, <2>3, <2>4
<1>2. PICK one, two : one = RoomsWithout(a) /\ two = RoomsWithout(b)
  OBVIOUS
<1>3. /\ DOMAIN one = {r \in DOMAIN sessions : ~Ends(sessions[r], a)}
      /\ \A r \in DOMAIN one : one[r] = Without(sessions[r], a)
      /\ one = [r \in DOMAIN one |-> one[r]]
  BY <1>2, RoomsWithoutFacts
<1>4. /\ DOMAIN two = {r \in DOMAIN sessions : ~Ends(sessions[r], b)}
      /\ \A r \in DOMAIN two : two[r] = Without(sessions[r], b)
      /\ two = [r \in DOMAIN two |-> two[r]]
  BY <1>2, RoomsWithoutFacts
<1>5. DOMAIN one = DOMAIN two
  BY <1>1, <1>3, <1>4
<1>6. \A r \in DOMAIN one : one[r] = two[r]
  BY <1>1, <1>3, <1>4, <1>5
<1>7. one = two
  BY <1>3, <1>4, <1>5, <1>6
<1> QED
  BY <1>2, <1>7

LEMMA RetireDoneUnseen ==
  ASSUME DInv, RetireDone
  PROVE  [Abstract!Next]_(Abstract!vars)
<1>1. /\ stack # <<>> /\ Top.at = "retire" /\ Top.rooms = {}
      /\ UNCHANGED <<instances, byConnection, sessions, dead>>
      /\ stack' = (IF Top.project = NoProject THEN <<>>
                   ELSE <<ClientGone(Top.id, Top.project)>>) \o Below
  BY DEF RetireDone, At, Idle, presence
<1>2. /\ Stacked(Below) /\ CallsLast(Below) /\ FrameOK(Top)
      /\ Calling = {Top} \cup ToSet(Below) /\ RetireInv /\ DTyped
  BY <1>1, TopFacts, DInvParts
<1>3. /\ ToSet(Below) \subseteq Calling'
      /\ \A f \in Calling' : f \in ToSet(Below) \/ f.at = "publish"
  <2>1. CASE Top.project = NoProject
    <3>1. <<>> \o Below = Below
      BY <1>2, ConcatEmptySeq DEF Stacked
    <3>2. stack' = Below
      BY <1>1, <2>1, <3>1
    <3> QED
      BY <3>2 DEF Calling
  <2>2. CASE Top.project # NoProject
    <3>1. PICK g : g = ClientGone(Top.id, Top.project)
      OBVIOUS
    <3>2. stack' = <<g>> \o Below /\ g.at = "publish"
      BY <1>1, <2>2, <3>1 DEF ClientGone, Publish
    <3> QED
      BY <1>2, <3>2, SeqPush DEF Stacked, Calling
  <2> QED
    BY <2>1, <2>2
<1>4. GoneAre /\ GoneAre'
  BY GoneFacts, PTL
<1>5. ASSUME NEW id
      PROVE  id \in Dropping' <=> id \in Dropping
  BY <1>1, <1>2, <1>3, <1>4 DEF GoneAre
<1>6. ASSUME NEW id
      PROVE  /\ id \in Retiring' => id \in Retiring
             /\ id \in Retiring => id \in Retiring' \/ id = Top.id
  BY <1>1, <1>2, <1>3, <1>4 DEF GoneAre
<1>7. Dropping' = Dropping /\ Gone' \subseteq Gone /\ Gone \subseteq Gone' \cup {Top.id}
  BY <1>5, <1>6 DEF Gone
<1>8. \A r \in DOMAIN sessions : Top.id \notin Seated(r)
  BY <1>1, <1>2 DEF RetireInv
<1>9. PICK gone, now : gone = Gone /\ now = Gone'
  OBVIOUS
<1>10. RoomsWithout(gone) = RoomsWithout(now)
  <2>1. \A r \in DOMAIN sessions : Seated(r) \cap gone = Seated(r) \cap now
    BY <1>7, <1>8, <1>9
  <2> QED
    BY <1>2, <2>1, NotSeated DEF DTyped, TypeOK
<1>11. InstancesSeen' = InstancesSeen /\ SessionsSeen' = SessionsSeen
  <2>1. SessionsSeen' = RoomsWithout(now)
    BY <1>1, <1>9 DEF SessionsSeen, RoomsWithout
  <2>2. SessionsSeen = RoomsWithout(gone)
    BY <1>9 DEF SessionsSeen
  <2> QED
    BY <1>1, <1>7, <1>10, <2>1, <2>2 DEF InstancesSeen
<1> QED
  BY <1>1, <1>11, Unseen

\* An instance goes from what is being dropped to what is being retired.
LEMMA DropNextUnseen ==
  ASSUME DInv, DropNext
  PROVE  [Abstract!Next]_(Abstract!vars)
<1>1. /\ DTyped /\ At("drop") /\ stack # <<>> /\ Top.at = "drop" /\ Top.ids # <<>>
      /\ UNCHANGED <<byConnection, sessions, dead>>
  BY DInvParts DEF DropNext, At, Idle
<1>2. /\ Stacked(Below) /\ CallsLast(Below) /\ FrameOK(Top)
      /\ Calling = {Top} \cup ToSet(Below)
  BY <1>1, TopFacts
<1>3. PICK c \in Connections, ids \in Seq(Instances) : c = Top.connection /\ ids = Top.ids
  BY <1>1, <1>2 DEF FrameOK
<1>4. ids # <<>> /\ ToSet(ids) = {Head(ids)} \cup ToSet(Tail(ids))
  BY <1>1, <1>3, OwnSeq, SeqPop
<1>5. PICK id : id = Head(ids)
  OBVIOUS
<1>6. PICK g : g = [at |-> "drop", connection |-> Top.connection, ids |-> Tail(Top.ids)]
  OBVIOUS
<1>7. g.at = "drop" /\ g.connection = c /\ g.ids = Tail(ids)
  BY <1>3, <1>6
<1>8. \/ /\ id \in DOMAIN instances /\ instances[id].connection = c
         /\ instances' = MapDelete(instances, {id})
         /\ stack' = <<Retire(id)>> \o (<<g>> \o Below)
      \/ /\ ~(id \in DOMAIN instances /\ instances[id].connection = c)
         /\ instances' = instances /\ stack' = <<g>> \o Below
  BY <1>3, <1>5, <1>6 DEF DropNext
<1>9. PICK below : below = <<g>> \o Below
  OBVIOUS
<1>10. below \in Seq(ToSet(below)) /\ ToSet(below) = {g} \cup ToSet(Below)
  BY <1>2, <1>9, SeqPush DEF Stacked
<1>11. GoneAre /\ GoneAre'
  BY GoneFacts, PTL
<1>12. CASE /\ ~(id \in DOMAIN instances /\ instances[id].connection = c)
            /\ instances' = instances /\ stack' = <<g>> \o Below
  <2>1. Calling' = {g} \cup ToSet(Below)
    BY <1>9, <1>10, <1>12 DEF Calling
  <2>2. ASSUME NEW j
        PROVE  j \in Dropping' <=> j \in Dropping
    BY <1>1, <1>2, <1>3, <1>4, <1>5, <1>7, <1>11, <1>12, <2>1 DEF GoneAre
  <2>3. ASSUME NEW j
        PROVE  j \in Retiring' <=> j \in Retiring
    BY <1>1, <1>2, <1>7, <1>11, <2>1 DEF GoneAre
  <2>4. Dropping' = Dropping /\ Gone' = Gone
    BY <2>2, <2>3 DEF Gone
  <2>5. InstancesSeen' = InstancesSeen /\ SessionsSeen' = SessionsSeen
    BY <1>1, <1>12, <2>4 DEF InstancesSeen, SessionsSeen, RoomsWithout
  <2> QED
    BY <1>1, <2>5, Unseen
<1>13. CASE /\ id \in DOMAIN instances /\ instances[id].connection = c
            /\ instances' = MapDelete(instances, {id})
            /\ stack' = <<Retire(id)>> \o (<<g>> \o Below)
  <2>1. PICK f : f = Retire(id)
    OBVIOUS
  <2>2. f.at = "retire" /\ f.id = id
    BY <2>1 DEF Retire
  <2>3. stack' = <<f>> \o below
    BY <1>9, <1>13, <2>1
  <2>4. Calling' = {f, g} \cup ToSet(Below)
    BY <1>10, <2>3, SeqPush DEF Calling
  <2>5. /\ DOMAIN instances' = DOMAIN instances \ {id}
        /\ \A j \in DOMAIN instances' : instances'[j] = instances[j]
    BY <1>13 DEF MapDelete, Restrict
  <2>6. id \in Dropping
    <3>1. Top \in Calling /\ Top.connection = c /\ id \in ToSet(Top.ids)
      BY <1>2, <1>3, <1>4, <1>5
    <3> QED
      BY <1>1, <1>11, <1>13, <3>1 DEF GoneAre
  <2>7. ASSUME NEW j
        PROVE  j \in Dropping' <=> j \in Dropping /\ j # id
    BY <1>1, <1>2, <1>3, <1>4, <1>5, <1>7, <1>11, <2>2, <2>4, <2>5 DEF GoneAre
  <2>8. ASSUME NEW j
        PROVE  j \in Retiring' <=> j \in Retiring \/ j = id
    BY <1>1, <1>2, <1>7, <1>11, <2>2, <2>4 DEF GoneAre
  <2>9. Dropping' = Dropping \ {id} /\ Gone' = Gone
    BY <2>6, <2>7, <2>8 DEF Gone
  <2>10. InstancesSeen' = InstancesSeen
    <3>1. DOMAIN instances' \ Dropping' = DOMAIN instances \ Dropping
      BY <2>5, <2>6, <2>9
    <3> QED
      BY <2>5, <3>1 DEF InstancesSeen, MapDelete, Restrict
  <2>11. SessionsSeen' = SessionsSeen
    BY <1>1, <2>9 DEF SessionsSeen, RoomsWithout
  <2> QED
    BY <1>1, <2>10, <2>11, Unseen
<1> QED
  BY <1>8, <1>12, <1>13

\* What a retire makes of the Map of rooms.
LEMMA RetireRooms ==
  ASSUME RoomsTyped, NEW r, NEW id, NEW below, RetireFrom(r, id, below)
  PROVE  \/ r \notin DOMAIN sessions /\ sessions' = sessions
         \/ /\ r \in DOMAIN sessions /\ Ends(sessions[r], {id})
            /\ sessions' = MapDelete(sessions, {r})
         \/ /\ r \in DOMAIN sessions /\ ~Ends(sessions[r], {id})
            /\ sessions' = [sessions EXCEPT ![r] = Without(sessions[r], {id})]
<1>1. CASE r \notin DOMAIN sessions
  <2>1. MapDelete(sessions, {r}) = sessions
    BY <1>1 DEF MapDelete, Restrict, RoomsTyped
  <2>2. \A room : End(r, room, below) \/ Keep(r, room, below) => sessions' = sessions
    BY <1>1, <2>1 DEF End, Keep
  <2> QED
    BY <1>1, <2>2 DEF RetireFrom, Part
<1>2. CASE r \in DOMAIN sessions
  <2>1. PICK held \in LiveEntry : held = sessions[r]
    BY <1>2 DEF RoomsTyped
  <2>2. PICK room : room = [held EXCEPT !.requests = @ \ {id}]
    OBVIOUS
  <2>3. /\ room \in LiveEntry /\ room.members = held.members
        /\ room.openedByInstance = held.openedByInstance
    BY <2>1, <2>2 DEF LiveEntry
  <2>4. \/ id \in room.members /\ Part(r, room, id, below)
        \/ id \notin room.members /\ Keep(r, room, below)
    BY <1>2, <2>1, <2>2 DEF RetireFrom
  <2>5. Ends(room, {id}) <=> Ends(held, {id})
    BY <2>3 DEF Ends
  <2>6. CASE id \in room.members /\ Part(r, room, id, below)
    <3>1. PICK left : left = [room EXCEPT !.members = @ \ {id}]
      OBVIOUS
    <3>2. left = Without(held, {id})
      BY <2>1, <2>2, <2>3, <3>1 DEF Without, LiveEntry
    <3>3. \/ Ends(room, {id}) /\ sessions' = MapDelete(sessions, {r})
          \/ ~Ends(room, {id}) /\ sessions' = [sessions EXCEPT ![r] = left]
      BY <1>2, <2>6, <3>1 DEF Part, End, Keep
    <3> QED
      BY <1>2, <2>1, <2>5, <3>2, <3>3
  <2>7. CASE id \notin room.members /\ Keep(r, room, below)
    <3>1. room = Without(held, {id}) /\ ~Ends(room, {id})
      <4>1. ~Ends(room, {id})
        BY <2>7 DEF Ends
      <4>2. held.members \ {id} = held.members
        BY <2>3, <2>7
      <4>3. room = Without(held, {id})
        BY <2>1, <2>2, <4>2 DEF Without, LiveEntry
      <4> QED
        BY <4>1, <4>3
    <3>2. sessions' = [sessions EXCEPT ![r] = room]
      BY <1>2, <2>7 DEF Keep
    <3> QED
      BY <1>2, <2>1, <2>5, <3>1, <3>2
  <2> QED
    BY <2>4, <2>6, <2>7
<1> QED
  BY <1>1, <1>2

LEMMA RetireFromRoomUnseen ==
  ASSUME DInv, RetireFromRoom
  PROVE  [Abstract!Next]_(Abstract!vars)
<1>1. /\ RoomsTyped /\ Top.at = "retire" /\ stack # <<>>
      /\ UNCHANGED <<instances, byConnection>>
  BY DInvParts DEF RetireFromRoom, At, Idle, DTyped, TypeOK, RoomsTyped
<1>2. /\ Stacked(Below) /\ CallsLast(Below) /\ FrameOK(Top)
      /\ Calling = {Top} \cup ToSet(Below)
  BY <1>1, TopFacts
<1>3. /\ Top = [at |-> "retire", id |-> Top.id, project |-> Top.project, rooms |-> Top.rooms]
      /\ Top.id \in Instances /\ Top.project \in Projects \cup {NoProject}
      /\ Top.rooms \subseteq Rooms
  BY <1>1, <1>2 DEF FrameOK
<1>4. PICK r \in Top.rooms :
        RetireFrom(r, Top.id, <<[Top EXCEPT !.rooms = @ \ {r}]>> \o Below)
  BY DEF RetireFromRoom
<1>5. PICK id \in Instances :
        id = Top.id /\ RetireFrom(r, id, <<[Top EXCEPT !.rooms = @ \ {r}]>> \o Below)
  BY <1>4, <1>3
<1>6. PICK g : g = [Top EXCEPT !.rooms = @ \ {r}]
  OBVIOUS
<1>7. /\ g.at = "retire" /\ g.id = id /\ g.project = Top.project /\ g.rooms = Top.rooms \ {r}
      /\ g = [at |-> "retire", id |-> g.id, project |-> g.project, rooms |-> g.rooms]
  <2>1. PICK top : top = Top
    OBVIOUS
  <2>2. /\ top = [at |-> "retire", id |-> top.id, project |-> top.project, rooms |-> top.rooms]
        /\ g = [top EXCEPT !.rooms = @ \ {r}]
    BY <1>3, <1>6, <2>1
  <2>3. /\ g.at = "retire" /\ g.id = top.id /\ g.project = top.project
        /\ g.rooms = top.rooms \ {r}
        /\ g = [at |-> "retire", id |-> g.id, project |-> g.project, rooms |-> g.rooms]
    BY <2>2, RetireLeft
  <2> QED
    BY <1>5, <2>1, <2>3
<1>8. FrameOK(g)
  BY <1>3, <1>7 DEF FrameOK
<1>9. PICK below : below = <<g>> \o Below
  OBVIOUS
<1>10. Stacked(below) /\ CallsLast(below) /\ ToSet(below) = {g} \cup ToSet(Below)
  BY <1>2, <1>7, <1>8, <1>9, Pushed
<1>11. RetireFrom(r, id, below)
  BY <1>5, <1>6, <1>9
<1>12. Begun(below)
  <2>1. PICK held : held = (IF r \in DOMAIN sessions THEN sessions[r] ELSE dead[r])
    OBVIOUS
  <2>2. held \in LiveEntry /\ r \in Rooms
    <3>1. r \in DOMAIN sessions \cup DOMAIN dead
      BY <1>1, <1>2, DInvParts DEF RetireInv
    <3> QED
      BY <1>1, <2>1, <3>1 DEF RoomsTyped
  <2>3. PICK room : room = [held EXCEPT !.requests = @ \ {id}]
    OBVIOUS
  <2>4. room \in LiveEntry
    BY <2>2, <2>3 DEF LiveEntry
  <2>5. \/ Part(r, room, id, below)
        \/ stack' = below
    BY <1>11, <2>1, <2>3 DEF RetireFrom
  <2>6. CASE Part(r, room, id, below)
    BY <1>1, <1>10, <2>2, <2>4, <2>6, PartFacts
  <2>7. CASE stack' = below
    BY <1>10, <2>7 DEF Begun, Calling
  <2> QED
    BY <2>5, <2>6, <2>7
<1>13. GoneAre /\ GoneAre'
  BY GoneFacts, PTL
<1>14. \A f : f.at = "drop" => (f \in Calling' <=> f \in Calling)
  BY <1>1, <1>2, <1>7, <1>10, <1>12 DEF Begun
<1>15. ASSUME NEW j
       PROVE  j \in Dropping' <=> j \in Dropping
  BY <1>1, <1>13, <1>14 DEF GoneAre
<1>16. ASSUME NEW j
       PROVE  j \in Retiring' <=> j \in Retiring
  <2>1. Top \in Calling /\ Top.id = id /\ g \in Calling' /\ g.id = id /\ g.at = "retire"
    BY <1>2, <1>5, <1>7, <1>10, <1>12 DEF Begun
  <2>2. \A f : f.at = "retire" /\ f # Top /\ f \in Calling => f \in Calling'
    BY <1>2, <1>10, <1>12 DEF Begun
  <2>3. \A f : f.at = "retire" /\ f # g /\ f \in Calling' => f \in Calling
    BY <1>2, <1>10, <1>12 DEF Begun
  <2> QED
    BY <1>1, <1>13, <2>1, <2>2, <2>3 DEF GoneAre
<1>17. Dropping' = Dropping /\ Gone' = Gone
  BY <1>15, <1>16 DEF Gone
<1>18. PICK gone : gone = Gone /\ id \in gone
  <2>1. Top \in Calling /\ Top.id = id
    BY <1>2, <1>5
  <2>2. id \in Retiring
    BY <1>1, <1>13, <2>1 DEF GoneAre
  <2> QED
    BY <2>2 DEF Gone
<1>19. PICK seen, left : seen = RoomsWithout(gone) /\ left = sessions'
  OBVIOUS
<1>20. /\ SessionsSeen = seen
       /\ SessionsSeen' = [s \in {s \in DOMAIN left : ~Ends(left[s], gone)} |->
                            Without(left[s], gone)]
  BY <1>17, <1>18, <1>19 DEF SessionsSeen, RoomsWithout, Without
<1>21. /\ DOMAIN seen = {s \in DOMAIN sessions : ~Ends(sessions[s], gone)}
       /\ \A s \in DOMAIN seen : seen[s] = Without(sessions[s], gone)
       /\ seen = [s \in DOMAIN seen |-> seen[s]]
  BY <1>19, RoomsWithoutFacts
<1>22. \A s \in DOMAIN sessions : sessions[s] \in LiveEntry
  BY <1>1 DEF RoomsTyped
<1>23. {id} \cup gone = gone
  BY <1>18
<1>24. /\ {s \in DOMAIN left : ~Ends(left[s], gone)} = DOMAIN seen
       /\ \A s \in DOMAIN seen : Without(left[s], gone) = seen[s]
  <2>1. CASE r \notin DOMAIN sessions /\ left = sessions
    BY <1>21, <2>1
  <2>2. CASE /\ r \in DOMAIN sessions /\ Ends(sessions[r], {id})
             /\ left = MapDelete(sessions, {r})
    <3>1. /\ DOMAIN left = DOMAIN sessions \ {r}
          /\ \A s \in DOMAIN left : left[s] = sessions[s]
      BY <2>2 DEF MapDelete, Restrict
    <3>2. Ends(sessions[r], gone)
      <4>1. PICK room \in LiveEntry : room = sessions[r]
        BY <1>22, <2>2
      <4>2. Ends(room, {id}) => Ends(room, {id} \cup gone)
        BY WithoutTwice
      <4> QED
        BY <1>23, <2>2, <4>1, <4>2
    <3> QED
      BY <1>21, <3>1, <3>2
  <2>3. CASE /\ r \in DOMAIN sessions /\ ~Ends(sessions[r], {id})
             /\ left = [sessions EXCEPT ![r] = Without(sessions[r], {id})]
    <3>1. /\ DOMAIN left = DOMAIN sessions
          /\ left[r] = Without(sessions[r], {id})
          /\ \A s \in DOMAIN left : s # r => left[s] = sessions[s]
      BY <2>3
    <3>2. /\ Ends(Without(sessions[r], {id}), gone) <=> Ends(sessions[r], gone)
          /\ Without(Without(sessions[r], {id}), gone) = Without(sessions[r], gone)
      <4>1. PICK room \in LiveEntry : room = sessions[r]
        BY <1>22, <2>3
      <4>2. /\ ~Ends(room, {id}) =>
                 (Ends(Without(room, {id}), gone) <=> Ends(room, {id} \cup gone))
            /\ Without(Without(room, {id}), gone) = Without(room, {id} \cup gone)
        BY WithoutTwice
      <4> QED
        BY <1>23, <2>3, <4>1, <4>2
    <3> QED
      BY <1>21, <2>3, <3>1, <3>2
  <2>4. \/ r \notin DOMAIN sessions /\ left = sessions
        \/ /\ r \in DOMAIN sessions /\ Ends(sessions[r], {id})
           /\ left = MapDelete(sessions, {r})
        \/ /\ r \in DOMAIN sessions /\ ~Ends(sessions[r], {id})
           /\ left = [sessions EXCEPT ![r] = Without(sessions[r], {id})]
    BY <1>1, <1>11, <1>19, RetireRooms
  <2> QED
    BY <2>1, <2>2, <2>3, <2>4
<1>25. SessionsSeen' = SessionsSeen
  BY <1>20, <1>21, <1>24
<1> QED
  BY <1>1, <1>17, <1>25, Unseen DEF InstancesSeen

\* The operations of Presence on Maps and Sets are the same ones there.
LEMMA SameOperations ==
  /\ \A map, keys : Abstract!MapDelete(map, keys) = MapDelete(map, keys)
  /\ \A map, key, value : Abstract!MapSet(map, key, value) = MapSet(map, key, value)
  /\ \A held : Abstract!ToSet(held) = ToSet(held)
  /\ \A held, id : Abstract!SetAdd(held, id) = SetAdd(held, id)
  /\ \A held, id : Abstract!SetDelete(held, id) = SetDelete(held, id)
  /\ \A room, gone : Abstract!Ends(room, gone) <=> Ends(room, gone)
  /\ \A S : Abstract!Cardinality(S) = Cardinality(S)
<1>1. \A map, keys : Abstract!MapDelete(map, keys) = MapDelete(map, keys)
  BY DEF Abstract!MapDelete, MapDelete, Abstract!Restrict, Restrict
<1>2. \A map, key, value : Abstract!MapSet(map, key, value) = MapSet(map, key, value)
  BY DEF Abstract!MapSet, MapSet
<1>3. \A held : Abstract!ToSet(held) = ToSet(held)
  BY DEF Abstract!ToSet, ToSet
<1>4. \A held, id : Abstract!SetAdd(held, id) = SetAdd(held, id)
  BY <1>3 DEF Abstract!SetAdd, SetAdd
<1>5. \A held, n : Abstract!RemoveAt(held, n) = RemoveAt(held, n)
  BY DEF Abstract!RemoveAt, RemoveAt
<1>6. \A held, id : Abstract!SetDelete(held, id) = SetDelete(held, id)
  <2>1. SUFFICES ASSUME NEW held, NEW id
                 PROVE  Abstract!SetDelete(held, id) = SetDelete(held, id)
    OBVIOUS
  <2>2. PICK k : k = CHOOSE n \in DOMAIN held : held[n] = id
    OBVIOUS
  <2>3. SetDelete(held, id) = (IF id \in ToSet(held) THEN RemoveAt(held, k) ELSE held)
    BY <2>2 DEF SetDelete
  <2>4. Abstract!SetDelete(held, id) =
          (IF id \in Abstract!ToSet(held) THEN Abstract!RemoveAt(held, k) ELSE held)
    BY <2>2 DEF Abstract!SetDelete
  <2> QED
    BY <1>3, <1>5, <2>3, <2>4
<1>7. \A room, gone : Abstract!Ends(room, gone) <=> Ends(room, gone)
  BY DEF Abstract!Ends, Ends
<1>8. ASSUME NEW S
      PROVE  Abstract!Cardinality(S) = Cardinality(S)
  BY DEF Abstract!Cardinality, Cardinality
<1> QED
  BY <1>1, <1>2, <1>3, <1>4, <1>6, <1>7, <1>8

LEMMA SeenDrop ==
  ASSUME NEW c \in Connections, byConnection[c] # <<>>,
         NEW carried,
         carried = {id \in ToSet(byConnection[c]) :
                      id \in DOMAIN InstancesSeen /\ InstancesSeen[id].connection = c},
         byConnection' = [byConnection EXCEPT ![c] = <<>>],
         InstancesSeen' = MapDelete(InstancesSeen, carried),
         SessionsSeen' = [r \in {r \in DOMAIN SessionsSeen : ~Ends(SessionsSeen[r], carried)} |->
                            Without(SessionsSeen[r], carried)]
  PROVE  Abstract!Next
<1>1. /\ InstancesSeen = MapDelete(instances, Dropping)
      /\ SessionsSeen = RoomsWithout(Dropping \cup Retiring)
      /\ InstancesSeen' = MapDelete(instances, Dropping)'
      /\ SessionsSeen' = RoomsWithout(Dropping \cup Retiring)'
  BY DEF InstancesSeen, SessionsSeen, Gone
<1>2. \A gone : Abstract!RoomsWithout(gone) =
        [r \in {r \in DOMAIN SessionsSeen : ~Ends(SessionsSeen[r], gone)} |->
           Without(SessionsSeen[r], gone)]
  BY <1>1, SameOperations DEF Abstract!RoomsWithout, Without
<1>3. Abstract!DropConnection(c)
  BY <1>1, <1>2, SameOperations DEF Abstract!DropConnection
<1> QED
  BY <1>3 DEF Abstract!Next

\* A session that closes takes at once what its connection carried.
LEMMA CloseSeen ==
  ASSUME DInv, NEW c \in Connections, status[c] = "open", NEW below,
         CloseSession(c, below), Stacked(below),
         \A f : f.at \in {"drop", "retire"} => (f \in ToSet(below) <=> f \in Calling)
  PROVE  [Abstract!Next]_(Abstract!vars)
<1>1. PICK ids \in Seq(Instances) : ids = byConnection[c]
  BY DInvParts DEF DTyped, TypeOK
<1>2. PICK f : f = [at |-> "drop", connection |-> c, ids |-> ids]
  OBVIOUS
<1>3. f.at = "drop" /\ f.connection = c /\ f.ids = ids
  BY <1>2
<1>4. /\ byConnection' = [byConnection EXCEPT ![c] = <<>>]
      /\ stack' = <<f>> \o below
      /\ UNCHANGED <<instances, sessions>>
  BY <1>1, <1>2 DEF CloseSession
<1>5. Calling' = {f} \cup ToSet(below)
  BY <1>4, SeqPush DEF Stacked, Calling
<1>6. PICK carried : carried = {id \in ToSet(ids) : /\ id \in DOMAIN instances
                                                    /\ instances[id].connection = c}
  OBVIOUS
<1>7. GoneAre /\ GoneAre'
  BY GoneFacts, PTL
<1>8. \A id \in Dropping : instances[id].connection # c
  <2>1. \A g \in Calling : g.at = "drop" => g.connection # c
    BY DInvParts DEF DropInv, Over
  <2> QED
    BY <1>7, <2>1 DEF GoneAre
<1>9. ASSUME NEW id
      PROVE  id \in Dropping' <=> id \in Dropping \/ id \in carried
  BY <1>3, <1>4, <1>5, <1>6, <1>7 DEF GoneAre
<1>10. ASSUME NEW id
       PROVE  id \in Retiring' <=> id \in Retiring
  BY <1>3, <1>5, <1>7 DEF GoneAre
<1>11. Dropping' = Dropping \cup carried /\ Gone' = Gone \cup carried
  BY <1>9, <1>10 DEF Gone
<1>12. CASE ids = <<>>
  <2>1. carried = {}
    BY <1>6, <1>12 DEF ToSet
  <2>2. byConnection' = byConnection
    BY <1>1, <1>4, <1>12, DInvParts DEF DTyped, TypeOK
  <2>3. Dropping' = Dropping /\ Gone' = Gone
    BY <1>11, <2>1
  <2>4. InstancesSeen' = InstancesSeen /\ SessionsSeen' = SessionsSeen
    BY <1>4, <2>3 DEF InstancesSeen, SessionsSeen, RoomsWithout
  <2> QED
    BY <2>2, <2>4, Unseen
<1>13. CASE ids # <<>>
  <2>1. /\ DOMAIN InstancesSeen = DOMAIN instances \ Dropping
        /\ \A id \in DOMAIN InstancesSeen : InstancesSeen[id] = instances[id]
    BY DEF InstancesSeen, MapDelete, Restrict
  <2>2. carried = {id \in ToSet(byConnection[c]) :
                     id \in DOMAIN InstancesSeen /\ InstancesSeen[id].connection = c}
    BY <1>1, <1>6, <1>8, <2>1
  <2>3. InstancesSeen' = MapDelete(InstancesSeen, carried)
    <3>1. DOMAIN instances \ Dropping' = DOMAIN InstancesSeen \ carried
      BY <1>11, <2>1
    <3>2. InstancesSeen' = [id \in DOMAIN instances \ Dropping' |-> instances[id]]
      BY <1>4 DEF InstancesSeen, MapDelete, Restrict
    <3>3. MapDelete(InstancesSeen, carried) =
            [id \in DOMAIN InstancesSeen \ carried |-> InstancesSeen[id]]
      BY DEF MapDelete, Restrict
    <3> QED
      BY <2>1, <3>1, <3>2, <3>3
  <2>4. PICK gone : gone = Gone
    OBVIOUS
  <2>5. SessionsSeen = RoomsWithout(gone) /\ SessionsSeen' = RoomsWithout(gone \cup carried)
    BY <1>4, <1>11, <2>4 DEF SessionsSeen, RoomsWithout
  <2>6. PICK seen : seen = SessionsSeen
    OBVIOUS
  <2>7. /\ DOMAIN seen = {r \in DOMAIN sessions : ~Ends(sessions[r], gone)}
        /\ \A r \in DOMAIN seen : seen[r] = Without(sessions[r], gone)
    BY <2>5, <2>6, RoomsWithoutFacts
  <2>8. ASSUME NEW r \in DOMAIN sessions
        PROVE  /\ ~Ends(sessions[r], gone \cup carried) <=>
                    r \in DOMAIN seen /\ ~Ends(seen[r], carried)
               /\ r \in DOMAIN seen =>
                    Without(seen[r], carried) = Without(sessions[r], gone \cup carried)
    <3>1. PICK room \in LiveEntry : room = sessions[r]
      BY DInvParts DEF DTyped, TypeOK
    <3> QED
      BY <2>7, <3>1, WithoutTwice
  <2>9. PICK left : left = RoomsWithout(gone \cup carried)
    OBVIOUS
  <2>10. /\ left = [r \in DOMAIN left |-> left[r]]
         /\ DOMAIN left = {r \in DOMAIN seen : ~Ends(seen[r], carried)}
         /\ \A r \in DOMAIN left : left[r] = Without(seen[r], carried)
    <3>1. /\ DOMAIN left = {r \in DOMAIN sessions : ~Ends(sessions[r], gone \cup carried)}
          /\ \A r \in DOMAIN left : left[r] = Without(sessions[r], gone \cup carried)
          /\ left = [r \in DOMAIN left |-> left[r]]
      BY <2>9, RoomsWithoutFacts
    <3>2. \A r \in DOMAIN sessions :
            r \in DOMAIN left <=> r \in DOMAIN seen /\ ~Ends(seen[r], carried)
      BY <2>8, <3>1
    <3>3. DOMAIN left = {r \in DOMAIN seen : ~Ends(seen[r], carried)}
      BY <2>7, <3>1, <3>2
    <3> QED
      BY <2>8, <3>1, <3>3
  <2>11. left = [r \in {r \in DOMAIN seen : ~Ends(seen[r], carried)} |->
                   Without(seen[r], carried)]
    BY <2>10
  <2>12. SessionsSeen' = [r \in {r \in DOMAIN SessionsSeen : ~Ends(SessionsSeen[r], carried)} |->
                            Without(SessionsSeen[r], carried)]
    BY <2>5, <2>6, <2>9, <2>11
  <2>13. byConnection[c] # <<>> /\ byConnection' = [byConnection EXCEPT ![c] = <<>>]
    BY <1>1, <1>4, <1>13
  <2>14. Abstract!Next
    BY <2>2, <2>3, <2>12, <2>13, SeenDrop
  <2> QED
    BY <2>14
<1> QED
  BY <1>12, <1>13

LEMMA CloseUnseen ==
  ASSUME DInv, NEW c \in Connections, Close(c)
  PROVE  [Abstract!Next]_(Abstract!vars)
<1>1. /\ Stacked(<<>>) /\ ToSet(<<>>) = Calling /\ status[c] = "open" /\ CloseSession(c, <<>>)
  BY IdleFacts, NothingStacked DEF Close
<1> QED
  BY <1>1, CloseSeen

LEMMA IdentifySeen ==
  ASSUME DInv, Idle, NEW c \in Connections, status[c] = "open", NEW below, Stacked(below),
         \A f \in ToSet(below) : f.at = "handle", Identify(c, below)
  PROVE  [Abstract!Next]_(Abstract!vars)
<1>1. Calling = {}
  BY IdleFacts
<1>2. CASE CloseSession(c, below)
  BY <1>1, <1>2, CloseSeen
<1>3. CASE stack' = below /\ UNCHANGED presence
  <2>1. Calling' = ToSet(below) /\ UNCHANGED <<instances, byConnection, sessions>>
    BY <1>3 DEF Calling, presence
  <2> QED
    BY <1>1, <2>1, UnseenUnderWay
<1> QED
  BY <1>2, <1>3 DEF Identify

LEMMA RevalidateSeen ==
  ASSUME DInv, NEW c \in Connections, Revalidate(c)
  PROVE  [Abstract!Next]_(Abstract!vars)
<1>1. /\ Idle /\ status[c] = "open" /\ Identify(c, <<>>)
      /\ Stacked(<<>>) /\ \A f \in ToSet(<<>>) : FALSE
  BY NothingStacked DEF Revalidate
<1> QED
  BY <1>1, IdentifySeen

LEMMA ReceiveSeen ==
  ASSUME DInv, NEW c \in Connections, NEW call \in Sends[c], Receive(c, call)
  PROVE  [Abstract!Next]_(Abstract!vars)
<1>1. PICK f : f = [at |-> "handle", connection |-> c, call |-> call]
  OBVIOUS
<1>2. f.at = "handle" /\ f.connection = c /\ f.call = call /\ call \in Calls
  BY <1>1, SendsAssumption
<1>3. FrameOK(f)
  BY <1>1, <1>2 DEF FrameOK
<1>4. /\ Idle /\ status[c] = "open"
      /\ \/ Identify(c, <<f>>)
         \/ stack' = <<f>> /\ UNCHANGED presence
  BY <1>1 DEF Receive
<1>5. Stacked(<<f>>) /\ ToSet(<<f>>) = {f}
  <2>1. ToSet(<<f>>) = {f}
    BY DEF ToSet
  <2> QED
    BY <1>3, <2>1 DEF Stacked
<1>6. CASE Identify(c, <<f>>)
  BY <1>2, <1>4, <1>5, <1>6, IdentifySeen
<1>7. CASE stack' = <<f>> /\ UNCHANGED presence
  <2>1. Calling' = {f} /\ Calling = {} /\ UNCHANGED <<instances, byConnection, sessions>>
    BY <1>4, <1>5, <1>7, IdleFacts DEF Calling, presence
  <2> QED
    BY <1>2, <2>1, UnseenUnderWay
<1> QED
  BY <1>4, <1>6, <1>7

LEMMA DeliverSeen ==
  ASSUME DInv, Deliver
  PROVE  [Abstract!Next]_(Abstract!vars)
<1>1. stack # <<>> /\ Top.at = "deliver"
  BY DEF Deliver, At, Idle
<1>2. /\ Stacked(Below) /\ CallsLast(Below) /\ FrameOK(Top)
      /\ Calling = {Top} \cup ToSet(Below)
  BY <1>1, TopFacts
<1>3. /\ Top = [at |-> "deliver", event |-> Top.event, seq |-> Top.seq, to |-> Top.to]
      /\ Top.to \in Seq(Connections) /\ Top.event.topic \in Topics /\ Top.seq \in Nat
  BY <1>1, <1>2 DEF FrameOK
<1>4. PICK n \in 0 .. Len(Top.to) :
        \/ stack' = Below /\ UNCHANGED presence
        \/ /\ n # Len(Top.to) /\ Top.to[n + 1] \in Wanting(Top.event.topic)
           /\ CloseSession(Top.to[n + 1],
                           <<[Top EXCEPT !.to = SubSeq(Top.to, n + 2, Len(Top.to))]>> \o Below)
  BY DEF Deliver
<1>5. PICK to \in Seq(Connections) : to = Top.to
  BY <1>3
<1>6. CASE stack' = Below /\ UNCHANGED presence
  <2>1. Calling' = ToSet(Below) /\ UNCHANGED <<instances, byConnection, sessions>>
    BY <1>6 DEF Calling, presence
  <2> QED
    BY <1>1, <1>2, <2>1, UnseenUnderWay
<1>7. CASE /\ n # Len(Top.to) /\ Top.to[n + 1] \in Wanting(Top.event.topic)
           /\ CloseSession(Top.to[n + 1],
                           <<[Top EXCEPT !.to = SubSeq(Top.to, n + 2, Len(Top.to))]>> \o Below)
  <2>1. PICK k \in 0 .. Len(to) : k = n /\ k # Len(to)
    BY <1>5, <1>7
  <2>2. n \in 0 .. Len(to) - 1
    BY ONLY <2>1, to \in Seq(Connections)
  <2>3. to[n + 1] \in ToSet(hub)
    BY <1>5, <1>7 DEF Wanting
  <2>4. CloseSession(to[n + 1], <<[Top EXCEPT !.to = SubSeq(to, n + 2, Len(to))]>> \o Below)
    BY <1>5, <1>7
  <2>5. PICK c, rest : c = to[n + 1] /\ rest = SubSeq(to, n + 2, Len(to))
    OBVIOUS
  <2>6. c \in Connections /\ rest \in Seq(Connections)
    BY <2>2, <2>5, RestFacts
  <2>7. PICK g : g = [Top EXCEPT !.to = rest]
    OBVIOUS
  <2>8. g = [at |-> "deliver", event |-> Top.event, seq |-> Top.seq, to |-> rest]
    BY <1>3, <2>7, CutFacts
  <2>9. g.at = "deliver" /\ FrameOK(g)
    <3>1. g.at = "deliver" /\ g.event = Top.event /\ g.seq = Top.seq /\ g.to = rest
      BY <2>8
    <3> QED
      BY <1>3, <2>6, <2>8, <3>1 DEF FrameOK
  <2>10. PICK below : below = <<g>> \o Below
    OBVIOUS
  <2>11. Stacked(below) /\ ToSet(below) = {g} \cup ToSet(Below)
    BY <1>2, <2>9, <2>10, Pushed
  <2>12. CloseSession(c, below) /\ status[c] = "open"
    <3>1. CloseSession(c, below)
      BY <2>4, <2>5, <2>7, <2>10
    <3> QED
      BY <2>3, <2>5, <2>6, <3>1, DInvParts DEF HubInv
  <2>13. \A f : f.at \in {"drop", "retire"} => (f \in ToSet(below) <=> f \in Calling)
    BY <1>1, <1>2, <2>9, <2>11
  <2> QED
    BY <2>6, <2>11, <2>12, <2>13, CloseSeen
<1> QED
  BY <1>4, <1>6, <1>7

\* What returns and has nothing left to take away is not seen to.
LEMMA ReturnSeen ==
  ASSUME DInv, stack # <<>>, stack' = Below, UNCHANGED presence,
         Top.at \notin {"drop", "retire"} \/ (Top.at = "drop" /\ Top.ids = <<>>)
  PROVE  [Abstract!Next]_(Abstract!vars)
<1>1. /\ Calling = {Top} \cup ToSet(Below) /\ Calling' = ToSet(Below)
      /\ UNCHANGED <<instances, byConnection, sessions>>
  BY TopFacts DEF Calling, presence
<1>2. Top.ids = <<>> => ToSet(Top.ids) = {}
  BY NothingStacked
<1>3. \A f \in Calling : f.at = "drop" => f \in Calling' \/ ToSet(f.ids) = {}
  BY <1>1, <1>2
<1>4. \A f \in Calling : f.at = "retire" => f \in Calling'
  BY <1>1
<1> QED
  BY <1>1, <1>3, <1>4, UnseenUnderWay

LEMMA CallReturnSeen ==
  ASSUME DInv, HandleSubscribe \/ HandleUnsubscribe \/ Refuse
  PROVE  [Abstract!Next]_(Abstract!vars)
<1>1. stack # <<>> /\ Top.at = "handle" /\ stack' = Below /\ UNCHANGED presence
  BY DEF HandleSubscribe, HandleUnsubscribe, Refuse, At, Idle
<1> QED
  BY <1>1, ReturnSeen

LEMMA ForgetSeen ==
  ASSUME DInv, Forget
  PROVE  [Abstract!Next]_(Abstract!vars)
<1>1. stack # <<>> /\ Top.at = "forget" /\ stack' = Below /\ UNCHANGED presence
  BY DEF Forget, At, Idle
<1> QED
  BY <1>1, ReturnSeen

LEMMA DropDoneSeen ==
  ASSUME DInv, DropDone
  PROVE  [Abstract!Next]_(Abstract!vars)
<1>1. stack # <<>> /\ Top.at = "drop" /\ Top.ids = <<>> /\ stack' = Below /\ UNCHANGED presence
  BY DEF DropDone, At, Idle
<1> QED
  BY <1>1, ReturnSeen

LEMMA BeginPublishSeen ==
  ASSUME DInv, BeginPublish
  PROVE  [Abstract!Next]_(Abstract!vars)
<1>1. PICK f : f = [at |-> "deliver", event |-> Top, seq |-> sequences'[Top.topic], to |-> hub]
  OBVIOUS
<1>2. /\ stack # <<>> /\ Top.at = "publish" /\ stack' = <<f>> \o Below
      /\ UNCHANGED <<instances, byConnection, sessions>>
  BY <1>1 DEF BeginPublish, At, Idle, presence
<1>3. Calling = {Top} \cup ToSet(Below) /\ Calling' = {f} \cup ToSet(Below) /\ f.at = "deliver"
  BY <1>1, <1>2, TopFacts, SeqPush DEF Calling, Stacked
<1> QED
  BY <1>2, <1>3, UnseenUnderWay

\* What leaves instances, rooms and calls alone.
LEMMA AsideSeen ==
  ASSUME UNCHANGED <<presence, stack>>
  PROVE  [Abstract!Next]_(Abstract!vars)
<1>1. Calling' = Calling /\ UNCHANGED <<instances, byConnection, sessions>>
  BY DEF Calling, presence
<1> QED
  BY <1>1, UnseenUnderWay

LEMMA PublishElsewhereSeen ==
  ASSUME DInv, PublishElsewhere
  PROVE  [Abstract!Next]_(Abstract!vars)
<1>1. PICK f : f = AdminChanged
  OBVIOUS
<1>2. f.at = "publish" /\ Calling = {} /\ stack' = <<f>> /\ UNCHANGED presence
  BY <1>1, IdleFacts DEF AdminChanged, Publish, PublishElsewhere
<1>3. Calling' = {f} /\ UNCHANGED <<instances, byConnection, sessions>>
  BY <1>2 DEF Calling, ToSet, presence
<1> QED
  BY <1>2, <1>3, UnseenUnderWay

-----------------------------------------------------------------------------
(* The handlers.                                                           *)

\* Nothing is under way that has something to take away yet.
Plain == \A f \in Calling : f.at \notin {"drop", "retire"}

LEMMA AsItIs ==
  DInv /\ Plain => MapDelete(instances, Dropping) = instances
                   /\ RoomsWithout(Dropping \cup Retiring) = sessions
<1> SUFFICES ASSUME DInv, Plain
             PROVE  MapDelete(instances, Dropping) = instances
                    /\ RoomsWithout(Dropping \cup Retiring) = sessions
  OBVIOUS
<1>1. Dropping = {} /\ Retiring = {}
  BY GoneFacts DEF GoneAre, Plain
<1>2. MapDelete(instances, Dropping) = instances
  BY <1>1, DInvParts DEF DTyped, TypeOK, MapDelete, Restrict
<1>3. Dropping \cup Retiring = {}
  BY <1>1
<1>4. /\ DOMAIN RoomsWithout({}) = {r \in DOMAIN sessions : ~Ends(sessions[r], {})}
      /\ \A r \in DOMAIN RoomsWithout({}) : RoomsWithout({})[r] = Without(sessions[r], {})
      /\ RoomsWithout({}) = [r \in DOMAIN RoomsWithout({}) |-> RoomsWithout({})[r]]
  BY RoomsWithoutFacts
<1>5. sessions \in [DOMAIN sessions -> LiveEntry]
  BY DInvParts DEF DTyped, TypeOK
<1>6. \A r \in DOMAIN sessions : ~Ends(sessions[r], {}) /\ Without(sessions[r], {}) = sessions[r]
  BY <1>5, WithoutNobody
<1>7. RoomsWithout({}) = sessions
  BY <1>4, <1>5, <1>6
<1> QED
  BY <1>2, <1>3, <1>7

\* A call finds nothing under way, and leaves only what is to be told.
LEMMA Handled ==
  ASSUME DInv, At("handle"), NEW S, \A f \in S : f.at \notin {"drop", "retire"},
         NEW front \in Seq(S), stack' = front \o Below
  PROVE  Plain /\ Plain'
<1>1. stack # <<>> /\ Top.at = "handle"
  BY DEF At, Idle
<1>2. Below = <<>> /\ Calling = {Top}
  BY <1>1, TopFacts
<1>3. stack' = front
  BY <1>2, ConcatEmptySeq
<1>4. Calling' \subseteq S
  BY <1>3 DEF Calling, ToSet
<1> QED
  BY <1>1, <1>2, <1>4 DEF Plain

\* Before and after such a call Presence is as it is.
AsIs ==
  /\ MapDelete(instances, Dropping) = instances
  /\ RoomsWithout(Dropping \cup Retiring) = sessions

LEMMA AsTheyAre ==
  ASSUME DInv, DInv', Plain, Plain'
  PROVE  AsIs /\ AsIs'
BY AsItIs, PTL DEF AsIs

LEMMA SayOne ==
  ASSUME DInv, DInv', At("handle"), NEW f, f.at \notin {"drop", "retire"},
         stack' = Below \/ stack' = <<f>> \o Below
  PROVE  AsIs /\ AsIs'
<1>1. CASE stack' = <<f>> \o Below
  <2>1. PICK S : S = {f}
    OBVIOUS
  <2>2. PICK front \in Seq(S) : front = <<f>>
    <3>1. <<f>> \in Seq(S)
      BY <2>1
    <3> QED
      BY <3>1
  <2>3. Plain /\ Plain'
    BY <1>1, <2>1, <2>2, Handled
  <2> QED
    BY <2>3, AsTheyAre
<1>2. CASE stack' = Below
  <2>1. PICK S : S = {}
    OBVIOUS
  <2>2. PICK front \in Seq(S) : front = <<>>
    <3>1. <<>> \in Seq(S)
      BY EmptySeq
    <3> QED
      BY <3>1
  <2>3. stack' = front \o Below
    <3>1. Below \in Seq(ToSet(Below))
      BY CallingFacts DEF Stacked
    <3>2. <<>> \o Below = Below
      BY <3>1, ConcatEmptySeq
    <3> QED
      BY <1>2, <2>2, <3>2
  <2>4. Plain /\ Plain'
    BY <2>1, <2>3, Handled
  <2> QED
    BY <2>4, AsTheyAre
<1> QED
  BY <1>1, <1>2

\* Whom a call is made by is the same there.
LEMMA SameCaller ==
  ASSUME AsIs
  PROVE  /\ \A id, c, p : Abstract!IsInstanceOn(id, c, p) <=> IsInstanceOn(id, c, p)
         /\ \A id, c, r : Abstract!CallerFor(id, c, r) <=> CallerFor(id, c, r)
<1>1. \A id, p : Abstract!OnProject(id, p) <=> OnProject(id, p)
  BY DEF AsIs, OnProject, Abstract!OnProject
<1>2. \A id, c, p : Abstract!IsInstanceOn(id, c, p) <=> IsInstanceOn(id, c, p)
  BY <1>1 DEF IsInstanceOn, Abstract!IsInstanceOn
<1>3. \A id, c, r : Abstract!CallerFor(id, c, r) <=> CallerFor(id, c, r)
  BY <1>2 DEF AsIs, CallerFor, Abstract!CallerFor
<1> QED
  BY <1>2, <1>3

LEMMA AnnounceSeen ==
  ASSUME DInv, DInv', At("handle"), NEW c \in Connections,
         NEW id \in Instances, NEW p \in Projects \cup {NoProject},
         HandleAnnounce(c, id, p)
  PROVE  Abstract!Next
<1>1. PICK before : before = (IF id \in DOMAIN instances THEN instances[id].project ELSE NoProject)
  OBVIOUS
<1>2. PICK f, g : f = ClientGone(id, before) /\ g = ClientHere(id, p)
  OBVIOUS
<1>3. f.at = "publish" /\ g.at = "publish"
  BY <1>2 DEF ClientGone, ClientHere, Publish
<1>4. PICK S : S = {f, g}
  OBVIOUS
<1>5. PICK one \in Seq(S), two \in Seq(S) :
        /\ one = (IF before \in {NoProject, p} THEN <<>> ELSE <<f>>)
        /\ two = (IF p = NoProject THEN <<>> ELSE <<g>>)
  <2>1. <<>> \in Seq(S) /\ <<f>> \in Seq(S) /\ <<g>> \in Seq(S)
    BY <1>4, EmptySeq
  <2> QED
    BY <2>1
<1>6. Announce(c, id, p) /\ stack' = one \o two \o Below
  BY <1>1, <1>2, <1>5 DEF HandleAnnounce
<1>7. PICK front \in Seq(S) : front = one \o two
  BY ConcatProperties
<1>8. stack' = front \o Below
  BY <1>6, <1>7
<1>9. Plain /\ Plain'
  BY <1>3, <1>4, <1>8, Handled
<1>10. AsIs /\ AsIs'
  BY <1>9, AsTheyAre
<1>11. Abstract!Announce(c, id, p)
  BY <1>6, <1>10, SameOperations
     DEF AsIs, Announce, Abstract!Announce, Unclaimed, Abstract!Unclaimed, HasRoomFor,
         Abstract!HasRoomFor, Hold, Abstract!Hold, Entry, Abstract!Entry
<1> QED
  BY <1>11 DEF Abstract!Next

LEMMA LiveOpenSeen ==
  ASSUME DInv, DInv', At("handle"), NEW c \in Connections, NEW p \in Projects, NEW rule \in Rules,
         HandleOpen(c, p, rule)
  PROVE  Abstract!Next
<1>1. PICK id \in Instances, code \in Codes :
        /\ opened + 1 \in Rooms
        /\ LiveOpen(c, id, p, opened + 1, rule, code)
        /\ stack' = <<Opened(opened', sessions'[opened'])>> \o Below
  BY CallingFacts DEF HandleOpen
<1>2. PICK f : f = Opened(opened', sessions'[opened'])
  OBVIOUS
<1>3. f.at = "publish"
  BY <1>2 DEF Opened, Publish
<1>4. AsIs /\ AsIs'
  BY <1>1, <1>2, <1>3, SayOne
<1>5. PICK r \in Rooms : r = opened + 1
  BY <1>1
<1>6. Abstract!LiveOpen(c, id, p, r, rule, code)
  BY <1>1, <1>4, <1>5, SameOperations, SameCaller
     DEF AsIs, LiveOpen, Abstract!LiveOpen, RoomsOf, Abstract!RoomsOf, TakenCodes, Abstract!TakenCodes
<1> QED
  BY <1>6 DEF Abstract!Next, Rules, Abstract!Rules

LEMMA LiveRuleSeen ==
  ASSUME DInv, DInv', At("handle"), NEW c \in Connections, NEW r \in Rooms, NEW rule \in Rules,
         HandleRule(c, r, rule)
  PROVE  Abstract!Next
<1>1. PICK id \in Instances :
        /\ LiveRule(c, id, r, rule)
        /\ stack' = (IF sessions[r].rule = rule THEN <<>>
                     ELSE <<Changed(r, sessions'[r])>>) \o Below
  BY CallingFacts DEF HandleRule
<1>2. PICK f : f = Changed(r, sessions'[r])
  OBVIOUS
<1>3. f.at = "publish"
  BY <1>2 DEF Changed, Publish
<1>4. stack' = Below \/ stack' = <<f>> \o Below
  <2>1. <<>> \o Below = Below
    BY CallingFacts, ConcatEmptySeq DEF Stacked
  <2> QED
    BY <1>1, <1>2, <2>1
<1>5. AsIs /\ AsIs'
  BY <1>3, <1>4, SayOne
<1>6. Abstract!LiveRule(c, id, r, rule)
  BY <1>1, <1>5, SameCaller DEF AsIs, LiveRule, Abstract!LiveRule
<1> QED
  BY <1>6 DEF Abstract!Next, Rules, Abstract!Rules

LEMMA LiveJoinSeen ==
  ASSUME DInv, DInv', At("handle"), NEW c \in Connections, NEW r \in Rooms, NEW byCode \in BOOLEAN,
         HandleJoin(c, r, byCode)
  PROVE  Abstract!Next
<1>1. PICK id \in Instances :
        LiveJoin(c, id, r, byCode) /\ stack' = <<Changed(r, sessions'[r])>> \o Below
  BY CallingFacts DEF HandleJoin
<1>2. PICK f : f = Changed(r, sessions'[r])
  OBVIOUS
<1>3. f.at = "publish"
  BY <1>2 DEF Changed, Publish
<1>4. AsIs /\ AsIs'
  BY <1>1, <1>2, <1>3, SayOne
<1>5. Abstract!LiveJoin(c, id, r, byCode)
  BY <1>1, <1>4, SameCaller DEF AsIs, LiveJoin, Abstract!LiveJoin
<1> QED
  BY <1>5 DEF Abstract!Next

LEMMA LiveRequestJoinSeen ==
  ASSUME DInv, DInv', At("handle"), NEW c \in Connections, NEW r \in Rooms,
         HandleRequestJoin(c, r)
  PROVE  Abstract!Next
<1>1. PICK id \in Instances :
        LiveRequestJoin(c, id, r) /\ stack' = <<Requested(r, sessions[r])>> \o Below
  BY CallingFacts DEF HandleRequestJoin
<1>2. PICK f : f = Requested(r, sessions[r])
  OBVIOUS
<1>3. f.at = "publish"
  BY <1>2 DEF Requested, Publish
<1>4. AsIs /\ AsIs'
  BY <1>1, <1>2, <1>3, SayOne
<1>5. Abstract!LiveRequestJoin(c, id, r)
  BY <1>1, <1>4, SameCaller DEF AsIs, LiveRequestJoin, Abstract!LiveRequestJoin
<1> QED
  BY <1>5 DEF Abstract!Next

LEMMA LiveAnswerJoinSeen ==
  ASSUME DInv, DInv', At("handle"), NEW c \in Connections, NEW r \in Rooms,
         NEW asked \in Instances, NEW admit \in BOOLEAN, HandleAnswerJoin(c, r, asked, admit)
  PROVE  Abstract!Next
<1>1. PICK id \in Instances :
        /\ LiveAnswerJoin(c, id, r, asked, admit)
        /\ stack' = <<IF admit THEN Changed(r, sessions'[r])
                      ELSE RequestRefused(r, sessions[r])>> \o Below
  BY CallingFacts DEF HandleAnswerJoin
<1>2. PICK f : f = (IF admit THEN Changed(r, sessions'[r]) ELSE RequestRefused(r, sessions[r]))
  OBVIOUS
<1>3. f.at = "publish"
  BY <1>2 DEF Changed, RequestRefused, Publish
<1>4. AsIs /\ AsIs'
  BY <1>1, <1>2, <1>3, SayOne
<1> DEFINE Answered(s) == [s EXCEPT ![r].requests = @ \ {asked},
                                    ![r].members = IF admit THEN @ \cup {asked} ELSE @]
<1>5. Abstract!LiveAnswerJoin(c, id, r, asked, admit) <=>
        /\ Abstract!CallerFor(id, c, r)
        /\ RoomsWithout(Dropping \cup Retiring)[r].openedByInstance = id
        /\ asked \in RoomsWithout(Dropping \cup Retiring)[r].requests
        /\ RoomsWithout(Dropping \cup Retiring)' = Answered(RoomsWithout(Dropping \cup Retiring))
        /\ UNCHANGED <<MapDelete(instances, Dropping), byConnection>>
  BY DEF Abstract!LiveAnswerJoin
<1>6. /\ CallerFor(id, c, r) /\ sessions[r].openedByInstance = id
      /\ asked \in sessions[r].requests /\ sessions' = Answered(sessions)
      /\ UNCHANGED <<instances, byConnection>>
  BY <1>1 DEF LiveAnswerJoin
<1>7. Abstract!CallerFor(id, c, r)
  BY <1>4, <1>6, SameCaller
<1> HIDE DEF Answered
<1>8. Abstract!LiveAnswerJoin(c, id, r, asked, admit)
  BY <1>4, <1>5, <1>6, <1>7 DEF AsIs
<1> QED
  BY <1>8 DEF Abstract!Next

\* A room that ends, or is left, and what is told of it.
LEMMA EndSeen ==
  ASSUME DInv, DInv', At("handle"), NEW r \in DOMAIN sessions, NEW room \in LiveEntry,
         End(r, room, Below)
  PROVE  AsIs /\ AsIs' /\ sessions' = MapDelete(sessions, {r})
<1>1. PICK f, g : f = Closed(r, room) /\ g = [at |-> "forget", topic |-> RoomTopic(r)]
  OBVIOUS
<1>2. f.at = "publish" /\ g.at = "forget"
  BY <1>1 DEF Closed, Publish
<1>3. PICK S : S = {f, g}
  OBVIOUS
<1>4. PICK front \in Seq(S) : front = <<f, g>>
  <2>1. <<f, g>> \in Seq(S)
    BY <1>3
  <2> QED
    BY <2>1
<1>5. stack' = front \o Below /\ sessions' = MapDelete(sessions, {r})
  BY <1>1, <1>4 DEF End
<1>6. Plain /\ Plain'
  BY <1>2, <1>3, <1>5, Handled
<1> QED
  BY <1>5, <1>6, AsTheyAre

LEMMA LiveLeaveSeen ==
  ASSUME DInv, DInv', At("handle"), NEW c \in Connections, NEW r \in Rooms, HandleLeave(c, r)
  PROVE  Abstract!Next
<1>1. PICK id \in Instances :
        /\ CallerFor(id, c, r) /\ id \in sessions[r].members
        /\ Part(r, sessions[r], id, Below)
        /\ UNCHANGED <<instances, byConnection>>
  BY CallingFacts DEF HandleLeave
<1>2. PICK room \in LiveEntry : room = sessions[r] /\ r \in DOMAIN sessions
  BY <1>1, CallingFacts DEF CallerFor, RoomsTyped
<1>3. PICK left : left = [room EXCEPT !.members = @ \ {id}]
  OBVIOUS
<1>4. left \in LiveEntry
  BY <1>3 DEF LiveEntry
<1>5. \/ Ends(room, {id}) /\ End(r, left, Below)
      \/ ~Ends(room, {id}) /\ Keep(r, left, Below) /\ stack' = <<Changed(r, left)>> \o Below
  BY <1>1, <1>2, <1>3 DEF Part
<1>6. /\ AsIs /\ AsIs'
      /\ sessions' = (IF Ends(room, {id}) THEN MapDelete(sessions, {r})
                      ELSE [sessions EXCEPT ![r] = left])
  <2>1. CASE Ends(room, {id}) /\ End(r, left, Below)
    BY <1>2, <1>4, <2>1, EndSeen
  <2>2. CASE ~Ends(room, {id}) /\ Keep(r, left, Below) /\ stack' = <<Changed(r, left)>> \o Below
    <3>1. PICK f : f = Changed(r, left)
      OBVIOUS
    <3>2. f.at = "publish"
      BY <3>1 DEF Changed, Publish
    <3>3. AsIs /\ AsIs'
      BY <2>2, <3>1, <3>2, SayOne
    <3>4. sessions' = [sessions EXCEPT ![r] = left]
      BY <1>2, <2>2 DEF Keep
    <3> QED
      BY <2>2, <3>3, <3>4
  <2> QED
    BY <1>5, <2>1, <2>2
<1>7. LiveLeave(c, id, r)
  <2>1. [sessions EXCEPT ![r] = left] = [sessions EXCEPT ![r].members = @ \ {id}]
    BY <1>2, <1>3
  <2> QED
    BY <1>1, <1>2, <1>6, <2>1 DEF LiveLeave
<1>8. Abstract!LiveLeave(c, id, r)
  BY <1>6, <1>7, SameCaller, SameOperations DEF AsIs, LiveLeave, Abstract!LiveLeave
<1> QED
  BY <1>8 DEF Abstract!Next

LEMMA LiveCloseSeen ==
  ASSUME DInv, DInv', At("handle"), NEW c \in Connections, NEW r \in Rooms, HandleClose(c, r)
  PROVE  Abstract!Next
<1>1. PICK id \in Instances :
        /\ CallerFor(id, c, r) /\ sessions[r].openedByInstance = id
        /\ End(r, sessions[r], Below)
        /\ UNCHANGED <<instances, byConnection>>
  BY CallingFacts DEF HandleClose
<1>2. r \in DOMAIN sessions /\ sessions[r] \in LiveEntry
  BY <1>1, CallingFacts DEF CallerFor, RoomsTyped
<1>3. AsIs /\ AsIs' /\ sessions' = MapDelete(sessions, {r})
  BY <1>1, <1>2, EndSeen
<1>4. Abstract!LiveClose(c, id, r)
  BY <1>1, <1>3, SameCaller, SameOperations DEF AsIs, Abstract!LiveClose
<1> QED
  BY <1>4 DEF Abstract!Next

LEMMA SaySeen ==
  ASSUME DInv, At("handle"), NEW c, NEW r, HandleSay(c, r)
  PROVE  [Abstract!Next]_(Abstract!vars)
<1>1. PICK f : f = Said(r)
  OBVIOUS
<1>2. f.at = "publish" /\ stack' = <<f>> \o Below /\ stack # <<>> /\ Top.at = "handle"
      /\ UNCHANGED <<instances, byConnection, sessions>>
  BY <1>1 DEF Said, Publish, HandleSay, At, Idle, presence
<1>3. Calling = {Top} \cup ToSet(Below) /\ Below \in Seq(ToSet(Below))
  BY <1>2, TopFacts DEF Stacked
<1>4. Calling' = {f} \cup ToSet(Below)
  BY <1>2, <1>3, SeqPush DEF Calling
<1> QED
  BY <1>2, <1>3, <1>4, UnseenUnderWay

\* An instance that is withdrawn is gone at once, however long its retire takes.
LEMMA WithdrawSeen ==
  ASSUME DInv, At("handle"), NEW c \in Connections, NEW p \in Projects, HandleWithdraw(c, p)
  PROVE  Abstract!Next
<1>1. PICK id \in Instances :
        /\ IsInstanceOn(id, c, p)
        /\ byConnection' = [byConnection EXCEPT ![c] = SetDelete(@, id)]
        /\ instances' = MapDelete(instances, {id})
        /\ stack' = <<Retire(id)>> \o Below
        /\ sessions' = sessions
  BY CallingFacts DEF HandleWithdraw
<1>2. PICK f : f = Retire(id)
  OBVIOUS
<1>3. f.at = "retire" /\ f.id = id /\ stack' = <<f>> \o Below
  BY <1>1, <1>2 DEF Retire
<1>4. stack # <<>> /\ Top.at = "handle" /\ Calling = {Top} /\ Stacked(Below) /\ ToSet(Below) = {}
  BY TopFacts, NothingStacked DEF At, Idle
<1>5. Calling' = {f}
  BY <1>3, <1>4, SeqPush DEF Calling, Stacked
<1>6. AsIs
  BY <1>4, AsItIs DEF AsIs, Plain
<1>7. GoneAre'
  BY GoneFacts, PTL
<1>8. Dropping' = {} /\ Retiring' = {id}
  BY <1>3, <1>5, <1>7 DEF GoneAre
<1>9. MapDelete(instances, Dropping)' = instances'
  BY <1>1, <1>8 DEF MapDelete, Restrict
<1>10. RoomsWithout(Dropping \cup Retiring)' = RoomsWithout({id})
  <2>1. {} \cup {id} = {id}
    OBVIOUS
  <2> QED
    BY <1>1, <1>8, <2>1 DEF RoomsWithout
<1>11. Abstract!RoomsWithout({id}) = RoomsWithout({id})
  <2>1. PICK gone : gone = {id}
    OBVIOUS
  <2>2. RoomsWithout(gone) =
          [r \in {r \in DOMAIN sessions : ~Ends(sessions[r], gone)} |-> Without(sessions[r], gone)]
    BY DEF RoomsWithout, Without
  <2>3. PICK seen : seen = RoomsWithout(Dropping \cup Retiring) /\ seen = sessions
    BY <1>6 DEF AsIs
  <2>4. Abstract!RoomsWithout(gone) =
          [r \in {r \in DOMAIN seen : ~Ends(seen[r], gone)} |-> Without(seen[r], gone)]
    BY <2>3, SameOperations DEF Abstract!RoomsWithout, Without
  <2> QED
    BY ONLY <2>1, <2>2, <2>3, <2>4
<1>12. Abstract!Withdraw(c, id, p)
  BY <1>1, <1>6, <1>9, <1>10, <1>11, SameCaller, SameOperations DEF AsIs, Abstract!Withdraw
<1> QED
  BY <1>12 DEF Abstract!Next

LEMMA HandleCallSeen ==
  ASSUME DInv, HandleCall
  PROVE  [Abstract!Next]_(Abstract!vars)
<1>1. At("handle") /\ DInv'
  BY HandleCallStep DEF HandleCall
<1>2. PICK c \in Connections, call \in Calls : c = Top.connection /\ call = Top.call
  BY <1>1, CallingFacts
<1>3. \/ call.method = "clients.announce" /\ HandleAnnounce(c, call.id, call.project)
      \/ call.method = "clients.withdraw" /\ HandleWithdraw(c, call.project)
      \/ call.method = "live.open"        /\ HandleOpen(c, call.project, call.rule)
      \/ call.method = "live.rule"        /\ HandleRule(c, call.room, call.rule)
      \/ call.method = "live.join"        /\ HandleJoin(c, call.room, call.byCode)
      \/ call.method = "live.requestJoin" /\ HandleRequestJoin(c, call.room)
      \/ call.method = "live.answerJoin"
           /\ HandleAnswerJoin(c, call.room, call.asked, call.admit)
      \/ call.method = "live.leave"       /\ HandleLeave(c, call.room)
      \/ call.method = "live.close"       /\ HandleClose(c, call.room)
      \/ call.method = "live.say"         /\ HandleSay(c, call.room)
  BY <1>2 DEF HandleCall
<1>4. CASE call.method = "clients.announce" /\ HandleAnnounce(c, call.id, call.project)
  BY <1>1, <1>4, CallFacts, AnnounceSeen
<1>5. CASE call.method = "clients.withdraw" /\ HandleWithdraw(c, call.project)
  BY <1>1, <1>5, CallFacts, WithdrawSeen
<1>6. CASE call.method = "live.open" /\ HandleOpen(c, call.project, call.rule)
  BY <1>1, <1>6, CallFacts, LiveOpenSeen
<1>7. CASE call.method = "live.rule" /\ HandleRule(c, call.room, call.rule)
  BY <1>1, <1>7, CallFacts, LiveRuleSeen
<1>8. CASE call.method = "live.join" /\ HandleJoin(c, call.room, call.byCode)
  BY <1>1, <1>8, CallFacts, LiveJoinSeen
<1>9. CASE call.method = "live.requestJoin" /\ HandleRequestJoin(c, call.room)
  BY <1>1, <1>9, CallFacts, LiveRequestJoinSeen
<1>10. CASE call.method = "live.answerJoin"
              /\ HandleAnswerJoin(c, call.room, call.asked, call.admit)
  BY <1>1, <1>10, CallFacts, LiveAnswerJoinSeen
<1>11. CASE call.method = "live.leave" /\ HandleLeave(c, call.room)
  BY <1>1, <1>11, CallFacts, LiveLeaveSeen
<1>12. CASE call.method = "live.close" /\ HandleClose(c, call.room)
  BY <1>1, <1>12, CallFacts, LiveCloseSeen
<1>13. CASE call.method = "live.say" /\ HandleSay(c, call.room)
  BY <1>1, <1>13, SaySeen
<1> QED
  BY <1>3, <1>4, <1>5, <1>6, <1>7, <1>8, <1>9, <1>10, <1>11, <1>12, <1>13

-----------------------------------------------------------------------------
(* Every step.                                                             *)

LEMMA InitSeen == DInit => Abstract!Init
<1> SUFFICES ASSUME DInit
             PROVE  Abstract!Init
  OBVIOUS
<1>1. /\ instances = <<>> /\ sessions = <<>> /\ stack = <<>>
      /\ byConnection = [c \in Connections |-> <<>>]
  BY DEF DInit, Init
<1>2. DInv /\ Plain
  BY <1>1, DInvInit, NothingStacked DEF Plain, Calling
<1>3. AsIs
  BY <1>2, AsItIs DEF AsIs
<1> QED
  BY <1>1, <1>3 DEF AsIs, Abstract!Init

LEMMA StepSeen == DInv /\ [DNext]_dvars => [Abstract!Next]_(Abstract!vars)
<1> SUFFICES ASSUME DInv, [DNext]_dvars
             PROVE  [Abstract!Next]_(Abstract!vars)
  OBVIOUS
<1>1. CASE HandleCall
  BY <1>1, HandleCallSeen
<1>2. CASE HandleSubscribe \/ HandleUnsubscribe \/ Refuse
  BY <1>2, CallReturnSeen
<1>3. CASE BeginPublish
  BY <1>3, BeginPublishSeen
<1>4. CASE Deliver
  BY <1>4, DeliverSeen
<1>5. CASE DropNext
  BY <1>5, DropNextUnseen
<1>6. CASE RetireFromRoom
  BY <1>6, RetireFromRoomUnseen
<1>7. CASE RetireDone
  BY <1>7, RetireDoneUnseen
<1>8. CASE Forget
  BY <1>8, ForgetSeen
<1>9. CASE DropDone
  BY <1>9, DropDoneSeen
<1>10. CASE CloseAll
  <2>1. UNCHANGED <<presence, stack>>
    BY <1>10 DEF CloseAll
  <2> QED
    BY <2>1, AsideSeen
<1>11. CASE \E c \in Connections : Open(c)
  <2>1. UNCHANGED <<presence, stack>>
    BY <1>11 DEF Open
  <2> QED
    BY <2>1, AsideSeen
<1>12. CASE \E c \in Connections : Close(c)
  BY <1>12, CloseUnseen
<1>13. CASE \E c \in Connections : \E call \in Sends[c] : Receive(c, call)
  BY <1>13, ReceiveSeen
<1>14. CASE \E c \in Connections : Revalidate(c)
  BY <1>14, RevalidateSeen
<1>15. CASE \E c \in Connections : \E t \in Topics : ReadAgain(c, t)
  <2>1. UNCHANGED <<presence, stack>>
    BY <1>15 DEF ReadAgain
  <2> QED
    BY <2>1, AsideSeen
<1>16. CASE \E a \in Accounts : Demote(a)
  <2>1. UNCHANGED <<presence, stack>>
    BY <1>16 DEF Demote
  <2> QED
    BY <2>1, AsideSeen
<1>17. CASE PublishElsewhere
  BY <1>17, PublishElsewhereSeen
<1>18. CASE Stop
  <2>1. UNCHANGED <<presence, stack>>
    BY <1>18 DEF Stop
  <2> QED
    BY <2>1, AsideSeen
<1>19. CASE UNCHANGED dvars
  <2>1. UNCHANGED <<presence, stack>>
    BY <1>19 DEF dvars
  <2> QED
    BY <2>1, AsideSeen
<1> QED
  BY <1>1, <1>2, <1>3, <1>4, <1>5, <1>6, <1>7, <1>8, <1>9, <1>10, <1>11, <1>12, <1>13, <1>14,
     <1>15, <1>16, <1>17, <1>18, <1>19 DEF DNext, Run, Arrive

(* However the calls nest, what they do to instances and rooms is what     *)
(* they would do one at a time: with what a drop or a retire under way has *)
(* yet to take away taken as gone (presence.ts retire, dropConnection),    *)
(* Delivery implements Presence, and every theorem about Presence holds of *)
(* it.                                                                     *)
THEOREM DeliveryIsPresence == DSpec => NestingIsInvisible
<1>1. DInit => Abstract!Init
  BY InitSeen
<1>2. DInv /\ [DNext]_dvars => [Abstract!Next]_(Abstract!vars)
  BY StepSeen
<1> QED
  BY <1>1, <1>2, CallsNest, PTL DEF DSpec, NestingIsInvisible, Abstract!Spec

-----------------------------------------------------------------------------
(* A copy in step is right.                                                *)

(* No client that announces an instance has more queued than it reads.     *)
(* One that has closes inside a publish, and what its instance takes back  *)
(* is then told before what the call that publishes has yet to tell.       *)
AnnouncersKeepUp ==
  \A c \in SlowPeers : \A call \in Sends[c] : call.method # "clients.announce"

\* What is about to be told, or is being told, and the event it is told by.
TellsSomething(f) ==
  f.at \in {"publish", "deliver"} \/ (f.at = "retire" /\ f.project # NoProject)
EventOf(f) ==
  IF f.at = "deliver" THEN f.event
  ELSE IF f.at = "retire" THEN ClientGone(f.id, f.project) ELSE f
Tells(f, t) == TellsSomething(f) /\ EventOf(f).topic = t
\* A client has yet to hear it.
Comes(f, c, t) == Tells(f, t) /\ (f.at = "deliver" => c \in ToSet(f.to))

\* The topics that have a collection.
Collected(t) == t.of \in {"clients", "live"}

\* Of a topic one thing is told at a time, a retire is above drops only, and a drop
\* that has something to drop is the first there was.
Calm(s) ==
  /\ \A n, m \in 1 .. Len(s) : \A t \in Topics : Tells(s[n], t) /\ Tells(s[m], t) => n = m
  /\ \A n, m \in 1 .. Len(s) : s[n].at = "retire" /\ n < m => s[m].at = "drop"
  /\ \A n \in 1 .. Len(s) - 1 : s[n].at = "drop" => s[n].ids = <<>>

\* What the calls that have begun are, when nothing is dropped inside a publish.
CalmFrame(f) ==
  /\ f.at = "handle" => f.call \in Sends[f.connection]
  /\ f.at = "retire" => f.rooms \subseteq DOMAIN sessions
  /\ f.at = "deliver" => IsInjective(f.to)
  /\ TellsSomething(f) /\ ~Collected(EventOf(f).topic) =>
       EventOf(f).kind \in {"live-message", "users-changed"}

\* What is left to be told of a topic makes the copy of it what a read would give.
RightOf(c, t) ==
  LET held == copy[c][t]
  IN  \/ /\ \A f \in Calling : ~Comes(f, c, t)
         /\ Listed(t, held.view) = Collection(t)
      \/ \E f \in Calling :
           /\ Comes(f, c, t)
           /\ f.at = "deliver" => f.seq = held.last + 1
           /\ Listed(t, Applied(held.view, EventOf(f))) = Collection(t)

SlowAreBare == \A c \in SlowPeers : byConnection[c] = <<>>
CalmCalls == Calm(stack) /\ \A f \in Calling : CalmFrame(f)
CopyRight(c, t) == IF Collected(t) THEN RightOf(c, t) ELSE copy[c][t].view = <<>>
CopiesRight == \A c \in Connections : \A t \in DOMAIN copy[c] : CopyRight(c, t)

KeepInv == SlowAreBare /\ CalmCalls /\ CopiesRight

\* What begins above others.
Fits(f, below) ==
  /\ \A g \in ToSet(below) : \A t \in Topics : Tells(g, t) => ~Tells(f, t)
  /\ f.at = "retire" => \A g \in ToSet(below) : g.at = "drop"
  /\ f.at = "drop" /\ f.ids # <<>> => below = <<>>

LEMMA CalmFits ==
  ASSUME NEW f, NEW below, Stacked(below)
  PROVE  Calm(<<f>> \o below) <=> Calm(below) /\ Fits(f, below)
<1>1. below \in Seq(ToSet(below))
  BY DEF Stacked
<1> DEFINE s == <<f>> \o below
<1>2. /\ Len(s) = Len(below) + 1 /\ s[1] = f
      /\ \A n \in 2 .. Len(below) + 1 : s[n] = below[n - 1]
  BY <1>1, SeqPush
<1>3. Len(below) \in Nat /\ DOMAIN below = 1 .. Len(below)
  BY <1>1
<1>4. \A g : g \in ToSet(below) <=> \E n \in 1 .. Len(below) : below[n] = g
  BY <1>3 DEF ToSet
<1>5. Len(below) = 0 => below = <<>>
  BY <1>1, EmptySeq
<1> HIDE DEF s
<1>6. \A n \in 1 .. Len(below) : s[n + 1] = below[n] /\ n + 1 \in 2 .. Len(s)
  <2> TAKE n \in 1 .. Len(below)
  <2>1. n + 1 \in 2 .. Len(below) + 1 /\ (n + 1) - 1 = n
    BY <1>3
  <2> QED
    BY <2>1, <1>2
<1>7. ASSUME Calm(s)
      PROVE  Calm(below) /\ Fits(f, below)
  <2>1. Calm(below)
    <3>1. ASSUME NEW n \in 1 .. Len(below), NEW m \in 1 .. Len(below), NEW t \in Topics,
                 Tells(below[n], t), Tells(below[m], t)
          PROVE  n = m
      <4>1. Tells(s[n + 1], t) /\ Tells(s[m + 1], t)
        BY <3>1, <1>6
      <4>2. n + 1 \in 1 .. Len(s) /\ m + 1 \in 1 .. Len(s)
        BY <1>2, <1>3
      <4>3. n + 1 = m + 1
        BY <4>1, <4>2, <1>7 DEF Calm
      <4> QED
        BY <4>3, <1>3
    <3>2. ASSUME NEW n \in 1 .. Len(below), NEW m \in 1 .. Len(below),
                 below[n].at = "retire", n < m
          PROVE  below[m].at = "drop"
      <4>1. n + 1 \in 1 .. Len(s) /\ m + 1 \in 1 .. Len(s) /\ n + 1 < m + 1
        BY <1>2, <1>3, <3>2
      <4> QED
        BY <4>1, <3>2, <1>6, <1>7 DEF Calm
    <3>3. ASSUME NEW n \in 1 .. Len(below) - 1, below[n].at = "drop"
          PROVE  below[n].ids = <<>>
      <4>1. n + 1 \in 1 .. Len(s) - 1 /\ n \in 1 .. Len(below)
        BY <1>2, <1>3
      <4> QED
        BY <4>1, <3>3, <1>6, <1>7 DEF Calm
    <3> QED
      BY <3>1, <3>2, <3>3 DEF Calm
  <2>2. ASSUME NEW g \in ToSet(below)
        PROVE  /\ \A t \in Topics : Tells(g, t) => ~Tells(f, t)
               /\ f.at = "retire" => g.at = "drop"
    <3>1. PICK n \in 1 .. Len(below) : below[n] = g
      BY <1>4
    <3>2. n + 1 \in 1 .. Len(s) /\ 1 \in 1 .. Len(s) /\ 1 < n + 1 /\ 1 # n + 1 /\ s[n + 1] = g
      BY <3>1, <1>2, <1>3, <1>6
    <3> QED
      BY <3>2, <1>2, <1>7 DEF Calm
  <2>3. f.at = "drop" /\ f.ids # <<>> => below = <<>>
    <3>1. Len(below) # 0 => 1 \in 1 .. Len(s) - 1
      BY <1>2, <1>3
    <3> QED
      BY <3>1, <1>2, <1>5, <1>7 DEF Calm
  <2> QED
    BY <2>1, <2>2, <2>3 DEF Fits
<1>8. ASSUME Calm(below), Fits(f, below)
      PROVE  Calm(s)
  <2>1. \A n \in 1 .. Len(s) : n # 1 => /\ n - 1 \in 1 .. Len(below) /\ s[n] = below[n - 1]
                                        /\ s[n] \in ToSet(below)
    <3> TAKE n \in 1 .. Len(s)
    <3> HAVE n # 1
    <3>1. n - 1 \in 1 .. Len(below) /\ n \in 2 .. Len(below) + 1
      BY <1>2, <1>3
    <3> QED
      BY <3>1, <1>2, <1>4
  <2>2. ASSUME NEW n \in 1 .. Len(s), NEW m \in 1 .. Len(s), NEW t \in Topics,
               Tells(s[n], t), Tells(s[m], t)
        PROVE  n = m
    <3>1. CASE n # 1 /\ m # 1
      <4>1. n - 1 = m - 1
        BY <2>1, <2>2, <3>1, <1>8 DEF Calm
      <4> QED
        BY <4>1, <1>2, <1>3
    <3>2. CASE n = 1 /\ m # 1
      BY <2>1, <2>2, <3>2, <1>2, <1>8 DEF Fits
    <3>3. CASE n # 1 /\ m = 1
      BY <2>1, <2>2, <3>3, <1>2, <1>8 DEF Fits
    <3> QED
      BY <3>1, <3>2, <3>3
  <2>3. ASSUME NEW n \in 1 .. Len(s), NEW m \in 1 .. Len(s), s[n].at = "retire", n < m
        PROVE  s[m].at = "drop"
    <3>1. m # 1
      BY <1>2, <1>3, <2>3
    <3>2. CASE n # 1
      <4>1. n - 1 < m - 1
        BY <1>2, <1>3, <2>3
      <4> QED
        BY <4>1, <3>1, <3>2, <2>1, <2>3, <1>8 DEF Calm
    <3>3. CASE n = 1
      BY <3>1, <3>3, <2>1, <2>3, <1>2, <1>8 DEF Fits
    <3> QED
      BY <3>2, <3>3
  <2>4. ASSUME NEW n \in 1 .. Len(s) - 1, s[n].at = "drop"
        PROVE  s[n].ids = <<>>
    <3>1. n \in 1 .. Len(s)
      BY <1>2, <1>3
    <3>2. CASE n # 1
      <4>1. n - 1 \in 1 .. Len(below) - 1
        BY <1>2, <1>3, <3>2
      <4> QED
        BY <4>1, <3>1, <3>2, <2>1, <2>4, <1>8 DEF Calm
    <3>3. CASE n = 1
      <4>1. below # <<>>
        BY <1>2, <1>3, <3>3
      <4> QED
        BY <4>1, <3>3, <2>4, <1>2, <1>8 DEF Fits
    <3> QED
      BY <3>2, <3>3
  <2> QED
    BY <2>2, <2>3, <2>4 DEF Calm
<1> QED
  BY <1>7, <1>8 DEF s

LEMMA CalmNothing == Calm(<<>>) /\ \A f : Fits(f, <<>>)
BY NothingStacked DEF Calm, Fits

\* What is at the top, and what is below it.
LEMMA CalmTop ==
  ASSUME DInv, CalmCalls, stack # <<>>
  PROVE  /\ Calm(Below) /\ Fits(Top, Below) /\ CalmFrame(Top)
         /\ \A f \in ToSet(Below) : CalmFrame(f)
         /\ stack = <<Top>> \o Below
         /\ Calling = {Top} \cup ToSet(Below)
<1>1. stack \in Seq(ToSet(stack)) /\ Stacked(Below) /\ Calling = {Top} \cup ToSet(Below)
  BY DInvParts, TopFacts DEF Stacked
<1>2. stack = <<Top>> \o Below
  BY <1>1, SeqPop DEF Top, Below
<1>3. Calm(<<Top>> \o Below)
  BY <1>2 DEF CalmCalls
<1> QED
  BY <1>1, <1>2, <1>3, CalmFits DEF CalmCalls

\* What is begun is above what had begun.
LEMMA CalmPushed ==
  ASSUME NEW f, NEW below, Stacked(below), Calm(below), Fits(f, below), stack' = <<f>> \o below,
         CalmFrame(f)', \A g \in ToSet(below) : CalmFrame(g)'
  PROVE  CalmCalls' /\ Calling' = {f} \cup ToSet(below)
<1>1. Calm(stack')
  BY CalmFits
<1>2. Calling' = {f} \cup ToSet(below)
  BY SeqPush DEF Calling, Stacked
<1> QED
  BY <1>1, <1>2 DEF CalmCalls

\* What a client has a copy of.
LEMMA CopyFacts ==
  ASSUME DInv, NEW c \in Connections, NEW t \in DOMAIN copy[c]
  PROVE  /\ t \in Topics /\ t \in topics[c] /\ status[c] = "open" /\ c \in ToSet(hub)
         /\ t.of # "room" => copy[c][t].last \in Nat /\ sequences[t] \in Nat
BY DInvParts DEF HearInv, CopyOK, DTyped, HubInv

-----------------------------------------------------------------------------
(* What is told of a collection, and what becomes of its copies.           *)

\* A call that tells what another did, to whoever has not heard it.
Alike(f, g) ==
  EventOf(f) = EventOf(g) /\ (g.at = "deliver" => f.at = "deliver" /\ f.seq = g.seq)
SameToldTo(c, t) ==
  /\ \A f \in Calling : Comes(f, c, t) => \E g \in Calling' : Comes(g, c, t) /\ Alike(f, g)
  /\ \A g \in Calling' : Comes(g, c, t) => \E f \in Calling : Comes(f, c, t)
SameTold(t) == \A c \in Connections : SameToldTo(c, t)

\* An event that makes of a collection what it is now.
Moves(t, event) ==
  \A view : Listed(t, view) = Collection(t) => Listed(t, Applied(view, event)) = Collection(t)'
NewlyTold(t) ==
  /\ \A f \in Calling : ~Tells(f, t)
  /\ \E g \in Calling' : Tells(g, t) /\ g.at # "deliver" /\ Moves(t, EventOf(g))

LEMMA StaysRight ==
  ASSUME NEW c \in Connections, NEW t, RightOf(c, t), copy'[c][t] = copy[c][t],
         (SameToldTo(c, t) /\ Collection(t)' = Collection(t)) \/ NewlyTold(t)
  PROVE  RightOf(c, t)'
<1>1. PICK held : held = copy[c][t]
  OBVIOUS
<1>2. PICK now : now = Collection(t)'
  OBVIOUS
<1>3. CASE SameToldTo(c, t) /\ Collection(t)' = Collection(t)
  <2>1. CASE (\A f \in Calling : ~Comes(f, c, t)) /\ Listed(t, held.view) = Collection(t)
    BY <2>1, <1>1, <1>2, <1>3 DEF RightOf, SameToldTo
  <2>2. ASSUME NEW f \in Calling, Comes(f, c, t), f.at = "deliver" => f.seq = held.last + 1,
               Listed(t, Applied(held.view, EventOf(f))) = Collection(t)
        PROVE  RightOf(c, t)'
    <3>1. PICK g \in Calling' : Comes(g, c, t) /\ Alike(f, g)
      BY <2>2, <1>3 DEF SameToldTo
    <3>2. /\ g.at = "deliver" => g.seq = held.last + 1
          /\ Listed(t, Applied(held.view, EventOf(g))) = Collection(t)
      BY <2>2, <3>1 DEF Alike
    <3> QED
      BY <3>1, <3>2, <1>1, <1>3 DEF RightOf
  <2> QED
    BY <2>1, <2>2, <1>1 DEF RightOf
<1>4. CASE NewlyTold(t)
  <2>1. Listed(t, held.view) = Collection(t)
    BY <1>1, <1>4 DEF RightOf, NewlyTold, Comes
  <2>2. PICK g \in Calling' : Tells(g, t) /\ g.at # "deliver" /\ Moves(t, EventOf(g))
    BY <1>4 DEF NewlyTold
  <2>3. Comes(g, c, t) /\ Listed(t, Applied(held.view, EventOf(g))) = now
    BY <2>1, <2>2, <1>2 DEF Comes, Moves
  <2> QED
    BY <2>2, <2>3, <1>1, <1>2 DEF RightOf
<1> QED
  BY <1>3, <1>4

\* Copies are left alone or given up, and whatever changes is told.
CopiesKept ==
  \A c \in Connections : \A t \in DOMAIN copy'[c] :
    t \in DOMAIN copy[c] /\ copy'[c][t] = copy[c][t]

LEMMA CopiesStay ==
  ASSUME DInv, CopiesRight, CopiesKept,
         \A t \in Topics : Collected(t) =>
           (SameTold(t) /\ Collection(t)' = Collection(t)) \/ NewlyTold(t)
  PROVE  CopiesRight'
<1>1. ASSUME NEW c \in Connections, NEW t \in DOMAIN copy'[c]
      PROVE  CopyRight(c, t)'
  <2>1. t \in DOMAIN copy[c] /\ copy'[c][t] = copy[c][t]
    BY DEF CopiesKept
  <2>2. t \in Topics /\ CopyRight(c, t)
    BY <2>1, CopyFacts DEF CopiesRight
  <2>3. CASE Collected(t)
    <3>1. RightOf(c, t)
      BY <2>2, <2>3 DEF CopyRight
    <3>2. RightOf(c, t)'
      BY <2>1, <2>2, <2>3, <3>1, StaysRight DEF SameTold
    <3> QED
      BY <2>3, <3>2 DEF CopyRight
  <2>4. CASE ~Collected(t)
    BY <2>1, <2>2, <2>4 DEF CopyRight
  <2> QED
    BY <2>3, <2>4
<1> QED
  BY <1>1 DEF CopiesRight

LEMMA SameCalls ==
  ASSUME NEW t,
         \A f \in Calling : Tells(f, t) => f \in Calling',
         \A g \in Calling' : Tells(g, t) => g \in Calling
  PROVE  SameTold(t)
BY DEF SameTold, SameToldTo, Alike, Comes

\* What is at the top is the one that tells what it tells.
LEMMA OneTells ==
  ASSUME DInv, CalmCalls, stack # <<>>, NEW t \in Topics, Tells(Top, t),
         NEW f \in Calling, Tells(f, t)
  PROVE  f = Top
BY CalmTop DEF Fits

LEMMA RightTop ==
  ASSUME DInv, KeepInv, stack # <<>>, NEW c \in Connections, NEW t \in DOMAIN copy[c],
         Collected(t), Comes(Top, c, t)
  PROVE  /\ Top.at = "deliver" => Top.seq = copy[c][t].last + 1
         /\ Listed(t, Applied(copy[c][t].view, EventOf(Top))) = Collection(t)
<1>1. RightOf(c, t) /\ t \in Topics /\ Top \in Calling
  BY CopyFacts, TopFacts DEF KeepInv, CopiesRight, CopyRight
<1>2. \A f \in Calling : Comes(f, c, t) => f = Top
  BY <1>1, OneTells DEF KeepInv, Comes
<1> QED
  BY <1>1, <1>2 DEF RightOf

-----------------------------------------------------------------------------
(* The collections.                                                        *)

\* A topic of a project is the one of its kind.
LEMMA TopicsOf ==
  /\ \A p : /\ ClientsTopic(p).of = "clients" /\ ClientsTopic(p).key = p
            /\ LiveTopic(p).of = "live" /\ LiveTopic(p).key = p
  /\ \A r : RoomTopic(r).of = "room"
  /\ AdminTopic.of = "admin"
  /\ \A t \in Topics :
       /\ t.of \in {"clients", "live", "room", "admin"}
       /\ t.of = "clients" => t = ClientsTopic(t.key) /\ t.key \in Projects
       /\ t.of = "live" => t = LiveTopic(t.key) /\ t.key \in Projects
<1>1. \A p : /\ ClientsTopic(p).of = "clients" /\ ClientsTopic(p).key = p
             /\ LiveTopic(p).of = "live" /\ LiveTopic(p).key = p
  BY DEF ClientsTopic, LiveTopic
<1>2. (\A r : RoomTopic(r).of = "room") /\ AdminTopic.of = "admin"
  BY DEF RoomTopic, AdminTopic
<1>3. \A t \in Topics :
        \/ \E p \in Projects : t = ClientsTopic(p)
        \/ \E p \in Projects : t = LiveTopic(p)
        \/ \E r \in Rooms : t = RoomTopic(r)
        \/ t = AdminTopic
  BY DEF Topics
<1> QED
  BY <1>1, <1>2, <1>3

\* Functions that are equal where they are defined.
LEMMA ListedSet ==
  ASSUME NEW t, t.of = "live", NEW view, NEW r, NEW value
  PROVE  Listed(t, MapSet(view, r, value)) =
           IF value.rule = "code" THEN MapDelete(Listed(t, view), {r})
           ELSE MapSet(Listed(t, view), r, value)
<1> DEFINE S == {s \in DOMAIN view : view[s].rule # "code"}
           all == MapSet(view, r, value)
           A == {s \in DOMAIN all : all[s].rule # "code"}
<1>1. /\ DOMAIN all = DOMAIN view \cup {r} /\ all[r] = value
      /\ \A s \in DOMAIN view : s # r => all[s] = view[s]
  BY DEF MapSet
<1> HIDE DEF all
<1>2. A = IF value.rule = "code" THEN S \ {r} ELSE S \cup {r}
  BY <1>1
<1>3. Listed(t, all) = [s \in A |-> all[s]] /\ Listed(t, view) = [s \in S |-> view[s]]
  BY DEF Listed, Restrict
<1> HIDE DEF A, S
<1>4. CASE value.rule = "code"
  <2>1. MapDelete(Listed(t, view), {r}) = [s \in S \ {r} |-> view[s]]
    BY <1>3 DEF MapDelete, Restrict
  <2>2. \A s \in S \ {r} : all[s] = view[s]
    BY <1>1 DEF S
  <2>3. [s \in A |-> all[s]] = [s \in S \ {r} |-> view[s]]
    BY <1>2, <1>4, <2>2
  <2> QED
    BY <1>3, <1>4, <2>1, <2>3 DEF all
<1>5. CASE value.rule # "code"
  <2>1. MapSet(Listed(t, view), r, value) =
          [s \in S \cup {r} |-> IF s = r THEN value ELSE view[s]]
    BY <1>3 DEF MapSet
  <2>2. \A s \in S \cup {r} : all[s] = IF s = r THEN value ELSE view[s]
    BY <1>1 DEF S
  <2>3. [s \in A |-> all[s]] = [s \in S \cup {r} |-> IF s = r THEN value ELSE view[s]]
    BY <1>2, <1>5, <2>2
  <2> QED
    BY <1>3, <1>5, <2>1, <2>3 DEF all
<1> QED
  BY <1>4, <1>5 DEF all

LEMMA ListedDelete ==
  ASSUME NEW t, t.of = "live", NEW view, NEW gone
  PROVE  Listed(t, MapDelete(view, gone)) = MapDelete(Listed(t, view), gone)
<1> DEFINE S == {s \in DOMAIN view : view[s].rule # "code"}
           left == MapDelete(view, gone)
           A == {s \in DOMAIN left : left[s].rule # "code"}
<1>1. DOMAIN left = DOMAIN view \ gone /\ \A s \in DOMAIN view \ gone : left[s] = view[s]
  BY MapDeleteFacts
<1> HIDE DEF left
<1>2. A = S \ gone /\ \A s \in A : left[s] = view[s]
  BY <1>1
<1>3. Listed(t, left) = [s \in A |-> left[s]] /\ Listed(t, view) = [s \in S |-> view[s]]
  BY DEF Listed, Restrict
<1> HIDE DEF A, S
<1>4. MapDelete(Listed(t, view), gone) = [s \in S \ gone |-> view[s]]
  BY <1>3 DEF MapDelete, Restrict
<1>5. [s \in A |-> left[s]] = [s \in S \ gone |-> view[s]]
  BY <1>2
<1> QED
  BY <1>3, <1>4, <1>5 DEF left

\* What the lists of a project become when one room of it does.
LEMMA LiveSet ==
  ASSUME NEW r, NEW room, sessions' = MapSet(sessions, r, room),
         r \in DOMAIN sessions => sessions[r].project = room.project,
         NEW t, t.of = "live"
  PROVE  /\ t.key = room.project =>
              Collection(t)' = IF room.rule = "code" THEN MapDelete(Collection(t), {r})
                               ELSE MapSet(Collection(t), r, View(room))
         /\ t.key # room.project => Collection(t)' = Collection(t)
<1> DEFINE S == {s \in RoomsOf(t.key) : sessions[s].rule # "code"}
           A == {s \in RoomsOf(t.key)' : sessions'[s].rule # "code"}
<1>1. /\ DOMAIN sessions' = DOMAIN sessions \cup {r} /\ sessions'[r] = room
      /\ \A s \in DOMAIN sessions : s # r => sessions'[s] = sessions[s]
  BY DEF MapSet
<1>2. /\ Collection(t) = [s \in S |-> View(sessions[s])]
      /\ Collection(t)' = [s \in A |-> View(sessions'[s])]
  BY DEF Collection
<1>3. /\ \A s : s \in S <=> /\ s \in DOMAIN sessions /\ sessions[s].project = t.key
                             /\ sessions[s].rule # "code"
      /\ \A s : s \in A <=> /\ s \in DOMAIN sessions' /\ sessions'[s].project = t.key
                             /\ sessions'[s].rule # "code"
  BY DEF RoomsOf
<1> HIDE DEF S, A
<1>4. CASE t.key # room.project
  <2>3. \A s : s \in S => s # r
    BY <1>3, <1>4
  <2>4. \A s : s \in A => s # r
    BY <1>1, <1>3, <1>4
  <2>5. \A s : s \in A <=> s \in S
    BY <1>1, <1>3, <2>3, <2>4
  <2>1. A = S /\ \A s \in S : sessions'[s] = sessions[s]
    BY <1>1, <1>3, <2>3, <2>5
  <2>2. [s \in A |-> View(sessions'[s])] = [s \in S |-> View(sessions[s])]
    BY <2>1
  <2> QED
    BY <1>2, <1>4, <2>2
<1>5. CASE t.key = room.project /\ room.rule = "code"
  <2>1. A = S \ {r} /\ \A s \in A : sessions'[s] = sessions[s]
    BY <1>1, <1>3, <1>5
  <2>2. MapDelete(Collection(t), {r}) = [s \in S \ {r} |-> View(sessions[s])]
    BY <1>2 DEF MapDelete, Restrict
  <2>3. [s \in A |-> View(sessions'[s])] = [s \in S \ {r} |-> View(sessions[s])]
    BY <2>1
  <2> QED
    BY <1>2, <1>5, <2>2, <2>3
<1>6. CASE t.key = room.project /\ room.rule # "code"
  <2>1. /\ A = S \cup {r} /\ sessions'[r] = room
        /\ \A s \in S : s # r => sessions'[s] = sessions[s]
    BY <1>1, <1>3, <1>6
  <2>2. MapSet(Collection(t), r, View(room)) =
          [s \in S \cup {r} |-> IF s = r THEN View(room) ELSE View(sessions[s])]
    BY <1>2 DEF MapSet
  <2>3. [s \in A |-> View(sessions'[s])] =
          [s \in S \cup {r} |-> IF s = r THEN View(room) ELSE View(sessions[s])]
    BY <2>1
  <2> QED
    BY <1>2, <1>6, <2>2, <2>3
<1> QED
  BY <1>4, <1>5, <1>6

LEMMA LiveDelete ==
  ASSUME NEW r, NEW p, sessions' = MapDelete(sessions, {r}),
         r \in DOMAIN sessions => sessions[r].project = p,
         NEW t, t.of = "live"
  PROVE  /\ t.key = p => Collection(t)' = MapDelete(Collection(t), {r})
         /\ t.key # p => Collection(t)' = Collection(t)
<1> DEFINE S == {s \in RoomsOf(t.key) : sessions[s].rule # "code"}
           A == {s \in RoomsOf(t.key)' : sessions'[s].rule # "code"}
<1>1. /\ DOMAIN sessions' = DOMAIN sessions \ {r}
      /\ \A s \in DOMAIN sessions' : sessions'[s] = sessions[s]
  BY DEF MapDelete, Restrict
<1>2. /\ Collection(t) = [s \in S |-> View(sessions[s])]
      /\ Collection(t)' = [s \in A |-> View(sessions'[s])]
  BY DEF Collection
<1>3. /\ \A s : s \in S <=> /\ s \in DOMAIN sessions /\ sessions[s].project = t.key
                             /\ sessions[s].rule # "code"
      /\ \A s : s \in A <=> /\ s \in DOMAIN sessions' /\ sessions'[s].project = t.key
                             /\ sessions'[s].rule # "code"
  BY DEF RoomsOf
<1> HIDE DEF S, A
<1>8. \A s : s \in A <=> s \in S /\ s # r
  BY <1>1, <1>3
<1>4. A = S \ {r} /\ \A s \in A : sessions'[s] = sessions[s]
  BY <1>1, <1>3, <1>8
<1>5. [s \in A |-> View(sessions'[s])] = [s \in S \ {r} |-> View(sessions[s])]
  BY <1>4
<1>6. MapDelete(Collection(t), {r}) = [s \in S \ {r} |-> View(sessions[s])]
  BY <1>2 DEF MapDelete, Restrict
<1>7. t.key # p => S \ {r} = S
  BY <1>3
<1> QED
  BY <1>2, <1>5, <1>6, <1>7

\* Who asks to be let in is on no list.
LEMMA LiveSame ==
  ASSUME DOMAIN sessions' = DOMAIN sessions,
         \A r \in DOMAIN sessions :
           /\ sessions'[r].project = sessions[r].project
           /\ sessions'[r].members = sessions[r].members
           /\ sessions'[r].rule = sessions[r].rule,
         NEW t, t.of = "live"
  PROVE  Collection(t)' = Collection(t)
<1> DEFINE S == {s \in RoomsOf(t.key) : sessions[s].rule # "code"}
           A == {s \in RoomsOf(t.key)' : sessions'[s].rule # "code"}
<1>1. /\ Collection(t) = [s \in S |-> View(sessions[s])]
      /\ Collection(t)' = [s \in A |-> View(sessions'[s])]
  BY DEF Collection
<1>2. A = S /\ \A s \in S : View(sessions'[s]) = View(sessions[s])
  BY DEF RoomsOf, View
<1> HIDE DEF S, A
<1> QED
  BY <1>1, <1>2

LEMMA ClientsSet ==
  ASSUME NEW id, NEW entry, instances' = MapSet(instances, id, entry),
         NEW t, t.of = "clients"
  PROVE  /\ t.key = entry.project => Collection(t)' = MapSet(Collection(t), id, "here")
         /\ t.key # entry.project => Collection(t)' = MapDelete(Collection(t), {id})
<1> DEFINE S == {j \in DOMAIN instances : instances[j].project = t.key}
           A == {j \in DOMAIN instances' : instances'[j].project = t.key}
<1>1. /\ DOMAIN instances' = DOMAIN instances \cup {id} /\ instances'[id] = entry
      /\ \A j \in DOMAIN instances : j # id => instances'[j] = instances[j]
  BY DEF MapSet
<1>2. Collection(t) = [j \in S |-> "here"] /\ Collection(t)' = [j \in A |-> "here"]
  BY DEF Collection
<1>3. /\ t.key = entry.project => A = S \cup {id}
      /\ t.key # entry.project => A = S \ {id}
  BY <1>1
<1> HIDE DEF S, A
<1>4. MapDelete(Collection(t), {id}) = [j \in S \ {id} |-> "here"]
  BY <1>2 DEF MapDelete, Restrict
<1>5. MapSet(Collection(t), id, "here") = [j \in S \cup {id} |-> "here"]
  BY <1>2 DEF MapSet
<1> QED
  BY <1>2, <1>3, <1>4, <1>5

LEMMA ClientsDelete ==
  ASSUME NEW id, instances' = MapDelete(instances, {id}), NEW t, t.of = "clients"
  PROVE  Collection(t)' = MapDelete(Collection(t), {id})
<1> DEFINE S == {j \in DOMAIN instances : instances[j].project = t.key}
           A == {j \in DOMAIN instances' : instances'[j].project = t.key}
<1>1. /\ DOMAIN instances' = DOMAIN instances \ {id}
      /\ \A j \in DOMAIN instances' : instances'[j] = instances[j]
  BY DEF MapDelete, Restrict
<1>2. Collection(t) = [j \in S |-> "here"] /\ Collection(t)' = [j \in A |-> "here"]
  BY DEF Collection
<1>3. A = S \ {id}
  BY <1>1
<1> HIDE DEF S, A
<1>4. MapDelete(Collection(t), {id}) = [j \in S \ {id} |-> "here"]
  BY <1>2 DEF MapDelete, Restrict
<1> QED
  BY <1>2, <1>3, <1>4

\* Who is not on a list is not missed from it.
LEMMA ClientsWithout ==
  ASSUME NEW id, NEW t, t.of = "clients",
         id \in DOMAIN instances => instances[id].project # t.key
  PROVE  MapDelete(Collection(t), {id}) = Collection(t)
<1> DEFINE S == {j \in DOMAIN instances : instances[j].project = t.key}
<1>1. Collection(t) = [j \in S |-> "here"]
  BY DEF Collection
<1>2. S \ {id} = S
  OBVIOUS
<1> HIDE DEF S
<1>3. MapDelete(Collection(t), {id}) = [j \in S \ {id} |-> "here"]
  BY <1>1 DEF MapDelete, Restrict
<1> QED
  BY <1>1, <1>2, <1>3

LEMMA CollectionsKeep ==
  ASSUME NEW t,
         t.of = "clients" => UNCHANGED instances,
         t.of = "live" => UNCHANGED sessions
  PROVE  Collection(t)' = Collection(t)
BY DEF Collection, RoomsOf

\* A list shows what it shows, and what has no list is not shown.
LEMMA ListedAsIs ==
  ASSUME NEW t
  PROVE  /\ Listed(t, Collection(t)) = Collection(t)
         /\ ~Collected(t) => Collection(t) = <<>> /\ Listed(t, <<>>) = <<>>
<1>1. CASE t.of = "live"
  <2> DEFINE S == {s \in RoomsOf(t.key) : sessions[s].rule # "code"}
             list == [s \in S |-> View(sessions[s])]
  <2>1. Collection(t) = list
    BY <1>1 DEF Collection
  <2>2. DOMAIN list = S /\ \A s \in S : list[s] = View(sessions[s]) /\ list[s].rule # "code"
    BY DEF View
  <2>3. {s \in DOMAIN list : list[s].rule # "code"} = S
    BY <2>2
  <2>4. Listed(t, list) = [s \in S |-> list[s]]
    BY <1>1, <2>3 DEF Listed, Restrict
  <2>5. [s \in S |-> list[s]] = list
    OBVIOUS
  <2> QED
    BY <1>1, <2>1, <2>4, <2>5 DEF Collected
<1>2. CASE t.of # "live"
  BY <1>2 DEF Listed, Collection, Collected
<1> QED
  BY <1>1, <1>2

-----------------------------------------------------------------------------
(* The events.                                                             *)

LEMMA RoomEvents ==
  /\ \A r, room, view : Applied(view, Opened(r, room)) = MapSet(view, r, View(room))
  /\ \A r, room, view : Applied(view, Changed(r, room)) = MapSet(view, r, View(room))
  /\ \A r, room, view : Applied(view, Closed(r, room)) = MapDelete(view, {r})
  /\ \A r, room, view : Applied(view, Requested(r, room)) = view
  /\ \A r, room, view : Applied(view, RequestRefused(r, room)) = view
BY DEF Applied, Opened, Changed, Closed, Requested, RequestRefused, Publish

LEMMA ClientEvents ==
  ASSUME NEW id, NEW p, NEW view
  PROVE  /\ Applied(view, ClientHere(id, p)) = MapSet(view, id, "here")
         /\ Applied(view, ClientGone(id, p)) = MapDelete(view, {id})
BY DEF Applied, ClientHere, ClientGone, Publish

LEMMA SetMoves ==
  ASSUME NEW r, NEW room, sessions' = MapSet(sessions, r, room),
         r \in DOMAIN sessions => sessions[r].project = room.project,
         NEW t, t = LiveTopic(room.project)
  PROVE  Moves(t, Opened(r, room)) /\ Moves(t, Changed(r, room))
<1>1. t.of = "live" /\ t.key = room.project
  BY TopicsOf
<1>2. Collection(t)' = IF room.rule = "code" THEN MapDelete(Collection(t), {r})
                       ELSE MapSet(Collection(t), r, View(room))
  BY <1>1, LiveSet
<1>3. View(room).rule = room.rule
  BY DEF View
<1>4. PICK value, now : value = View(room) /\ now = Collection(t)'
  OBVIOUS
<1>5. ASSUME NEW view, Listed(t, view) = Collection(t)
      PROVE  Listed(t, MapSet(view, r, value)) = now
  BY <1>1, <1>2, <1>3, <1>4, <1>5, ListedSet
<1>6. ASSUME NEW view, Listed(t, view) = Collection(t)
      PROVE  /\ Listed(t, Applied(view, Opened(r, room))) = now
             /\ Listed(t, Applied(view, Changed(r, room))) = now
  BY <1>4, <1>5, <1>6, RoomEvents
<1> QED
  BY <1>4, <1>6 DEF Moves

LEMMA DeleteMoves ==
  ASSUME NEW r, NEW room, sessions' = MapDelete(sessions, {r}),
         r \in DOMAIN sessions => sessions[r].project = room.project,
         NEW t, t = LiveTopic(room.project)
  PROVE  Moves(t, Closed(r, room))
<1>1. t.of = "live" /\ t.key = room.project
  BY TopicsOf
<1>2. Collection(t)' = MapDelete(Collection(t), {r})
  BY <1>1, LiveDelete
<1>4. PICK now : now = Collection(t)'
  OBVIOUS
<1>3. ASSUME NEW view, Listed(t, view) = Collection(t)
      PROVE  Listed(t, MapDelete(view, {r})) = now
  <2>1. Listed(t, MapDelete(view, {r})) = MapDelete(Listed(t, view), {r})
    BY <1>1, ListedDelete
  <2> QED
    BY <2>1, <1>2, <1>3, <1>4
<1>5. ASSUME NEW view, Listed(t, view) = Collection(t)
      PROVE  Listed(t, Applied(view, Closed(r, room))) = now
  BY <1>3, <1>5, RoomEvents
<1> QED
  BY <1>4, <1>5 DEF Moves

\* A window that is gone from a list, and one that is there.
LEMMA GoneMoves ==
  ASSUME NEW t, t.of = "clients", NEW id, Collection(t)' = MapDelete(Collection(t), {id}), NEW p
  PROVE  Moves(t, ClientGone(id, p))
<1>1. PICK now : now = Collection(t)'
  OBVIOUS
<1>2. ASSUME NEW view, Listed(t, view) = Collection(t)
      PROVE  Listed(t, Applied(view, ClientGone(id, p))) = now
  BY <1>1, <1>2, ClientEvents DEF Listed
<1> QED
  BY <1>1, <1>2 DEF Moves

LEMMA HereMoves ==
  ASSUME NEW t, t.of = "clients", NEW id, Collection(t)' = MapSet(Collection(t), id, "here"), NEW p
  PROVE  Moves(t, ClientHere(id, p))
<1>1. PICK now : now = Collection(t)'
  OBVIOUS
<1>2. ASSUME NEW view, Listed(t, view) = Collection(t)
      PROVE  Listed(t, Applied(view, ClientHere(id, p))) = now
  BY <1>1, <1>2, ClientEvents DEF Listed
<1> QED
  BY <1>1, <1>2 DEF Moves

-----------------------------------------------------------------------------
(* The steps that tell nothing new.                                        *)

LEMMA PublishTells ==
  ASSUME NEW topic, NEW kind, NEW key, NEW value, NEW f, f = Publish(topic, kind, key, value)
  PROVE  /\ f.at = "publish" /\ f.kind = kind /\ EventOf(f) = f /\ TellsSomething(f)
         /\ \A t : Tells(f, t) <=> topic = t
<1>1. f.at = "publish" /\ f.kind = kind /\ f.topic = topic
  BY DEF Publish
<1> QED
  BY <1>1 DEF EventOf, TellsSomething, Tells

LEMMA KeepSame ==
  ASSUME DInv, KeepInv, UNCHANGED <<instances, byConnection, sessions, stack, copy>>
  PROVE  KeepInv'
<1>1. Calling' = Calling
  BY DEF Calling
<1>2. SlowAreBare' /\ CalmCalls'
  BY <1>1 DEF KeepInv, SlowAreBare, CalmCalls, CalmFrame
<1>3. \A t : SameTold(t) /\ Collection(t)' = Collection(t)
  BY <1>1, SameCalls, CollectionsKeep
<1>4. CopiesRight'
  BY <1>3, CopiesStay DEF KeepInv, CopiesKept
<1> QED
  BY <1>2, <1>4 DEF KeepInv

\* What is at the top returns.
LEMMA Pops ==
  ASSUME DInv, CalmCalls, stack # <<>>, stack' = Below, UNCHANGED sessions
  PROVE  CalmCalls' /\ Calling' = ToSet(Below)
<1>1. Calling' = ToSet(Below)
  BY DEF Calling
<1> QED
  BY <1>1, CalmTop DEF CalmCalls, CalmFrame

LEMMA PopKeeps ==
  ASSUME DInv, KeepInv, stack # <<>>, stack' = Below, ~TellsSomething(Top), CopiesKept,
         UNCHANGED <<instances, byConnection, sessions>>
  PROVE  KeepInv'
<1>1. CalmCalls' /\ Calling' = ToSet(Below) /\ Calling = {Top} \cup ToSet(Below)
  BY Pops, CalmTop DEF KeepInv
<1>2. SlowAreBare'
  BY DEF KeepInv, SlowAreBare
<1>3. ASSUME NEW t
      PROVE  SameTold(t) /\ Collection(t)' = Collection(t)
  <2>1. ~Tells(Top, t)
    BY DEF Tells
  <2> QED
    BY <1>1, <2>1, SameCalls, CollectionsKeep
<1>4. CopiesRight'
  BY <1>3, CopiesStay DEF KeepInv
<1> QED
  BY <1>1, <1>2, <1>4 DEF KeepInv

\* A frame that tells nothing takes the place of nothing.
LEMMA PublishElsewhereKeeps ==
  ASSUME DInv, KeepInv, PublishElsewhere
  PROVE  KeepInv'
<1>1. /\ UNCHANGED <<instances, byConnection, sessions, copy>>
      /\ stack' = <<AdminChanged>> /\ Calling = {}
  BY IdleFacts DEF PublishElsewhere, presence
<1>2. PICK f : f = AdminChanged
  OBVIOUS
<1>3. /\ f.at = "publish" /\ f.kind = "users-changed" /\ EventOf(f) = f /\ TellsSomething(f)
      /\ \A t : Tells(f, t) <=> AdminTopic = t
  BY <1>2, PublishTells DEF AdminChanged
<1>4. Stacked(<<>>) /\ <<f>> \o <<>> = <<f>>
  BY NothingStacked
<1>5. CalmFrame(f)'
  BY <1>3 DEF CalmFrame
<1>6. CalmCalls' /\ Calling' = {f}
  <2>1. stack' = <<f>> \o <<>> /\ ToSet(<<>>) = {}
    BY <1>1, <1>2, <1>4, NothingStacked
  <2> QED
    BY <1>4, <1>5, <2>1, CalmNothing, CalmPushed
<1>7. ASSUME NEW t \in Topics, Collected(t)
      PROVE  SameTold(t) /\ Collection(t)' = Collection(t)
  <2>1. ~Tells(f, t)
    BY <1>3, <1>7, TopicsOf DEF Collected
  <2> QED
    BY <1>1, <1>6, <2>1, SameCalls, CollectionsKeep
<1>8. CopiesRight'
  BY <1>1, <1>7, CopiesStay DEF KeepInv, CopiesKept
<1> QED
  BY <1>1, <1>6, <1>8 DEF KeepInv, SlowAreBare

\* One client reads a collection while nothing is on its way.
LEMMA ReadKeeps ==
  ASSUME DInv, KeepInv, Calling' = {}, Calm(stack'),
         \A f \in Calling : ~TellsSomething(f),
         UNCHANGED <<instances, byConnection, sessions>>,
         NEW c \in Connections, NEW t \in Topics, NEW last,
         copy' = [copy EXCEPT ![c] = MapSet(@, t, [last |-> last, view |-> Collection(t)])]
  PROVE  KeepInv'
<1>1. CalmCalls' /\ SlowAreBare'
  BY DEF KeepInv, CalmCalls, SlowAreBare
<1>2. PICK held : held = [last |-> last, view |-> Collection(t)]
  OBVIOUS
<1>3. copy = [d \in Connections |-> copy[d]]
  BY DInvParts DEF DTyped
<1>4. /\ copy'[c] = MapSet(copy[c], t, held)
      /\ \A d \in Connections : d # c => copy'[d] = copy[d]
  BY <1>2, <1>3
<1>5. held.view = Collection(t)
  BY <1>2
<1>7. /\ DOMAIN copy'[c] = DOMAIN copy[c] \cup {t} /\ copy'[c][t] = held
      /\ \A s \in DOMAIN copy[c] : s # t => copy'[c][s] = copy[c][s]
  <2>1. PICK all, now : all = copy[c] /\ now = MapSet(all, t, held)
    OBVIOUS
  <2>2. /\ DOMAIN now = DOMAIN all \cup {t} /\ now[t] = held
        /\ \A s \in DOMAIN all : s # t => now[s] = all[s]
    BY <2>1 DEF MapSet
  <2> QED
    BY <1>4, <2>1, <2>2
<1>6. ASSUME NEW d \in Connections, NEW s \in DOMAIN copy'[d]
      PROVE  CopyRight(d, s)'
  <2>1. CASE d = c /\ s = t
    <3>1. copy'[d][s] = held
      BY <1>7, <2>1
    <3>2. Collection(s)' = Collection(s)
      BY CollectionsKeep
    <3>3. Listed(s, held.view) = Collection(s)
      BY <1>5, <2>1, ListedAsIs
    <3>4. CASE Collected(s)
      BY <3>1, <3>2, <3>3, <3>4 DEF CopyRight, RightOf
    <3>5. CASE ~Collected(s)
      <4>1. held.view = <<>>
        BY <1>5, <2>1, <3>5, ListedAsIs
      <4> QED
        BY <3>1, <3>5, <4>1 DEF CopyRight
    <3> QED
      BY <3>4, <3>5
  <2>2. CASE ~(d = c /\ s = t)
    <3>1. s \in DOMAIN copy[d] /\ copy'[d][s] = copy[d][s]
      BY <1>4, <1>7, <2>2
    <3>2. CopyRight(d, s)
      BY <3>1 DEF KeepInv, CopiesRight
    <3>3. CASE Collected(s)
      <4>1. SameTold(s) /\ Collection(s)' = Collection(s)
        <5>1. \A f \in Calling : ~Tells(f, s)
          BY DEF Tells
        <5> QED
          BY <5>1, SameCalls, CollectionsKeep
      <4>2. RightOf(d, s)
        BY <3>2, <3>3 DEF CopyRight
      <4>3. RightOf(d, s)'
        BY <3>1, <4>1, <4>2, StaysRight DEF SameTold
      <4> QED
        BY <3>3, <4>3 DEF CopyRight
    <3>4. CASE ~Collected(s)
      BY <3>1, <3>2, <3>4 DEF CopyRight
    <3> QED
      BY <3>3, <3>4
  <2> QED
    BY <2>1, <2>2
<1> QED
  BY <1>1, <1>6 DEF KeepInv, CopiesRight

LEMMA ReadAgainKeeps ==
  ASSUME DInv, KeepInv, NEW c \in Connections, NEW t \in Topics, ReadAgain(c, t)
  PROVE  KeepInv'
<1>1. /\ Calling = {} /\ stack' = stack
      /\ UNCHANGED <<instances, byConnection, sessions>>
      /\ copy' = [copy EXCEPT ![c] =
                    MapSet(@, t, [last |-> sequences[t], view |-> Collection(t)])]
  BY IdleFacts DEF ReadAgain, presence
<1>2. Calling' = {} /\ Calm(stack')
  BY <1>1 DEF KeepInv, CalmCalls, Calling
<1> QED
  BY <1>1, <1>2, ReadKeeps

LEMMA HandleSubscribeKeeps ==
  ASSUME DInv, KeepInv, HandleSubscribe
  PROVE  KeepInv'
<1>1. /\ At("handle") /\ Top.at = "handle" /\ stack # <<>> /\ stack' = Below
      /\ UNCHANGED <<instances, byConnection, sessions>>
  BY DEF HandleSubscribe, At, Idle, presence
<1>2. /\ Calling = {Top} /\ Below = <<>> /\ ~TellsSomething(Top)
      /\ Top.connection \in Connections
      /\ Top.call.method = "subscribe" => Top.call.topic \in Topics
  BY <1>1, TopFacts, CallingFacts, CallFacts DEF TellsSomething
<1>3. Calling' = {} /\ Calm(stack')
  BY <1>1, <1>2, CalmNothing, NothingStacked DEF Calling
<1>4. CASE status[Top.connection] = "over"
  <2>1. copy' = copy
    BY <1>4 DEF HandleSubscribe
  <2> QED
    BY <1>1, <1>2, <2>1, PopKeeps DEF CopiesKept
<1>5. CASE status[Top.connection] # "over"
  <2>1. PICK c \in Connections, t \in Topics : c = Top.connection /\ t = Top.call.topic
    BY <1>2 DEF HandleSubscribe
  <2>2. copy' = [copy EXCEPT ![c] =
                   MapSet(@, t, [last |-> sequences[t], view |-> Collection(t)])]
    BY <1>5, <2>1 DEF HandleSubscribe
  <2> QED
    BY <1>1, <1>2, <1>3, <2>2, ReadKeeps
<1> QED
  BY <1>4, <1>5

LEMMA HandleUnsubscribeKeeps ==
  ASSUME DInv, KeepInv, HandleUnsubscribe
  PROVE  KeepInv'
<1>1. /\ At("handle") /\ Top.at = "handle" /\ stack # <<>> /\ stack' = Below
      /\ UNCHANGED <<instances, byConnection, sessions>>
      /\ copy' = [copy EXCEPT ![Top.connection] = MapDelete(@, {Top.call.topic})]
  BY DEF HandleUnsubscribe, At, Idle, presence
<1>2. ~TellsSomething(Top) /\ Top.connection \in Connections
  BY <1>1, CallingFacts DEF TellsSomething
<1>3. copy = [d \in Connections |-> copy[d]]
  BY DInvParts DEF DTyped
<1>5. PICK c \in Connections : c = Top.connection
  BY <1>2
<1>9. PICK gone : gone = {Top.call.topic}
  OBVIOUS
<1>6. PICK all, now : all = copy[c] /\ now = MapDelete(all, gone)
  OBVIOUS
<1>7. /\ copy[c] = all /\ copy'[c] = now
      /\ \A d \in Connections : d # c => copy'[d] = copy[d]
  BY <1>1, <1>3, <1>5, <1>6, <1>9
<1>8. DOMAIN now = DOMAIN all \ gone /\ \A t \in DOMAIN all \ gone : now[t] = all[t]
  BY <1>6 DEF MapDelete, Restrict
<1>4. CopiesKept
  BY <1>7, <1>8 DEF CopiesKept
<1> QED
  BY <1>1, <1>2, <1>4, PopKeeps

LEMMA ReturnKeeps ==
  ASSUME DInv, KeepInv, Refuse \/ DropDone \/ Forget
  PROVE  KeepInv'
<1>1. /\ stack # <<>> /\ Top.at \in {"handle", "drop", "forget"} /\ stack' = Below
      /\ UNCHANGED <<instances, byConnection, sessions, copy>>
  BY DEF Refuse, DropDone, Forget, At, Idle, presence
<1>2. ~TellsSomething(Top) /\ CopiesKept
  BY <1>1 DEF TellsSomething, CopiesKept
<1> QED
  BY <1>1, <1>2, PopKeeps

-----------------------------------------------------------------------------
(* A session ends, and what it carried is dropped.                         *)

LEMMA ClosesCalmly ==
  ASSUME DInv, KeepInv, NEW c \in Connections, NEW below, CloseSession(c, below),
         Stacked(below), Calm(below), \A g \in ToSet(below) : CalmFrame(g),
         below = <<>> \/ byConnection[c] = <<>>
  PROVE  /\ SlowAreBare' /\ CalmCalls' /\ UNCHANGED <<instances, sessions>>
         /\ ToSet(below) \subseteq Calling'
         /\ \A g \in Calling' : g \in ToSet(below) \/ g.at = "drop"
<1>1. PICK ids : ids = byConnection[c]
  OBVIOUS
<1>2. PICK f : f = [at |-> "drop", connection |-> c, ids |-> ids]
  OBVIOUS
<1>3. f.at = "drop" /\ f.ids = ids
  BY <1>2
<1>4. /\ byConnection' = [byConnection EXCEPT ![c] = <<>>]
      /\ stack' = <<f>> \o below
      /\ UNCHANGED <<instances, sessions>>
  BY <1>1, <1>2 DEF CloseSession
<1>5. ~TellsSomething(f) /\ CalmFrame(f)' /\ \A g \in ToSet(below) : CalmFrame(g)'
  BY <1>3, <1>4 DEF TellsSomething, CalmFrame
<1>6. Fits(f, below)
  BY <1>1, <1>3, <1>5 DEF Fits, Tells
<1>7. CalmCalls' /\ Calling' = {f} \cup ToSet(below)
  BY <1>4, <1>5, <1>6, CalmPushed
<1>8. SlowAreBare'
  <2>1. byConnection \in [Connections -> Seq(Instances)]
    BY DInvParts DEF DTyped, TypeOK
  <2> QED
    BY <1>4, <2>1, DeliveryAssumption DEF KeepInv, SlowAreBare
<1> QED
  BY <1>3, <1>4, <1>7, <1>8

\* What is told by nobody is told by nobody still.
LEMMA NothingTold ==
  ASSUME DInv, KeepInv, CopiesKept, UNCHANGED <<instances, sessions>>,
         \A f \in Calling : ~TellsSomething(f), \A f \in Calling' : ~TellsSomething(f)
  PROVE  CopiesRight'
<1>1. ASSUME NEW t
      PROVE  SameTold(t) /\ Collection(t)' = Collection(t)
  BY SameCalls, CollectionsKeep DEF Tells
<1> QED
  BY <1>1, CopiesStay DEF KeepInv

LEMMA ClosesKeep ==
  ASSUME DInv, KeepInv, Idle, NEW c \in Connections, NEW below, CloseSession(c, below),
         copy' = [copy EXCEPT ![c] = <<>>],
         Stacked(below), Calm(below),
         \A g \in ToSet(below) : CalmFrame(g) /\ g.at = "handle",
         below = <<>> \/ byConnection[c] = <<>>
  PROVE  KeepInv'
<1>1. /\ SlowAreBare' /\ CalmCalls' /\ UNCHANGED <<instances, sessions>>
      /\ \A g \in Calling' : g.at \in {"handle", "drop"}
  BY ClosesCalmly
<1>2. copy = [d \in Connections |-> copy[d]]
  BY DInvParts DEF DTyped
<1>3. DOMAIN copy'[c] = {} /\ \A d \in Connections : d # c => copy'[d] = copy[d]
  BY <1>2
<1>4. CopiesKept
  BY <1>3 DEF CopiesKept
<1>5. /\ \A f \in Calling : ~TellsSomething(f)
      /\ \A f \in Calling' : ~TellsSomething(f)
  BY <1>1, IdleFacts DEF TellsSomething
<1>6. CopiesRight'
  BY <1>1, <1>4, <1>5, NothingTold
<1> QED
  BY <1>1, <1>6 DEF KeepInv

LEMMA CloseKeeps ==
  ASSUME DInv, KeepInv, NEW c \in Connections, Close(c)
  PROVE  KeepInv'
<1>1. /\ Idle /\ CloseSession(c, <<>>) /\ copy' = [copy EXCEPT ![c] = <<>>]
      /\ Stacked(<<>>) /\ Calm(<<>>) /\ \A g \in ToSet(<<>>) : FALSE
  BY CalmNothing, NothingStacked DEF Close
<1> QED
  BY <1>1, ClosesKeep

LEMMA IdentifyKeeps ==
  ASSUME DInv, KeepInv, Idle, NEW c \in Connections, NEW below, Identify(c, below),
         Stacked(below), Calm(below),
         \A g \in ToSet(below) : CalmFrame(g) /\ g.at = "handle"
  PROVE  KeepInv'
<1>1. CASE c \in SlowPeers /\ CloseSession(c, below) /\ copy' = [copy EXCEPT ![c] = <<>>]
  <2>1. byConnection[c] = <<>>
    BY <1>1 DEF KeepInv, SlowAreBare
  <2> QED
    BY <1>1, <2>1, ClosesKeep
<1>2. CASE /\ stack' = below /\ UNCHANGED <<instances, byConnection, sessions>>
           /\ copy' = copy \/ copy' = [copy EXCEPT ![c] = MapDelete(@, {AdminTopic})]
  <2>1. Calling' = ToSet(below)
    BY <1>2 DEF Calling
  <2>2. CalmCalls' /\ SlowAreBare'
    BY <1>2, <2>1 DEF KeepInv, CalmCalls, CalmFrame, SlowAreBare
  <2>3. CopiesKept
    <3>1. CASE copy' = copy
      BY <3>1 DEF CopiesKept
    <3>2. CASE copy' = [copy EXCEPT ![c] = MapDelete(@, {AdminTopic})]
      <4>1. PICK gone : gone = {AdminTopic}
        OBVIOUS
      <4>2. PICK all, now : all = copy[c] /\ now = MapDelete(all, gone)
        OBVIOUS
      <4>3. copy = [d \in Connections |-> copy[d]]
        BY DInvParts DEF DTyped
      <4>4. /\ copy[c] = all /\ copy'[c] = now
            /\ \A d \in Connections : d # c => copy'[d] = copy[d]
        BY <3>2, <4>1, <4>2, <4>3
      <4>5. DOMAIN now = DOMAIN all \ gone /\ \A t \in DOMAIN all \ gone : now[t] = all[t]
        BY <4>2 DEF MapDelete, Restrict
      <4> QED
        BY <4>4, <4>5 DEF CopiesKept
    <3> QED
      BY <1>2, <3>1, <3>2
  <2>4. /\ \A f \in Calling : ~TellsSomething(f)
        /\ \A f \in Calling' : ~TellsSomething(f)
    BY <2>1, IdleFacts DEF TellsSomething
  <2>5. CopiesRight'
    BY <1>2, <2>3, <2>4, NothingTold
  <2> QED
    BY <2>2, <2>5 DEF KeepInv
<1> QED
  BY <1>1, <1>2 DEF Identify, presence

LEMMA RevalidateKeeps ==
  ASSUME DInv, KeepInv, NEW c \in Connections, Revalidate(c)
  PROVE  KeepInv'
<1>1. /\ Idle /\ Identify(c, <<>>)
      /\ Stacked(<<>>) /\ Calm(<<>>) /\ \A g \in ToSet(<<>>) : FALSE
  BY CalmNothing, NothingStacked DEF Revalidate
<1> QED
  BY <1>1, IdentifyKeeps

LEMMA ReceiveKeeps ==
  ASSUME DInv, KeepInv, NEW c \in Connections, NEW call \in Sends[c], Receive(c, call)
  PROVE  KeepInv'
<1>1. PICK f : f = [at |-> "handle", connection |-> c, call |-> call]
  OBVIOUS
<1>2. /\ f.at = "handle" /\ f.connection = c /\ f.call = call
      /\ f = [at |-> "handle", connection |-> f.connection, call |-> f.call]
  BY <1>1
<1>3. call \in Calls
  BY SendsAssumption
<1>4. FrameOK(f) /\ CalmFrame(f) /\ ~TellsSomething(f)
  BY <1>2, <1>3 DEF FrameOK, CalmFrame, TellsSomething
<1>5. Stacked(<<f>>) /\ ToSet(<<f>>) = {f} /\ Calm(<<f>>)
  <2>1. <<f>> \o <<>> = <<f>>
    OBVIOUS
  <2>2. /\ Stacked(<<f>> \o <<>>) /\ ToSet(<<f>> \o <<>>) = {f} \cup ToSet(<<>>)
        /\ Calm(<<f>> \o <<>>)
    BY <1>4, Pushed, NothingStacked, CalmFits, CalmNothing
  <2> QED
    BY <2>1, <2>2, NothingStacked
<1>6. /\ Idle
      /\ \/ Identify(c, <<f>>)
         \/ stack' = <<f>> /\ UNCHANGED <<instances, byConnection, sessions, copy>>
  BY <1>1 DEF Receive, presence
<1>7. CASE Identify(c, <<f>>)
  BY <1>2, <1>4, <1>5, <1>6, <1>7, IdentifyKeeps
<1>8. CASE stack' = <<f>> /\ UNCHANGED <<instances, byConnection, sessions, copy>>
  <2>1. Calling = {} /\ Calling' = {f}
    BY <1>5, <1>6, <1>8, IdleFacts DEF Calling
  <2>2. CalmCalls' /\ SlowAreBare'
    BY <1>4, <1>5, <1>8, <2>1 DEF KeepInv, CalmCalls, CalmFrame, SlowAreBare
  <2>3. CopiesRight'
    BY <1>4, <1>8, <2>1, NothingTold DEF CopiesKept
  <2> QED
    BY <2>2, <2>3 DEF KeepInv
<1> QED
  BY <1>6, <1>7, <1>8

\* A retire tells that its instance is gone, once it is through with the rooms.
LEMMA RetireTells ==
  ASSUME NEW f, f.at = "retire"
  PROVE  /\ EventOf(f) = ClientGone(f.id, f.project)
         /\ EventOf(f).topic = ClientsTopic(f.project)
         /\ \A t : Tells(f, t) <=> f.project # NoProject /\ ClientsTopic(f.project) = t
<1>1. EventOf(f) = ClientGone(f.id, f.project)
  BY DEF EventOf
<1>2. ClientGone(f.id, f.project).topic = ClientsTopic(f.project)
  BY DEF ClientGone, Publish
<1> QED
  BY <1>1, <1>2 DEF Tells, TellsSomething

\* One instance is taken out of the Map and is retired.
LEMMA RetireBegins ==
  ASSUME DInv, KeepInv, NEW id \in DOMAIN instances, instances' = MapDelete(instances, {id}),
         UNCHANGED <<sessions, copy>>, \A f \in Calling : ~TellsSomething(f),
         NEW f \in Calling', f = Retire(id),
         \A g \in Calling' : g = f \/ ~TellsSomething(g)
  PROVE  CopiesRight'
<1>1. PICK p : p = instances[id].project
  OBVIOUS
<1>2. f.at = "retire" /\ f.id = id /\ f.project = p
  BY <1>1 DEF Retire
<1>3. /\ EventOf(f) = ClientGone(id, p)
      /\ \A t : Tells(f, t) <=> p # NoProject /\ ClientsTopic(p) = t
  BY <1>2, RetireTells
<1>4. /\ \A g \in Calling : \A t : ~Tells(g, t)
      /\ \A g \in Calling' : \A t : Tells(g, t) => g = f
  BY DEF Tells
<1>5. ASSUME NEW t \in Topics, Collected(t)
      PROVE  (SameTold(t) /\ Collection(t)' = Collection(t)) \/ NewlyTold(t)
  <2>1. CASE t.of = "clients" /\ t.key = p
    <3>1. t = ClientsTopic(p) /\ p # NoProject
      BY <2>1, TopicsOf, PresenceAssumption
    <3>2. Moves(t, ClientGone(id, p))
      BY <2>1, ClientsDelete, GoneMoves
    <3> QED
      BY <1>2, <1>3, <1>4, <3>1, <3>2 DEF NewlyTold
  <2>2. CASE t.of = "clients" /\ t.key # p
    <3>1. t # ClientsTopic(p)
      BY <2>2, TopicsOf
    <3>2. Collection(t)' = Collection(t)
      <4>1. PICK gone : gone = {id}
        OBVIOUS
      <4>2. Collection(t)' = MapDelete(Collection(t), {id})
        BY <2>2, ClientsDelete
      <4>3. MapDelete(Collection(t), {id}) = Collection(t)
        BY <1>1, <2>2, ClientsWithout
      <4> QED
        BY <4>2, <4>3
    <3>3. SameTold(t)
      BY <1>3, <1>4, <3>1, SameCalls
    <3> QED
      BY <3>2, <3>3
  <2>3. CASE t.of = "live"
    <3>1. t # ClientsTopic(p)
      BY <2>3, TopicsOf
    <3>2. Collection(t)' = Collection(t)
      BY <2>3, CollectionsKeep
    <3>3. SameTold(t)
      BY <1>3, <1>4, <3>1, SameCalls
    <3> QED
      BY <3>2, <3>3
  <2> QED
    BY <1>5, <2>1, <2>2, <2>3 DEF Collected
<1> QED
  BY <1>5, CopiesStay DEF KeepInv, CopiesKept

LEMMA DropNextKeeps ==
  ASSUME DInv, KeepInv, DropNext
  PROVE  KeepInv'
<1>1. /\ stack # <<>> /\ Top.at = "drop" /\ Top.ids # <<>>
      /\ UNCHANGED <<byConnection, sessions, copy>>
  BY DEF DropNext, At, Idle
<1>2. Below = <<>> /\ Calling = {Top} /\ ~TellsSomething(Top) /\ FrameOK(Top)
  <2>1. Below = <<>>
    BY <1>1, CalmTop DEF KeepInv, Fits
  <2> QED
    BY <1>1, <2>1, TopFacts, NothingStacked DEF TellsSomething
<1>3. PICK c, ids : c = Top.connection /\ ids = Top.ids
  OBVIOUS
<1>4. PICK g : g = [at |-> "drop", connection |-> c, ids |-> Tail(ids)]
  OBVIOUS
<1>5. PICK id : id = Head(ids)
  OBVIOUS
<1>6. ids \in Seq(Instances) /\ ids # <<>> /\ c \in Connections /\ Tail(ids) \in Seq(Instances)
  <2>1. ids \in Seq(Instances) /\ ids # <<>> /\ c \in Connections
    BY <1>1, <1>2, <1>3 DEF FrameOK
  <2> QED
    BY <2>1, HeadTailProperties
<1>7. /\ g.at = "drop" /\ g.connection = c /\ g.ids = Tail(ids)
      /\ g = [at |-> "drop", connection |-> g.connection, ids |-> g.ids]
  BY <1>4
<1>8. FrameOK(g) /\ CalmFrame(g)' /\ ~TellsSomething(g)
  BY <1>6, <1>7 DEF FrameOK, CalmFrame, TellsSomething
<1>9. PICK below : below = <<g>> \o <<>>
  OBVIOUS
<1>10. Stacked(below) /\ Calm(below) /\ ToSet(below) = {g}
  <2>1. Stacked(<<>>) /\ Calm(<<>>) /\ Fits(g, <<>>) /\ ToSet(<<>>) = {}
    BY NothingStacked, CalmNothing
  <2>2. Stacked(<<g>> \o <<>>) /\ ToSet(<<g>> \o <<>>) = {g} \cup ToSet(<<>>)
    BY <1>8, <2>1, Pushed
  <2>3. Calm(<<g>> \o <<>>)
    BY <2>1, CalmFits
  <2> QED
    BY <1>9, <2>1, <2>2, <2>3
<1>11. \/ /\ id \in DOMAIN instances /\ instances' = MapDelete(instances, {id})
          /\ stack' = <<Retire(id)>> \o below
       \/ instances' = instances /\ stack' = below
  BY <1>2, <1>3, <1>4, <1>5, <1>9 DEF DropNext
<1>12. SlowAreBare'
  BY <1>1 DEF KeepInv, SlowAreBare
<1>13. CASE /\ id \in DOMAIN instances /\ instances' = MapDelete(instances, {id})
            /\ stack' = <<Retire(id)>> \o below
  <2>1. PICK f : f = Retire(id)
    OBVIOUS
  <2>2. f.at = "retire" /\ f.rooms \subseteq DOMAIN sessions
    BY <2>1 DEF Retire
  <2>3. CalmFrame(f)'
    <3>1. Collected(EventOf(f).topic)
      BY <2>2, RetireTells, TopicsOf DEF Collected
    <3> QED
      BY <1>1, <2>2, <3>1 DEF CalmFrame
  <2>4. Fits(f, below)
    BY <1>7, <1>8, <1>10, <2>2 DEF Fits, Tells
  <2>5. CalmCalls' /\ Calling' = {f, g}
    <3>1. stack' = <<f>> \o below
      BY <1>13, <2>1
    <3> QED
      BY <1>8, <1>10, <2>3, <2>4, <3>1, CalmPushed
  <2>6. CopiesRight'
    <3>1. f \in Calling' /\ \A h \in Calling' : h = f \/ ~TellsSomething(h)
      BY <1>8, <2>5
    <3>2. \A h \in Calling : ~TellsSomething(h)
      BY <1>2
    <3> QED
      BY <1>1, <1>13, <2>1, <3>1, <3>2, RetireBegins
  <2> QED
    BY <1>12, <2>5, <2>6 DEF KeepInv
<1>14. CASE instances' = instances /\ stack' = below
  <2>1. Calling' = {g} /\ CalmCalls'
    BY <1>8, <1>10, <1>14 DEF Calling, CalmCalls
  <2>2. CopiesRight'
    BY <1>1, <1>2, <1>8, <1>14, <2>1, NothingTold DEF CopiesKept
  <2> QED
    BY <1>12, <2>1, <2>2 DEF KeepInv
<1> QED
  BY <1>11, <1>13, <1>14

\* What a retire has told of its instance it tells when it is through.
LEMMA RetireDoneKeeps ==
  ASSUME DInv, KeepInv, RetireDone
  PROVE  KeepInv'
<1>1. /\ stack # <<>> /\ Top.at = "retire"
      /\ UNCHANGED <<instances, byConnection, sessions, copy>>
  BY DEF RetireDone, At, Idle, presence
<1>2. /\ Fits(Top, Below) /\ Calm(Below) /\ Stacked(Below)
      /\ \A g \in ToSet(Below) : CalmFrame(g) /\ g.at = "drop" /\ ~TellsSomething(g)
      /\ Calling = {Top} \cup ToSet(Below)
  BY <1>1, CalmTop, TopFacts DEF KeepInv, Fits, TellsSomething
<1>3. CASE Top.project = NoProject
  <2>1. stack' = Below
    <3>1. stack' = <<>> \o Below
      BY <1>3 DEF RetireDone
    <3> QED
      BY <1>2, <3>1, ConcatEmptySeq DEF Stacked
  <2>2. ~TellsSomething(Top)
    BY <1>1, <1>3 DEF TellsSomething
  <2> QED
    BY <1>1, <2>1, <2>2, PopKeeps DEF CopiesKept
<1>4. CASE Top.project # NoProject
  <2>1. PICK f : f = ClientGone(Top.id, Top.project)
    OBVIOUS
  <2>2. /\ f.at = "publish" /\ EventOf(f) = f
        /\ \A t : Tells(f, t) <=> ClientsTopic(Top.project) = t
    BY <2>1, PublishTells DEF ClientGone
  <2>3. /\ EventOf(Top) = f /\ EventOf(Top).topic = ClientsTopic(Top.project)
        /\ \A t : Tells(Top, t) <=> Tells(f, t)
    BY <1>1, <1>4, <2>1, <2>2, RetireTells
  <2>4. stack' = <<f>> \o Below
    BY <1>4, <2>1 DEF RetireDone
  <2>5. Fits(f, Below)
    BY <1>2, <2>2 DEF Fits, Tells
  <2>6. CalmFrame(f)' /\ \A g \in ToSet(Below) : CalmFrame(g)'
    <3>1. Collected(EventOf(f).topic)
      BY <2>2, <2>3, TopicsOf DEF Collected
    <3> QED
      BY <1>1, <1>2, <2>2, <3>1 DEF CalmFrame
  <2>7. CalmCalls' /\ Calling' = {f} \cup ToSet(Below)
    BY <1>2, <2>4, <2>5, <2>6, CalmPushed
  <2>8. ASSUME NEW t
        PROVE  SameTold(t) /\ Collection(t)' = Collection(t)
    <3>1. Alike(Top, f)
      BY <2>2, <2>3 DEF Alike
    <3>2. \A c : Comes(Top, c, t) <=> Comes(f, c, t)
      BY <1>1, <2>2, <2>3 DEF Comes
    <3>3. \A g \in ToSet(Below) : \A c : ~Comes(g, c, t)
      BY <1>2 DEF Comes, Tells
    <3>4. SameTold(t)
      BY <1>2, <2>7, <3>1, <3>2, <3>3 DEF SameTold, SameToldTo
    <3> QED
      BY <1>1, <3>4, CollectionsKeep
  <2>9. CopiesRight'
    BY <1>1, <2>8, CopiesStay DEF KeepInv, CopiesKept
  <2> QED
    BY <1>1, <2>7, <2>9 DEF KeepInv, SlowAreBare
<1> QED
  BY <1>3, <1>4

\* A copy is in step with all that was told when nothing of its topic is being told.
LEMMA NothingToHear ==
  ASSUME DInv, NEW c \in Connections, NEW t \in DOMAIN copy[c], t.of # "room",
         \A f \in Calling : f.at = "deliver" => f.event.topic # t
  PROVE  copy[c][t].last = sequences[t]
<1>1. CopyOK(c, t) /\ t \in Topics
  BY CopyFacts, DInvParts DEF HearInv
<1>2. \A s : ~ToHear(c, t, s)
  BY DEF ToHear
<1>3. PICK m, n : m = copy[c][t].last /\ n = sequences[t]
  OBVIOUS
<1>4. m \in Nat /\ n \in Nat /\ m <= n /\ ~(n \in m + 1 .. n)
  BY <1>1, <1>2, <1>3, CopyFacts DEF CopyOK
<1>5. m = n
  BY <1>4
<1> QED
  BY <1>3, <1>5

LEMMA BeginPublishKeeps ==
  ASSUME DInv, KeepInv, BeginPublish
  PROVE  KeepInv'
<1>1. /\ stack # <<>> /\ Top.at = "publish"
      /\ UNCHANGED <<instances, byConnection, sessions, copy>>
  BY DEF BeginPublish, At, Idle, presence
<1>2. /\ Fits(Top, Below) /\ Calm(Below) /\ Stacked(Below) /\ CalmFrame(Top)
      /\ \A g \in ToSet(Below) : CalmFrame(g)
      /\ Calling = {Top} \cup ToSet(Below) /\ Top.topic \in Topics
  BY <1>1, CalmTop, TopFacts DEF KeepInv, FrameOK
<1>3. PICK topic \in Topics : topic = Top.topic
  BY <1>2
<1>4. PICK seq : seq = sequences[topic] + 1
  OBVIOUS
<1>5. PICK f : f = [at |-> "deliver", event |-> Top, seq |-> seq, to |-> hub]
  OBVIOUS
<1>6. f.at = "deliver" /\ f.event = Top /\ f.seq = seq /\ f.to = hub
  BY <1>5
<1>7. stack' = <<f>> \o Below
  <2>1. sequences' = [sequences EXCEPT ![topic] = @ + 1]
    BY <1>3 DEF BeginPublish
  <2>2. sequences'[topic] = seq
    BY <1>3, <1>4, <2>1, DInvParts DEF DTyped
  <2> QED
    BY <1>3, <1>5, <2>2 DEF BeginPublish
<1>8. /\ EventOf(Top) = Top /\ EventOf(f) = Top
      /\ \A t : Tells(f, t) <=> topic = t
      /\ \A t : Tells(Top, t) <=> topic = t
  BY <1>1, <1>3, <1>6 DEF EventOf, Tells, TellsSomething
<1>9. Fits(f, Below)
  BY <1>2, <1>6, <1>8 DEF Fits
<1>10. CalmFrame(f)' /\ \A g \in ToSet(Below) : CalmFrame(g)'
  <2>1. IsInjective(hub)
    BY DInvParts DEF HubInv
  <2>2. TellsSomething(Top)
    BY <1>1 DEF TellsSomething
  <2> QED
    BY <1>1, <1>2, <1>6, <1>8, <2>1, <2>2 DEF CalmFrame
<1>11. CalmCalls' /\ Calling' = {f} \cup ToSet(Below)
  BY <1>2, <1>7, <1>9, <1>10, CalmPushed
<1>12. ASSUME NEW c \in Connections, NEW t \in DOMAIN copy'[c]
       PROVE  CopyRight(c, t)'
  <2>1. t \in DOMAIN copy[c] /\ t \in Topics /\ c \in ToSet(hub) /\ CopyRight(c, t)
    BY <1>1, CopyFacts DEF KeepInv, CopiesRight
  <2>2. Collection(t)' = Collection(t) /\ copy'[c][t] = copy[c][t]
    BY <1>1, CollectionsKeep
  <2>3. CASE ~Collected(t)
    BY <2>1, <2>2, <2>3 DEF CopyRight
  <2>4. CASE Collected(t) /\ t # topic
    <3>1. SameToldTo(c, t)
      <4>1. \A g \in Calling : Tells(g, t) => g \in Calling'
        BY <1>2, <1>8, <1>11, <2>4
      <4>2. \A g \in Calling' : Tells(g, t) => g \in Calling
        BY <1>2, <1>8, <1>11, <2>4
      <4> QED
        BY <4>1, <4>2, SameCalls DEF SameTold
    <3>2. RightOf(c, t)
      BY <2>1, <2>4 DEF CopyRight
    <3>3. RightOf(c, t)'
      BY <2>1, <2>2, <3>1, <3>2, StaysRight
    <3> QED
      BY <2>4, <3>3 DEF CopyRight
  <2>5. CASE Collected(t) /\ t = topic
    <3>1. Comes(Top, c, t) /\ Comes(f, c, t)
      BY <1>1, <1>6, <1>8, <2>1, <2>5 DEF Comes
    <3>2. Listed(t, Applied(copy[c][t].view, Top)) = Collection(t)
      BY <1>1, <1>8, <2>1, <2>5, <3>1, RightTop
    <3>3. copy[c][t].last = sequences[t]
      <4>1. t.of # "room"
        BY <2>5 DEF Collected
      <4>2. ASSUME NEW g \in Calling, g.at = "deliver", g.event.topic = t
            PROVE  FALSE
        <5>1. Tells(g, t)
          BY <4>2 DEF Tells, TellsSomething, EventOf
        <5>2. g = Top
          BY <1>1, <1>8, <2>1, <2>5, <5>1, OneTells DEF KeepInv
        <5> QED
          BY <1>1, <4>2, <5>2
      <4> QED
        BY <2>1, <4>1, <4>2, NothingToHear
    <3>4. f.seq = copy[c][t].last + 1
      BY <1>4, <1>6, <2>5, <3>3
    <3>5. RightOf(c, t)'
      BY <1>8, <1>11, <2>2, <3>1, <3>2, <3>4 DEF RightOf
    <3> QED
      BY <2>5, <3>5 DEF CopyRight
  <2> QED
    BY <2>3, <2>4, <2>5
<1>13. CopiesRight'
  BY <1>12 DEF CopiesRight
<1> QED
  BY <1>1, <1>11, <1>13 DEF KeepInv, SlowAreBare

-----------------------------------------------------------------------------
(* An event reaches the copies.                                            *)

\* A part of the walk: these were told, these are gone, and these are left.
Walked(told, gone, left) ==
  /\ told \cup left \subseteq ToSet(Top.to) /\ told \cap left = {}
  /\ \A d \in ToSet(Top.to) : d \in Wanting(Top.event.topic) => d \in told \cup gone \cup left
  /\ \A d \in gone : DOMAIN copy'[d] = {}
  /\ \A d \in Connections : d \notin gone =>
       copy'[d] = (IF d \in told THEN Heard(copy[d], Top) ELSE copy[d])
  /\ ToSet(Below) \subseteq Calling'
  /\ \A g \in Calling' : TellsSomething(g) =>
       \/ g \in ToSet(Below)
       \/ g.at = "deliver" /\ g.event = Top.event /\ g.seq = Top.seq /\ ToSet(g.to) = left
  /\ left # {} => \E g \in Calling' :
       g.at = "deliver" /\ g.event = Top.event /\ g.seq = Top.seq /\ ToSet(g.to) = left
  /\ UNCHANGED <<instances, sessions>>

LEMMA HeardView ==
  ASSUME NEW held, NEW f, f.event.topic \in DOMAIN Heard(held, f)
  PROVE  /\ f.seq = held[f.event.topic].last + 1
         /\ Heard(held, f)[f.event.topic].view = Applied(held[f.event.topic].view, f.event)
<1>1. PICK t, value : /\ t = f.event.topic
                      /\ value = [last |-> f.seq, view |-> Applied(held[t].view, f.event)]
  OBVIOUS
<1>2. f.seq = held[t].last + 1 /\ Heard(held, f) = MapSet(held, t, value)
  <2>1. PICK gone : gone = {t}
    OBVIOUS
  <2>2. PICK less : less = MapDelete(held, gone)
    OBVIOUS
  <2>3. t \notin DOMAIN less
    BY <2>1, <2>2 DEF MapDelete, Restrict
  <2>4. Heard(held, f) = IF t \notin DOMAIN held THEN held
                         ELSE IF f.seq = held[t].last + 1 THEN MapSet(held, t, value)
                         ELSE less
    BY <1>1, <2>1, <2>2 DEF Heard
  <2>5. PICK heard : heard = Heard(held, f) /\ t \in DOMAIN heard
    BY <1>1
  <2> QED
    BY ONLY <1>1, <2>3, <2>4, <2>5, Zenon
<1>3. MapSet(held, t, value)[t] = value
  BY DEF MapSet
<1>4. value.view = Applied(held[t].view, f.event)
  BY <1>1
<1> QED
  BY <1>1, <1>2, <1>3, <1>4

LEMMA DeliveredRight ==
  ASSUME DInv, KeepInv, At("deliver"), NEW told, NEW gone, NEW left, Walked(told, gone, left)
  PROVE  CopiesRight'
<1>1. /\ stack # <<>> /\ Top.at = "deliver" /\ Top \in Calling
      /\ Calling = {Top} \cup ToSet(Below)
      /\ Fits(Top, Below) /\ CalmFrame(Top)
  BY CalmTop, TopFacts DEF At, Idle, KeepInv
<1>2. PICK event, topic, seq : event = Top.event /\ topic = event.topic /\ seq = Top.seq
  OBVIOUS
<1>3. /\ EventOf(Top) = event /\ TellsSomething(Top)
      /\ \A t : Tells(Top, t) <=> topic = t
  BY <1>1, <1>2 DEF EventOf, Tells, TellsSomething
<1>4. \A g : g.at = "deliver" /\ g.event = event =>
        EventOf(g) = event /\ \A t : Tells(g, t) <=> topic = t
  BY <1>2 DEF EventOf, Tells, TellsSomething
<1>5. /\ told \cup left \subseteq ToSet(Top.to) /\ told \cap left = {}
      /\ \A d \in ToSet(Top.to) : d \in Wanting(topic) => d \in told \cup gone \cup left
      /\ \A d \in gone : DOMAIN copy'[d] = {}
      /\ \A d \in Connections : d \notin gone =>
           copy'[d] = (IF d \in told THEN Heard(copy[d], Top) ELSE copy[d])
      /\ ToSet(Below) \subseteq Calling' /\ UNCHANGED <<instances, sessions>>
  BY <1>2 DEF Walked
<1>6. \A g \in Calling' : TellsSomething(g) =>
        \/ g \in ToSet(Below)
        \/ g.at = "deliver" /\ g.event = event /\ g.seq = seq /\ ToSet(g.to) = left
  BY <1>2 DEF Walked
<1>7. left # {} => \E g \in Calling' :
        g.at = "deliver" /\ g.event = event /\ g.seq = seq /\ ToSet(g.to) = left
  BY <1>2 DEF Walked
<1>8. ASSUME NEW c \in Connections, NEW t \in DOMAIN copy'[c]
      PROVE  CopyRight(c, t)'
  <2>1. /\ c \notin gone /\ t \in DOMAIN copy[c]
        /\ copy'[c] = (IF c \in told THEN Heard(copy[c], Top) ELSE copy[c])
    BY <1>5, HeardFacts
  <2>2. /\ t \in Topics /\ t \in topics[c] /\ c \in ToSet(hub) /\ CopyRight(c, t)
        /\ Collection(t)' = Collection(t)
    BY <1>5, <2>1, CopyFacts, CollectionsKeep DEF KeepInv, CopiesRight
  <2>3. CASE t # topic
    <3>1. copy'[c][t] = copy[c][t]
      BY <1>2, <2>1, <2>3, HeardFacts
    <3>2. SameTold(t)
      <4>1. \A f \in Calling : Tells(f, t) => f \in Calling'
        BY <1>1, <1>3, <1>5, <2>3
      <4>2. \A g \in Calling' : Tells(g, t) => g \in Calling
        <5>1. \A g : Tells(g, t) => TellsSomething(g)
          BY DEF Tells
        <5> QED
          BY <1>1, <1>4, <1>6, <2>3, <5>1
      <4> QED
        BY <4>1, <4>2, SameCalls
    <3>3. CASE Collected(t)
      <4>1. RightOf(c, t)
        BY <2>2, <3>3 DEF CopyRight
      <4>2. RightOf(c, t)'
        BY <2>1, <2>2, <3>1, <3>2, <4>1, StaysRight DEF SameTold
      <4> QED
        BY <3>3, <4>2 DEF CopyRight
    <3>4. CASE ~Collected(t)
      BY <2>2, <3>1, <3>4 DEF CopyRight
    <3> QED
      BY <3>3, <3>4
  <2>4. CASE t = topic /\ c \in told
    <3>1. /\ seq = copy[c][t].last + 1
          /\ copy'[c][t].view = Applied(copy[c][t].view, event)
      <4>1. copy'[c] = Heard(copy[c], Top) /\ Top.event.topic = t
        BY <1>2, <2>1, <2>4
      <4> QED
        BY <1>2, <4>1, HeardView
    <3>2. CASE Collected(t)
      <4>1. Comes(Top, c, t)
        BY <1>3, <1>5, <2>4 DEF Comes
      <4>2. Listed(t, Applied(copy[c][t].view, event)) = Collection(t)
        BY <1>1, <1>3, <2>1, <3>2, <4>1, RightTop
      <4>3. ASSUME NEW g \in Calling', Comes(g, c, t)
            PROVE  FALSE
        <5>1. Tells(g, t) /\ TellsSomething(g) /\ (g.at = "deliver" => c \in ToSet(g.to))
          BY <4>3 DEF Comes, Tells
        <5>2. g \notin ToSet(Below)
          BY <1>1, <1>3, <2>2, <2>4, <5>1 DEF Fits
        <5>3. g.at = "deliver" /\ ToSet(g.to) = left
          BY <1>6, <5>1, <5>2
        <5> QED
          BY <1>5, <2>4, <5>1, <5>3
      <4>4. Listed(t, copy'[c][t].view) = Collection(t)'
        BY <2>2, <3>1, <4>2
      <4>5. RightOf(c, t)'
        BY <4>3, <4>4 DEF RightOf
      <4> QED
        BY <3>2, <4>5 DEF CopyRight
    <3>3. CASE ~Collected(t)
      <4>1. event.kind \in {"live-message", "users-changed"}
        BY <1>1, <1>2, <1>3, <2>4, <3>3 DEF CalmFrame
      <4>2. Applied(copy[c][t].view, event) = copy[c][t].view
        BY <4>1 DEF Applied
      <4> QED
        BY <2>2, <3>1, <3>3, <4>2 DEF CopyRight
    <3> QED
      BY <3>2, <3>3
  <2>5. CASE t = topic /\ c \notin told
    <3>1. copy'[c][t] = copy[c][t]
      BY <2>1, <2>5
    <3>2. CASE Collected(t)
      <4>1. ASSUME NEW f \in Calling, Comes(f, c, t)
            PROVE  \E g \in Calling' : Comes(g, c, t) /\ Alike(f, g)
        <5>1. CASE f \in ToSet(Below)
          BY <1>5, <4>1, <5>1 DEF Alike
        <5>2. CASE f = Top
          <6>1. c \in ToSet(Top.to)
            BY <1>1, <4>1, <5>2 DEF Comes
          <6>2. c \in Wanting(topic)
            BY <2>2, <2>5 DEF Wanting
          <6>3. c \in left
            BY <1>5, <2>1, <2>5, <6>1, <6>2
          <6>4. PICK g \in Calling' :
                  g.at = "deliver" /\ g.event = event /\ g.seq = seq /\ ToSet(g.to) = left
            BY <1>7, <6>3
          <6>5. Comes(g, c, t) /\ Alike(Top, g)
            BY <1>1, <1>2, <1>3, <1>4, <2>5, <6>3, <6>4 DEF Comes, Alike
          <6> QED
            BY <5>2, <6>5
        <5> QED
          BY <1>1, <5>1, <5>2
      <4>2. ASSUME NEW g \in Calling', Comes(g, c, t)
            PROVE  \E f \in Calling : Comes(f, c, t)
        <5>1. TellsSomething(g) /\ (g.at = "deliver" => c \in ToSet(g.to))
          BY <4>2 DEF Comes, Tells
        <5>2. CASE g \in ToSet(Below)
          BY <1>1, <4>2, <5>2
        <5>3. CASE g.at = "deliver" /\ ToSet(g.to) = left
          <6>1. Comes(Top, c, t)
            BY <1>3, <1>5, <2>5, <5>1, <5>3 DEF Comes
          <6> QED
            BY <1>1, <6>1
        <5> QED
          BY <1>6, <5>1, <5>2, <5>3
      <4>3. SameToldTo(c, t)
        BY <4>1, <4>2 DEF SameToldTo
      <4>4. RightOf(c, t)
        BY <2>2, <3>2 DEF CopyRight
      <4>5. RightOf(c, t)'
        BY <2>1, <2>2, <3>1, <4>3, <4>4, StaysRight
      <4> QED
        BY <3>2, <4>5 DEF CopyRight
    <3>3. CASE ~Collected(t)
      BY <2>2, <3>1, <3>3 DEF CopyRight
    <3> QED
      BY <3>2, <3>3
  <2> QED
    BY ONLY <1>1, <2>3, <2>4, <2>5, Zenon
<1> QED
  BY <1>8 DEF CopiesRight

\* The rest of a list has none of those that came before it.
LEMMA RestApart ==
  ASSUME NEW S, NEW to \in Seq(S), IsInjective(to), NEW n \in 0 .. Len(to) - 1
  PROVE  /\ IsInjective(SubSeq(to, n + 2, Len(to)))
         /\ ToSet(SubSeq(to, n + 2, Len(to))) \subseteq ToSet(to)
         /\ \A m \in 1 .. n : /\ to[m] \in ToSet(to)
                               /\ to[m] \notin ToSet(SubSeq(to, n + 2, Len(to)))
<1>0. PICK rest : rest = SubSeq(to, n + 2, Len(to))
  OBVIOUS
<1>1. n + 2 \in Int /\ Len(to) \in Int /\ n \in Nat /\ Len(to) \in Nat
  OBVIOUS
<1>2. rest \in Seq(S)
  BY <1>0, RestFacts
<1>3. Len(rest) = Len(to) - n - 1 /\ \A i \in 1 .. Len(rest) : rest[i] = to[i + n + 1]
  BY <1>0, <1>1, SubSeqProperties
<1>4. \A i \in 1 .. Len(rest) : i + n + 1 \in 1 .. Len(to) /\ rest[i] = to[i + n + 1]
  BY <1>1, <1>3
<1>5. DOMAIN rest = 1 .. Len(rest) /\ DOMAIN to = 1 .. Len(to)
  BY <1>2
<1>6. \A i, j \in 1 .. Len(to) : to[i] = to[j] => i = j
  BY <1>5 DEF IsInjective
<1>7. IsInjective(rest)
  <2>1. ASSUME NEW i \in 1 .. Len(rest), NEW j \in 1 .. Len(rest), rest[i] = rest[j]
        PROVE  i = j
    <3>1. i + n + 1 = j + n + 1
      BY <1>4, <1>6, <2>1
    <3> QED
      BY <1>1, <3>1
  <2> QED
    BY <1>5, <2>1 DEF IsInjective
<1>8. ToSet(rest) \subseteq ToSet(to)
  BY <1>4, <1>5 DEF ToSet
<1>9. \A m \in 1 .. n : m \in 1 .. Len(to)
  BY <1>1
<1>10. \A m \in 1 .. n : to[m] \in ToSet(to)
  BY <1>5, <1>9 DEF ToSet
<1>11. ASSUME NEW m \in 1 .. n, NEW i \in 1 .. Len(rest), to[m] = rest[i]
       PROVE  FALSE
  <2>1. m = i + n + 1
    BY <1>4, <1>6, <1>9, <1>11
  <2> QED
    BY <1>1, <2>1
<1>12. \A m \in 1 .. n : to[m] \notin ToSet(rest)
  BY <1>5, <1>11 DEF ToSet
<1> QED
  BY <1>0, <1>7, <1>8, <1>10, <1>12

LEMMA DeliverKeeps ==
  ASSUME DInv, KeepInv, Deliver
  PROVE  KeepInv'
<1>1. /\ At("deliver") /\ stack # <<>> /\ Top.at = "deliver"
      /\ DTyped /\ HubInv
  BY DInvParts DEF Deliver, At, Idle
<1>2. /\ Stacked(Below) /\ FrameOK(Top) /\ Calling = {Top} \cup ToSet(Below)
      /\ Calm(Below) /\ Fits(Top, Below) /\ CalmFrame(Top)
      /\ \A g \in ToSet(Below) : CalmFrame(g)
  BY <1>1, CalmTop, TopFacts DEF KeepInv
<1>3. PICK event, seq, to :
        /\ to \in Seq(Connections)
        /\ event = Top.event /\ seq = Top.seq /\ to = Top.to
        /\ Top = [at |-> "deliver", event |-> event, seq |-> seq, to |-> to]
        /\ event.topic \in Topics /\ seq \in Nat
  <2>1. /\ Top = [at |-> "deliver", event |-> Top.event, seq |-> Top.seq, to |-> Top.to]
        /\ Top.event.topic \in Topics /\ Top.seq \in Nat /\ Top.to \in Seq(Connections)
    BY <1>1, <1>2 DEF FrameOK
  <2>2. PICK event, seq, all : event = Top.event /\ seq = Top.seq /\ all = Top.to
    OBVIOUS
  <2>3. all \in Seq(Connections)
    BY <2>1, <2>2
  <2> QED
    BY <2>1, <2>2, <2>3
<1> DEFINE wants == Wanting(Top.event.topic)
           some(n) == wants \cap {Top.to[m] : m \in 1 .. n}
           heard(n) == [c \in Connections |-> IF c \in some(n) THEN Heard(copy[c], Top) ELSE copy[c]]
<1>4. PICK n \in 0 .. Len(Top.to) :
        \/ /\ n = Len(Top.to) /\ copy' = heard(n) /\ stack' = Below
           /\ UNCHANGED <<presence, status, hub, topics, operators, sequences>>
        \/ /\ n # Len(Top.to) /\ Top.to[n + 1] \in wants \cap SlowPeers
           /\ copy' = [heard(n) EXCEPT ![Top.to[n + 1]] = <<>>]
           /\ CloseSession(Top.to[n + 1],
                           <<[Top EXCEPT !.to = SubSeq(Top.to, n + 2, Len(Top.to))]>> \o Below)
  BY DEF Deliver
<1>5. IsInjective(to)
  BY <1>1, <1>2, <1>3 DEF CalmFrame
<1>6. PICK before : before = {Top.to[m] : m \in 1 .. n}
  OBVIOUS
<1>7. PICK wanting, told : wanting = Wanting(event.topic) /\ told = wanting \cap before
  OBVIOUS
<1>8. PICK after : after = heard(n)
  OBVIOUS
<1>11. \A c \in Connections : after[c] = (IF c \in told THEN Heard(copy[c], Top) ELSE copy[c])
  <2>1. told = some(n)
    BY <1>3, <1>6, <1>7
  <2> HIDE DEF some
  <2> QED
    BY <1>8, <2>1
<1>12. \A d : d \in before <=> \E m \in 1 .. n : to[m] = d
  BY <1>3, <1>6
<1>13. DOMAIN after = Connections
  BY <1>8
<1> HIDE DEF wants, some, heard
<1>9. CASE /\ n = Len(to) /\ copy' = after /\ stack' = Below
           /\ UNCHANGED <<presence, status, hub, topics, operators, sequences>>
  <2>1. UNCHANGED <<instances, byConnection, sessions>>
    BY <1>9 DEF presence
  <2>2. CalmCalls' /\ Calling' = ToSet(Below)
    BY <1>1, <1>9, <2>1, Pops DEF KeepInv
  <2>3. before = ToSet(to)
    BY <1>3, <1>9, <1>12 DEF ToSet
  <2>4. PICK none : none = {}
    OBVIOUS
  <2>5. \A d \in Connections :
          copy'[d] = (IF d \in told THEN Heard(copy[d], Top) ELSE copy[d])
    BY <1>9, <1>11
  <2>6. Walked(told, none, none)
    BY <1>3, <1>7, <2>1, <2>2, <2>3, <2>4, <2>5 DEF Walked
  <2>7. CopiesRight'
    BY <1>1, <2>6, DeliveredRight
  <2> QED
    BY <2>1, <2>2, <2>7 DEF KeepInv, SlowAreBare
<1>10. CASE /\ n # Len(to) /\ to[n + 1] \in wanting \cap SlowPeers
            /\ copy' = [after EXCEPT ![to[n + 1]] = <<>>]
            /\ CloseSession(to[n + 1],
                            <<[Top EXCEPT !.to = SubSeq(to, n + 2, Len(to))]>> \o Below)
  <2>0. to \in Seq(Connections)
    BY <1>3
  <2>1. n \in 0 .. Len(to) - 1
    <3>1. n \in 0 .. Len(to) /\ n # Len(to)
      BY <1>3, <1>10
    <3>2. Len(to) \in Nat
      BY <2>0
    <3> QED
      BY ONLY <3>1, <3>2
  <2>2. PICK rest : rest = SubSeq(to, n + 2, Len(to))
    OBVIOUS
  <2>3. /\ rest \in Seq(Connections) /\ to[n + 1] \in Connections
        /\ \A d \in ToSet(to) : \/ \E m \in 1 .. n : to[m] = d
                                \/ d = to[n + 1]
                                \/ d \in ToSet(rest)
    BY <2>0, <2>1, <2>2, RestFacts
  <2>4. /\ IsInjective(rest) /\ ToSet(rest) \subseteq ToSet(to)
        /\ before \subseteq ToSet(to) /\ before \cap ToSet(rest) = {}
    <3>1. /\ IsInjective(rest) /\ ToSet(rest) \subseteq ToSet(to)
          /\ \A m \in 1 .. n : to[m] \in ToSet(to) /\ to[m] \notin ToSet(rest)
      BY <2>0, <1>5, <2>1, <2>2, RestApart
    <3> QED
      BY <1>12, <3>1
  <2>5. PICK slow \in Connections : slow = to[n + 1] /\ slow \in SlowPeers
    BY <1>10, <2>3
  <2>6. PICK f : f = [Top EXCEPT !.to = rest]
    OBVIOUS
  <2>7. f = [at |-> "deliver", event |-> event, seq |-> seq, to |-> rest]
    BY <1>3, <2>6
  <2>8. /\ f.at = "deliver" /\ f.event = event /\ f.seq = seq /\ f.to = rest
        /\ f = [at |-> "deliver", event |-> f.event, seq |-> f.seq, to |-> f.to]
    BY <2>7
  <2>9. FrameOK(f)
    BY <1>3, <2>3, <2>8 DEF FrameOK
  <2>10. EventOf(f) = EventOf(Top) /\ \A t : Tells(f, t) <=> Tells(Top, t)
    BY <1>1, <1>3, <2>8 DEF EventOf, Tells, TellsSomething
  <2>11. Fits(f, Below) /\ CalmFrame(f)
    <3>1. TellsSomething(Top)
      BY <1>1 DEF TellsSomething
    <3> QED
      BY <1>2, <2>4, <2>8, <2>10, <3>1 DEF Fits, CalmFrame
  <2>12. PICK below : below = <<f>> \o Below
    OBVIOUS
  <2>13. Stacked(below) /\ ToSet(below) = {f} \cup ToSet(Below) /\ Calm(below)
    BY <1>2, <2>9, <2>11, <2>12, Pushed, CalmFits
  <2>14. CloseSession(slow, below) /\ copy' = [after EXCEPT ![slow] = <<>>]
    BY <1>10, <2>2, <2>5, <2>6, <2>12
  <2>15. byConnection[slow] = <<>> /\ \A g \in ToSet(below) : CalmFrame(g)
    BY <1>2, <2>5, <2>11, <2>13 DEF KeepInv, SlowAreBare
  <2>16. /\ SlowAreBare' /\ CalmCalls' /\ UNCHANGED <<instances, sessions>>
         /\ ToSet(below) \subseteq Calling'
         /\ \A g \in Calling' : g \in ToSet(below) \/ g.at = "drop"
    BY <2>13, <2>14, <2>15, ClosesCalmly
  <2>17. PICK gone, left : gone = {slow} /\ left = ToSet(rest)
    OBVIOUS
  <2>18. /\ \A d \in gone : DOMAIN copy'[d] = {}
         /\ \A d \in Connections : d \notin gone =>
              copy'[d] = (IF d \in told THEN Heard(copy[d], Top) ELSE copy[d])
    BY <1>11, <1>13, <2>14, <2>17
  <2>19. \A d \in ToSet(to) : d \in wanting => d \in told \cup gone \cup left
    BY <1>7, <1>12, <2>3, <2>5, <2>17
  <2>20. /\ told \cup left \subseteq ToSet(to) /\ told \cap left = {}
    BY <1>7, <2>4, <2>17
  <2>21. f \in Calling' /\ ToSet(f.to) = left
    BY <2>8, <2>13, <2>16, <2>17
  <2>22. \A g \in Calling' : TellsSomething(g) => g \in ToSet(Below) \/ g = f
    BY <2>13, <2>16 DEF TellsSomething
  <2>23. Walked(told, gone, left)
    BY <1>3, <1>7, <2>8, <2>13, <2>16, <2>18, <2>19, <2>20, <2>21, <2>22 DEF Walked
  <2>24. CopiesRight'
    BY <1>1, <2>23, DeliveredRight
  <2> QED
    BY <2>16, <2>24 DEF KeepInv
<1> QED
  BY <1>3, <1>4, <1>7, <1>8, <1>9, <1>10 DEF wants

-----------------------------------------------------------------------------
(* A room changes and it is said.                                          *)

\* What had begun, and what is left of it, tell the same.
Leaves(below) ==
  \A c \in Connections : \A t \in Topics :
    /\ \A f \in Calling : Comes(f, c, t) => \E g \in ToSet(below) : Comes(g, c, t) /\ Alike(f, g)
    /\ \A g \in ToSet(below) : Comes(g, c, t) => \E f \in Calling : Comes(f, c, t)

LEMMA LeavesSame ==
  ASSUME NEW below, Leaves(below), NEW more, Calling' = more \cup ToSet(below),
         NEW t \in Topics, \A f \in more : ~Tells(f, t)
  PROVE  SameTold(t)
BY DEF Leaves, SameTold, SameToldTo, Comes

\* Two things in front are one in front of another.
LEMMA OneAndOne ==
  ASSUME NEW f, NEW g
  PROVE  <<f>> \o <<g>> = <<f, g>>
<1>1. PICK S : S = {f, g}
  OBVIOUS
<1>2. <<f>> \in Seq(S) /\ <<g>> \in Seq(S) /\ <<f, g>> \in Seq(S)
  BY <1>1
<1>3. PICK s : s = <<f>> \o <<g>>
  OBVIOUS
<1>4. /\ s \in Seq(S) /\ Len(s) = Len(<<f>>) + Len(<<g>>)
      /\ \A i \in 1 .. Len(<<f>>) + Len(<<g>>) :
           s[i] = IF i <= Len(<<f>>) THEN <<f>>[i] ELSE <<g>>[i - Len(<<f>>)]
  BY <1>2, <1>3, ConcatProperties
<1>5. Len(s) = 2 /\ s[1] = f /\ s[2] = g
  BY <1>4
<1>6. Len(<<f, g>>) = Len(s) /\ \A i \in 1 .. Len(s) : s[i] = <<f, g>>[i]
  BY <1>5
<1>7. s = <<f, g>>
  BY <1>2, <1>4, <1>6, SeqEqual
<1> QED
  BY <1>3, <1>7

LEMMA TwoInFront ==
  ASSUME NEW f, NEW g, NEW below, Stacked(below)
  PROVE  <<f, g>> \o below = <<f>> \o (<<g>> \o below)
<1>1. PICK S : S = {f, g} \cup ToSet(below)
  OBVIOUS
<1>2. below \in Seq(S)
  <2>1. ToSet(below) \subseteq S
    BY <1>1
  <2> QED
    BY <2>1, SeqMonotonic DEF Stacked
<1>3. <<f>> \in Seq(S) /\ <<g>> \in Seq(S)
  BY <1>1
<1>4. (<<f>> \o <<g>>) \o below = <<f>> \o (<<g>> \o below)
  BY <1>2, <1>3, ConcatAssociative
<1>5. <<f>> \o <<g>> = <<f, g>>
  BY OneAndOne
<1> QED
  BY ONLY <1>4, <1>5

\* A room of the Map that is put in again.
LEMMA ExceptSet ==
  ASSUME DInv, NEW r \in DOMAIN sessions, NEW room, sessions' = [sessions EXCEPT ![r] = room]
  PROVE  sessions' = MapSet(sessions, r, room)
<1>1. sessions = [s \in DOMAIN sessions |-> sessions[s]] /\ DOMAIN sessions \cup {r} = DOMAIN sessions
  BY DInvParts DEF DTyped, TypeOK
<1>2. sessions' = [s \in DOMAIN sessions |-> IF s = r THEN room ELSE sessions[s]]
  BY <1>1
<1> QED
  BY <1>1, <1>2 DEF MapSet

\* One event of a collection is put before what is left, and says what it became.
LEMMA SaidKeeps ==
  ASSUME DInv, KeepInv, NEW below, Stacked(below), Calm(below), Leaves(below),
         \A g \in ToSet(below) : CalmFrame(g)',
         NEW topic, Collected(topic),
         NEW f, f.at = "publish", EventOf(f) = f, \A t : Tells(f, t) <=> topic = t,
         f.topic = topic,
         \A g \in Calling \cup ToSet(below) : ~Tells(g, topic),
         stack' = <<f>> \o below,
         Moves(topic, f),
         \A t \in Topics : Collected(t) /\ t # topic => Collection(t)' = Collection(t),
         UNCHANGED <<byConnection, copy>>
  PROVE  KeepInv'
<1>1. Fits(f, below)
  BY DEF Fits
<1>2. CalmFrame(f)'
  BY DEF CalmFrame
<1>3. CalmCalls' /\ Calling' = {f} \cup ToSet(below)
  BY <1>1, <1>2, CalmPushed
<1>4. ASSUME NEW t \in Topics, Collected(t)
      PROVE  (SameTold(t) /\ Collection(t)' = Collection(t)) \/ NewlyTold(t)
  <2>1. CASE t = topic
    BY <1>3, <2>1 DEF NewlyTold
  <2>2. CASE t # topic
    <3>1. PICK more : more = {f}
      OBVIOUS
    <3>2. Calling' = more \cup ToSet(below) /\ \A g \in more : ~Tells(g, t)
      BY <1>3, <2>2, <3>1
    <3>3. SameTold(t)
      BY <3>2, LeavesSame
    <3> QED
      BY <1>4, <2>2, <3>3
  <2> QED
    BY <2>1, <2>2
<1>5. CopiesRight'
  BY <1>4, CopiesStay DEF KeepInv, CopiesKept
<1> QED
  BY <1>3, <1>5 DEF KeepInv, SlowAreBare

\* What is left when a room is changed has nothing to tell of rooms.
OfNoRoom(below) ==
  \A g \in ToSet(below) :
    /\ g.at \in {"drop", "retire", "forget"}
    /\ g.at = "retire" => g.rooms \subseteq DOMAIN sessions'

LEMMA TellsNoRoom ==
  ASSUME NEW g, g.at \in {"drop", "retire", "forget", "handle"}, NEW p
  PROVE  ~Tells(g, LiveTopic(p))
<1>1. CASE g.at = "retire"
  <2>1. ClientsTopic(g.project) # LiveTopic(p)
    BY TopicsOf
  <2> QED
    BY <1>1, <2>1, RetireTells
<1>2. CASE g.at # "retire"
  BY <1>2 DEF Tells, TellsSomething
<1> QED
  BY <1>1, <1>2

LEMMA OfNoRoomFacts ==
  ASSUME NEW below, OfNoRoom(below)
  PROVE  \A g \in ToSet(below) : CalmFrame(g)'
<1>1. ASSUME NEW g \in ToSet(below)
      PROVE  CalmFrame(g)'
  <2>1. CASE g.at = "retire"
    <3>1. Collected(EventOf(g).topic)
      BY <2>1, RetireTells, TopicsOf DEF Collected
    <3> QED
      BY <2>1, <3>1 DEF CalmFrame, OfNoRoom
  <2>2. CASE g.at # "retire"
    BY <2>2 DEF CalmFrame, OfNoRoom, TellsSomething
  <2> QED
    BY <2>1, <2>2
<1> QED
  BY <1>1

\* The room is in the Map with what it has become, and the project is told.
LEMMA ChangedKeeps ==
  ASSUME DInv, KeepInv, NEW below, Stacked(below), Calm(below), Leaves(below), OfNoRoom(below),
         \A g \in Calling : g.at \in {"drop", "retire", "handle"},
         NEW r, NEW room, sessions' = MapSet(sessions, r, room),
         r \in DOMAIN sessions => sessions[r].project = room.project,
         NEW f \in {Opened(r, room), Changed(r, room)}, stack' = <<f>> \o below,
         UNCHANGED <<instances, byConnection, copy>>
  PROVE  KeepInv'
<1>1. PICK topic : topic = LiveTopic(room.project)
  OBVIOUS
<1>2. /\ f.at = "publish" /\ EventOf(f) = f /\ f.topic = topic
      /\ \A t : Tells(f, t) <=> topic = t
  <2>1. \E kind, key, value : f = Publish(topic, kind, key, value)
    BY <1>1 DEF Opened, Changed
  <2>2. PICK kind, key, value : f = Publish(topic, kind, key, value)
    BY <2>1
  <2>3. f.topic = topic
    BY <2>2 DEF Publish
  <2> QED
    BY <2>2, <2>3, PublishTells
<1>3. Collected(topic) /\ topic.of = "live" /\ topic.key = room.project
  BY <1>1, TopicsOf DEF Collected
<1>4. Moves(topic, f)
  BY <1>1, SetMoves
<1>5. ASSUME NEW t \in Topics, Collected(t), t # topic
      PROVE  Collection(t)' = Collection(t)
  <2>1. CASE t.of = "live"
    <3>1. t.key # room.project
      BY <1>1, <1>5, <2>1, TopicsOf
    <3> QED
      BY <2>1, <3>1, LiveSet
  <2>2. CASE t.of = "clients"
    BY <2>2, CollectionsKeep
  <2> QED
    BY <1>5, <2>1, <2>2 DEF Collected
<1>6. \A g \in ToSet(below) : CalmFrame(g)'
  BY OfNoRoomFacts
<1>7. \A g \in Calling \cup ToSet(below) : ~Tells(g, topic)
  BY <1>1, TellsNoRoom DEF OfNoRoom
<1> QED
  BY <1>2, <1>3, <1>4, <1>5, <1>6, <1>7, SaidKeeps

\* The room is out of the Map, the project is told, and the room's topic is forgotten.
LEMMA EndKeeps ==
  ASSUME DInv, KeepInv, NEW below, Stacked(below), Calm(below), Leaves(below), OfNoRoom(below),
         \A g \in Calling : g.at \in {"drop", "retire", "handle"},
         NEW r \in DOMAIN sessions, NEW room, sessions[r].project = room.project,
         End(r, room, below),
         UNCHANGED <<instances, byConnection, copy>>
  PROVE  KeepInv'
<1>1. PICK topic : topic = LiveTopic(room.project)
  OBVIOUS
<1>2. PICK f, g : f = Closed(r, room) /\ g = [at |-> "forget", topic |-> RoomTopic(r)]
  OBVIOUS
<1>3. /\ f.at = "publish" /\ EventOf(f) = f /\ f.topic = topic
      /\ \A t : Tells(f, t) <=> topic = t
  <2>1. f = Publish(topic, "live-closed", r, "gone")
    BY <1>1, <1>2 DEF Closed
  <2>2. f.topic = topic
    BY <2>1 DEF Publish
  <2> QED
    BY <2>1, <2>2, PublishTells
<1>4. g.at = "forget" /\ FrameOK(g)
  <2>1. g.at = "forget"
    BY <1>2
  <2>2. DOMAIN sessions \subseteq Rooms /\ sessions \in [DOMAIN sessions -> LiveEntry]
    BY DInvParts DEF DTyped, TypeOK
  <2>3. r \in Rooms /\ room.project \in Projects
    BY <2>2 DEF LiveEntry
  <2> QED
    BY <1>2, <2>1, <2>3, RoomFrames DEF SaidOf
<1>5. PICK under : under = <<g>> \o below
  OBVIOUS
<1>6. sessions' = MapDelete(sessions, {r}) /\ stack' = <<f>> \o under
  <2>1. <<f, g>> \o below = <<f>> \o under
    BY <1>5, TwoInFront
  <2> QED
    BY <1>2, <2>1 DEF End
<1>7. Stacked(under) /\ ToSet(under) = {g} \cup ToSet(below)
  BY <1>4, <1>5, Pushed
<1>8. OfNoRoom(under)
  BY <1>4, <1>7 DEF OfNoRoom
<1>9. Calm(under)
  <2>1. Fits(g, below)
    BY <1>4 DEF Fits, Tells, TellsSomething
  <2> QED
    BY <1>5, <2>1, CalmFits
<1>10. Leaves(under)
  <2>1. \A c, t : ~Comes(g, c, t)
    BY <1>4 DEF Comes, Tells, TellsSomething
  <2> QED
    BY <1>7, <2>1 DEF Leaves
<1>11. Collected(topic) /\ topic.of = "live" /\ topic.key = room.project
  BY <1>1, TopicsOf DEF Collected
<1>12. Moves(topic, f)
  BY <1>1, <1>2, <1>6, DeleteMoves
<1>13. ASSUME NEW t \in Topics, Collected(t), t # topic
       PROVE  Collection(t)' = Collection(t)
  <2>1. CASE t.of = "live"
    <3>1. t.key # room.project
      BY <1>1, <1>13, <2>1, TopicsOf
    <3> QED
      BY <1>6, <2>1, <3>1, LiveDelete
  <2>2. CASE t.of = "clients"
    BY <2>2, CollectionsKeep
  <2> QED
    BY <1>13, <2>1, <2>2 DEF Collected
<1>14. \A h \in ToSet(under) : CalmFrame(h)'
  BY <1>8, OfNoRoomFacts
<1>15. \A h \in Calling \cup ToSet(under) : ~Tells(h, topic)
  BY <1>1, <1>8, TellsNoRoom DEF OfNoRoom
<1> QED
  BY <1>3, <1>6, <1>7, <1>9, <1>10, <1>11, <1>12, <1>13, <1>14, <1>15, SaidKeeps

\* A room one instance has left.
LEMMA RoomEntry ==
  ASSUME NEW held \in LiveEntry, NEW id
  PROVE  /\ [held EXCEPT !.requests = @ \ {id}].project = held.project
         /\ [held EXCEPT !.requests = @ \ {id}].members = held.members
         /\ [held EXCEPT !.requests = @ \ {id}].rule = held.rule
         /\ [held EXCEPT !.requests = @ \ {id}] \in LiveEntry
         /\ [held EXCEPT !.members = @ \ {id}].project = held.project
BY DEF LiveEntry

LEMMA PartKeeps ==
  ASSUME DInv, KeepInv, NEW below, Stacked(below), Calm(below), Leaves(below),
         \A g \in Calling : g.at \in {"drop", "retire", "handle"},
         NEW r \in DOMAIN sessions, NEW room \in LiveEntry, sessions[r].project = room.project,
         \A g \in ToSet(below) :
           /\ g.at \in {"drop", "retire"}
           /\ g.at = "retire" => g.rooms \subseteq DOMAIN sessions \ {r},
         NEW id, Part(r, room, id, below),
         UNCHANGED <<instances, byConnection, copy>>
  PROVE  KeepInv'
<1>1. PICK left : left = [room EXCEPT !.members = @ \ {id}]
  OBVIOUS
<1>2. left.project = sessions[r].project
  BY <1>1, RoomEntry
<1>3. CASE End(r, left, below)
  <2>1. sessions' = MapDelete(sessions, {r})
    BY <1>3 DEF End
  <2>2. DOMAIN sessions' = DOMAIN sessions \ {r}
    BY <2>1 DEF MapDelete, Restrict
  <2>3. OfNoRoom(below)
    BY <2>2 DEF OfNoRoom
  <2> QED
    BY <1>2, <1>3, <2>3, EndKeeps
<1>4. CASE Keep(r, left, below) /\ stack' = <<Changed(r, left)>> \o below
  <2>1. sessions' = [sessions EXCEPT ![r] = left]
    BY <1>4 DEF Keep
  <2>2. sessions' = MapSet(sessions, r, left) /\ DOMAIN sessions' = DOMAIN sessions
    BY <2>1, ExceptSet
  <2>3. OfNoRoom(below)
    BY <2>2 DEF OfNoRoom
  <2>4. PICK f : f = Changed(r, left)
    OBVIOUS
  <2>5. f \in {Opened(r, left), Changed(r, left)} /\ stack' = <<f>> \o below
    BY <1>4, <2>4
  <2> QED
    BY <1>2, <2>2, <2>3, <2>5, ChangedKeeps
<1> QED
  BY <1>1, <1>3, <1>4 DEF Part

LEMMA RetireFromRoomKeeps ==
  ASSUME DInv, KeepInv, RetireFromRoom
  PROVE  KeepInv'
<1>1. /\ stack # <<>> /\ Top.at = "retire"
      /\ UNCHANGED <<instances, byConnection, copy>>
  BY DEF RetireFromRoom, At, Idle
<1>2. /\ Fits(Top, Below) /\ Calm(Below) /\ Stacked(Below) /\ CalmFrame(Top) /\ FrameOK(Top)
      /\ \A g \in ToSet(Below) : g.at = "drop"
      /\ Calling = {Top} \cup ToSet(Below)
  BY <1>1, CalmTop, TopFacts DEF KeepInv, Fits
<1>3. PICK r, id, top : /\ top = Top /\ r \in Top.rooms /\ id = Top.id
                        /\ RetireFrom(r, id, <<[top EXCEPT !.rooms = @ \ {r}]>> \o Below)
  BY DEF RetireFromRoom
<1>4. r \in DOMAIN sessions /\ Top.rooms \subseteq DOMAIN sessions
  BY <1>1, <1>2, <1>3 DEF CalmFrame
<1>5. PICK next : next = [top EXCEPT !.rooms = @ \ {r}]
  OBVIOUS
<1>6. /\ next.at = "retire" /\ next.id = top.id /\ next.project = top.project
      /\ next.rooms = top.rooms \ {r}
      /\ next = [at |-> "retire", id |-> next.id, project |-> next.project, rooms |-> next.rooms]
  <2>1. top = [at |-> "retire", id |-> top.id, project |-> top.project, rooms |-> top.rooms]
    BY <1>1, <1>2, <1>3 DEF FrameOK
  <2> QED
    BY <1>5, <2>1, RetireLeft
<1>7. FrameOK(next)
  BY <1>1, <1>2, <1>3, <1>6 DEF FrameOK
<1>8. PICK below : below = <<next>> \o Below
  OBVIOUS
<1>9. Stacked(below) /\ ToSet(below) = {next} \cup ToSet(Below)
  BY <1>2, <1>7, <1>8, Pushed
<1>10. /\ EventOf(next) = EventOf(Top)
       /\ \A t : Tells(next, t) <=> Tells(Top, t)
  BY <1>1, <1>3, <1>6, RetireTells
<1>11. Calm(below)
  <2>1. Fits(next, Below)
    BY <1>1, <1>2, <1>6, <1>10 DEF Fits
  <2> QED
    BY <1>2, <1>8, <2>1, CalmFits
<1>12. Leaves(below)
  <2>1. Alike(Top, next) /\ \A c, t : Comes(Top, c, t) <=> Comes(next, c, t)
    BY <1>1, <1>6, <1>10 DEF Alike, Comes
  <2>2. \A c, t : \A g \in ToSet(Below) : ~Comes(g, c, t)
    BY <1>2 DEF Comes, Tells, TellsSomething
  <2> QED
    BY <1>2, <1>9, <2>1, <2>2 DEF Leaves
<1>13. \A g \in Calling : g.at \in {"drop", "retire", "handle"}
  BY <1>1, <1>2
<1>14. \A g \in ToSet(below) :
         /\ g.at \in {"drop", "retire"}
         /\ g.at = "retire" => g.rooms \subseteq DOMAIN sessions \ {r}
  BY <1>2, <1>3, <1>4, <1>6, <1>9
<1>15. RetireFrom(r, id, below)
  BY <1>3, <1>5, <1>8
<1>16. PICK held \in LiveEntry : held = sessions[r]
  BY <1>4, DInvParts DEF DTyped, TypeOK
<1>17. PICK room \in LiveEntry :
         /\ room = [held EXCEPT !.requests = @ \ {id}]
         /\ room.project = held.project /\ room.members = held.members /\ room.rule = held.rule
  BY RoomEntry
<1>18. \/ Part(r, room, id, below)
       \/ Keep(r, room, below) /\ stack' = below
  BY <1>4, <1>15, <1>16, <1>17 DEF RetireFrom
<1>19. CASE Part(r, room, id, below)
  BY <1>1, <1>4, <1>9, <1>11, <1>12, <1>13, <1>14, <1>16, <1>17, <1>19, PartKeeps
<1>20. CASE Keep(r, room, below) /\ stack' = below
  <2>1. sessions' = [sessions EXCEPT ![r] = room]
    BY <1>4, <1>20 DEF Keep
  <2>2. /\ DOMAIN sessions' = DOMAIN sessions
        /\ \A s \in DOMAIN sessions :
             /\ sessions'[s].project = sessions[s].project
             /\ sessions'[s].members = sessions[s].members
             /\ sessions'[s].rule = sessions[s].rule
    BY <1>16, <1>17, <2>1
  <2>3. OfNoRoom(below)
    BY <1>14, <2>2 DEF OfNoRoom
  <2>4. Calling' = ToSet(below) /\ CalmCalls'
    BY <1>11, <1>20, <2>3, OfNoRoomFacts DEF CalmCalls, Calling
  <2>5. ASSUME NEW t \in Topics, Collected(t)
        PROVE  SameTold(t) /\ Collection(t)' = Collection(t)
    <3>1. PICK more : more = {}
      OBVIOUS
    <3>2. SameTold(t)
      BY <1>12, <2>4, <3>1, LeavesSame
    <3> QED
      BY <1>1, <2>2, <2>5, <3>2, LiveSame, CollectionsKeep DEF Collected
  <2>6. CopiesRight'
    BY <1>1, <2>5, CopiesStay DEF KeepInv, CopiesKept
  <2> QED
    BY <1>1, <2>4, <2>6 DEF KeepInv, SlowAreBare
<1> QED
  BY <1>18, <1>19, <1>20

-----------------------------------------------------------------------------
(* The calls.                                                              *)

\* A call that is handled is all that has begun.
LEMMA HandledFacts ==
  ASSUME DInv, KeepInv, At("handle")
  PROVE  /\ stack # <<>> /\ Below = <<>> /\ ToSet(Below) = {} /\ Calling = {Top}
         /\ Top.at = "handle" /\ ~TellsSomething(Top) /\ CalmFrame(Top)
         /\ Stacked(Below) /\ Calm(Below) /\ Leaves(Below) /\ OfNoRoom(Below)
         /\ \A t : ~Tells(Top, t)
<1>1. stack # <<>> /\ Top.at = "handle" /\ Below = <<>> /\ Calling = {Top} /\ CalmFrame(Top)
  BY TopFacts, CalmTop DEF At, Idle, KeepInv
<1>2. Stacked(Below) /\ Calm(Below) /\ ToSet(Below) = {}
  BY <1>1, NothingStacked, CalmNothing
<1>3. ~TellsSomething(Top) /\ \A t : ~Tells(Top, t)
  BY <1>1 DEF Tells, TellsSomething
<1>4. Leaves(Below) /\ OfNoRoom(Below)
  BY <1>1, <1>2, <1>3 DEF Leaves, OfNoRoom, Comes
<1> QED
  BY <1>1, <1>2, <1>3, <1>4

\* One room is changed and the project is told.
LEMMA EditKeeps ==
  ASSUME DInv, KeepInv, At("handle"), NEW r \in DOMAIN sessions, NEW room,
         room.project = sessions[r].project, sessions' = [sessions EXCEPT ![r] = room],
         stack' = <<Changed(r, room)>> \o Below,
         UNCHANGED <<instances, byConnection, copy>>
  PROVE  KeepInv'
<1>1. PICK f : f = Changed(r, room)
  OBVIOUS
<1>2. f \in {Opened(r, room), Changed(r, room)} /\ stack' = <<f>> \o Below
  BY <1>1
<1>3. sessions' = MapSet(sessions, r, room)
  BY ExceptSet
<1> QED
  BY <1>2, <1>3, HandledFacts, ChangedKeeps

\* One room's queue is changed, which no list shows, and the project is told.
LEMMA AskedKeeps ==
  ASSUME DInv, KeepInv, At("handle"), NEW r \in DOMAIN sessions, NEW room,
         room.project = sessions[r].project, room.members = sessions[r].members,
         room.rule = sessions[r].rule, sessions' = [sessions EXCEPT ![r] = room],
         NEW said, NEW f \in {Requested(r, said), RequestRefused(r, said)},
         stack' = <<f>> \o Below,
         UNCHANGED <<instances, byConnection, copy>>
  PROVE  KeepInv'
<1>1. PICK topic : topic = LiveTopic(said.project)
  OBVIOUS
<1>2. /\ f.at = "publish" /\ EventOf(f) = f /\ f.topic = topic
      /\ \A t : Tells(f, t) <=> topic = t
  <2>1. \E kind, key, value : f = Publish(topic, kind, key, value)
    BY <1>1 DEF Requested, RequestRefused
  <2>2. PICK kind, key, value : f = Publish(topic, kind, key, value)
    BY <2>1
  <2>3. f.topic = topic
    BY <2>2 DEF Publish
  <2> QED
    BY <2>2, <2>3, PublishTells
<1>3. Collected(topic) /\ topic.of = "live"
  BY <1>1, TopicsOf DEF Collected
<1>4. ASSUME NEW t, Collected(t)
      PROVE  Collection(t)' = Collection(t)
  <2>1. DOMAIN sessions' = DOMAIN sessions
    BY DInvParts DEF DTyped, TypeOK
  <2>2. \A s \in DOMAIN sessions :
          /\ sessions'[s].project = sessions[s].project
          /\ sessions'[s].members = sessions[s].members
          /\ sessions'[s].rule = sessions[s].rule
    BY DInvParts DEF DTyped, TypeOK
  <2> QED
    BY <1>4, <2>1, <2>2, LiveSame, CollectionsKeep DEF Collected
<1>5. Moves(topic, f)
  <2>1. \A view : Applied(view, f) = view
    BY RoomEvents
  <2>2. PICK now : now = Collection(topic)'
    OBVIOUS
  <2>3. now = Collection(topic)
    BY <1>3, <1>4, <2>2
  <2> QED
    BY <2>1, <2>2, <2>3 DEF Moves
<1>6. /\ \A g \in ToSet(Below) : CalmFrame(g)'
      /\ \A g \in Calling \cup ToSet(Below) : ~Tells(g, topic)
  BY HandledFacts
<1> QED
  BY <1>2, <1>3, <1>4, <1>5, <1>6, HandledFacts, SaidKeeps

LEMMA HandleOpenKeeps ==
  ASSUME DInv, KeepInv, At("handle"), NEW c \in Connections, NEW p, NEW rule,
         HandleOpen(c, p, rule), UNCHANGED copy
  PROVE  KeepInv'
<1>1. PICK id, code, r : /\ r = opened' /\ LiveOpen(c, id, p, r, rule, code)
                         /\ stack' = <<Opened(r, sessions'[r])>> \o Below
  BY DEF HandleOpen
<1>2. PICK room : room = [project |-> p, openedBy |-> instances[id].account,
                          openedByInstance |-> id, members |-> {id}, rule |-> rule,
                          requests |-> {}, code |-> code]
  OBVIOUS
<1>3. /\ sessions' = MapSet(sessions, r, room) /\ UNCHANGED <<instances, byConnection>>
      /\ r \notin DOMAIN sessions
  BY <1>1, <1>2 DEF LiveOpen
<1>4. sessions'[r] = room
  BY <1>3 DEF MapSet
<1>5. PICK f : f = Opened(r, room)
  OBVIOUS
<1>6. f \in {Opened(r, room), Changed(r, room)} /\ stack' = <<f>> \o Below
  BY <1>1, <1>4, <1>5
<1> QED
  BY <1>3, <1>6, HandledFacts, ChangedKeeps

LEMMA HandleRuleKeeps ==
  ASSUME DInv, KeepInv, At("handle"), NEW c \in Connections, NEW r \in Rooms, NEW rule,
         HandleRule(c, r, rule), UNCHANGED copy
  PROVE  KeepInv'
<1>1. PICK id : /\ LiveRule(c, id, r, rule)
                /\ stack' = (IF sessions[r].rule = rule THEN <<>>
                             ELSE <<Changed(r, sessions'[r])>>) \o Below
  BY DEF HandleRule
<1>2. PICK before \in LiveEntry : before = sessions[r] /\ r \in DOMAIN sessions
  BY <1>1, CallingFacts DEF LiveRule, CallerFor, RoomsTyped
<1>3. PICK room : room = [before EXCEPT !.rule = rule]
  OBVIOUS
<1>4. room.project = before.project /\ (before.rule = rule => room = before)
  BY <1>2, <1>3 DEF LiveEntry
<1>5. sessions' = [sessions EXCEPT ![r] = room] /\ UNCHANGED <<instances, byConnection>>
  BY <1>1, <1>2, <1>3 DEF LiveRule
<1>6. CASE before.rule = rule
  <2>1. sessions = [s \in DOMAIN sessions |-> sessions[s]]
    BY CallingFacts DEF RoomsTyped
  <2>2. sessions' = sessions
    BY <1>2, <1>4, <1>5, <1>6, <2>1
  <2>3. stack' = Below
    <3>1. stack' = <<>> \o Below
      BY <1>1, <1>2, <1>6
    <3> QED
      BY <3>1, CallingFacts, ConcatEmptySeq DEF Stacked
  <2> QED
    BY <1>5, <2>2, <2>3, HandledFacts, PopKeeps DEF CopiesKept
<1>7. CASE before.rule # rule
  <2>1. sessions'[r] = room
    BY <1>2, <1>5
  <2>2. stack' = <<Changed(r, room)>> \o Below
    BY <1>1, <1>2, <1>7, <2>1
  <2> QED
    BY <1>2, <1>4, <1>5, <2>2, EditKeeps
<1> QED
  BY <1>6, <1>7

LEMMA HandleJoinKeeps ==
  ASSUME DInv, KeepInv, At("handle"), NEW c \in Connections, NEW r \in Rooms, NEW byCode,
         HandleJoin(c, r, byCode), UNCHANGED copy
  PROVE  KeepInv'
<1>1. PICK id : LiveJoin(c, id, r, byCode) /\ stack' = <<Changed(r, sessions'[r])>> \o Below
  BY DEF HandleJoin
<1>2. PICK before \in LiveEntry : before = sessions[r] /\ r \in DOMAIN sessions
  BY <1>1, CallingFacts DEF LiveJoin, CallerFor, RoomsTyped
<1>3. PICK room : room = [before EXCEPT !.members = @ \cup {id}]
  OBVIOUS
<1>4. room.project = before.project
  BY <1>2, <1>3 DEF LiveEntry
<1>5. sessions' = [sessions EXCEPT ![r] = room] /\ UNCHANGED <<instances, byConnection>>
  BY <1>1, <1>2, <1>3 DEF LiveJoin
<1>6. stack' = <<Changed(r, room)>> \o Below
  BY <1>1, <1>2, <1>5
<1> QED
  BY <1>2, <1>4, <1>5, <1>6, EditKeeps

LEMMA HandleRequestJoinKeeps ==
  ASSUME DInv, KeepInv, At("handle"), NEW c \in Connections, NEW r \in Rooms,
         HandleRequestJoin(c, r), UNCHANGED copy
  PROVE  KeepInv'
<1>1. PICK id : LiveRequestJoin(c, id, r) /\ stack' = <<Requested(r, sessions[r])>> \o Below
  BY DEF HandleRequestJoin
<1>2. PICK before \in LiveEntry : before = sessions[r] /\ r \in DOMAIN sessions
  BY <1>1, CallingFacts DEF LiveRequestJoin, CallerFor, RoomsTyped
<1>3. PICK room : room = [before EXCEPT !.requests = @ \cup {id}]
  OBVIOUS
<1>4. /\ room.project = before.project /\ room.members = before.members
      /\ room.rule = before.rule
  BY <1>2, <1>3 DEF LiveEntry
<1>5. sessions' = [sessions EXCEPT ![r] = room] /\ UNCHANGED <<instances, byConnection>>
  BY <1>1, <1>2, <1>3 DEF LiveRequestJoin
<1>6. PICK f : f = Requested(r, before)
  OBVIOUS
<1>7. stack' = <<f>> \o Below /\ f \in {Requested(r, before), RequestRefused(r, before)}
  BY <1>1, <1>2, <1>6
<1> QED
  BY <1>2, <1>4, <1>5, <1>7, AskedKeeps

LEMMA HandleAnswerJoinKeeps ==
  ASSUME DInv, KeepInv, At("handle"), NEW c \in Connections, NEW r \in Rooms, NEW asked,
         NEW admit, HandleAnswerJoin(c, r, asked, admit), UNCHANGED copy
  PROVE  KeepInv'
<1>1. PICK id : /\ LiveAnswerJoin(c, id, r, asked, admit)
                /\ stack' = <<IF admit THEN Changed(r, sessions'[r])
                              ELSE RequestRefused(r, sessions[r])>> \o Below
  BY DEF HandleAnswerJoin
<1>2. PICK before \in LiveEntry : before = sessions[r] /\ r \in DOMAIN sessions
  BY <1>1, CallingFacts DEF LiveAnswerJoin, CallerFor, RoomsTyped
<1>3. PICK room : room = [before EXCEPT !.requests = @ \ {asked},
                                        !.members = IF admit THEN @ \cup {asked} ELSE @]
  OBVIOUS
<1>4. /\ room.project = before.project /\ room.rule = before.rule
      /\ ~admit => room.members = before.members
  BY <1>2, <1>3 DEF LiveEntry
<1>5. sessions' = [sessions EXCEPT ![r] = room] /\ UNCHANGED <<instances, byConnection>>
  BY <1>1, <1>2, <1>3 DEF LiveAnswerJoin
<1>6. CASE admit
  <2>1. stack' = <<Changed(r, room)>> \o Below
    BY <1>1, <1>2, <1>5, <1>6
  <2> QED
    BY <1>2, <1>4, <1>5, <2>1, EditKeeps
<1>7. CASE ~admit
  <2>1. PICK f : f = RequestRefused(r, before)
    OBVIOUS
  <2>2. stack' = <<f>> \o Below /\ f \in {Requested(r, before), RequestRefused(r, before)}
    BY <1>1, <1>2, <1>7, <2>1
  <2> QED
    BY <1>2, <1>4, <1>5, <1>7, <2>2, AskedKeeps
<1> QED
  BY <1>6, <1>7

LEMMA HandleLeaveKeeps ==
  ASSUME DInv, KeepInv, At("handle"), NEW c \in Connections, NEW r \in Rooms,
         HandleLeave(c, r), UNCHANGED copy
  PROVE  KeepInv'
<1>1. PICK id : /\ CallerFor(id, c, r) /\ Part(r, sessions[r], id, Below)
                /\ UNCHANGED <<instances, byConnection>>
  BY DEF HandleLeave
<1>2. PICK room \in LiveEntry : room = sessions[r] /\ r \in DOMAIN sessions
  BY <1>1, CallingFacts DEF CallerFor, RoomsTyped
<1>3. \A g \in ToSet(Below) : FALSE
  BY HandledFacts
<1>4. Part(r, room, id, Below) /\ sessions[r].project = room.project
  BY <1>1, <1>2
<1> QED
  BY <1>1, <1>2, <1>3, <1>4, HandledFacts, PartKeeps

LEMMA HandleCloseKeeps ==
  ASSUME DInv, KeepInv, At("handle"), NEW c \in Connections, NEW r \in Rooms,
         HandleClose(c, r), UNCHANGED copy
  PROVE  KeepInv'
<1>1. PICK id : /\ CallerFor(id, c, r) /\ End(r, sessions[r], Below)
                /\ UNCHANGED <<instances, byConnection>>
  BY DEF HandleClose
<1>2. PICK room \in LiveEntry : room = sessions[r] /\ r \in DOMAIN sessions
  BY <1>1, CallingFacts DEF CallerFor, RoomsTyped
<1>3. End(r, room, Below) /\ sessions[r].project = room.project
  BY <1>1, <1>2
<1> QED
  BY <1>1, <1>2, <1>3, HandledFacts, EndKeeps

LEMMA HandleSayKeeps ==
  ASSUME DInv, KeepInv, At("handle"), NEW c \in Connections, NEW r \in Rooms,
         HandleSay(c, r), UNCHANGED copy
  PROVE  KeepInv'
<1>1. stack' = <<Said(r)>> \o Below /\ UNCHANGED <<instances, byConnection, sessions>>
  BY DEF HandleSay, presence
<1>2. PICK f : f = Said(r)
  OBVIOUS
<1>3. /\ f.at = "publish" /\ f.kind = "live-message" /\ EventOf(f) = f
      /\ \A t : Tells(f, t) <=> RoomTopic(r) = t
  BY <1>2, PublishTells DEF Said
<1>4. CalmFrame(f)' /\ Fits(f, Below)
  BY <1>3, HandledFacts DEF CalmFrame, Fits
<1>5. CalmCalls' /\ Calling' = {f} \cup ToSet(Below)
  <2>1. stack' = <<f>> \o Below /\ \A g \in ToSet(Below) : CalmFrame(g)'
    BY <1>1, <1>2, HandledFacts
  <2> QED
    BY <1>4, <2>1, HandledFacts, CalmPushed
<1>6. ASSUME NEW t \in Topics, Collected(t)
      PROVE  SameTold(t) /\ Collection(t)' = Collection(t)
  <2>1. RoomTopic(r) # t
    BY <1>6, TopicsOf DEF Collected
  <2>2. PICK more : more = {f}
    OBVIOUS
  <2>3. Calling' = more \cup ToSet(Below) /\ \A g \in more : ~Tells(g, t)
    BY <1>3, <1>5, <2>1, <2>2
  <2> QED
    BY <1>1, <2>3, HandledFacts, LeavesSame, CollectionsKeep
<1>7. CopiesRight'
  BY <1>6, CopiesStay DEF KeepInv, CopiesKept
<1> QED
  BY <1>1, <1>5, <1>7 DEF KeepInv, SlowAreBare

LEMMA HandleWithdrawKeeps ==
  ASSUME DInv, KeepInv, At("handle"), NEW c \in Connections, NEW p,
         HandleWithdraw(c, p), UNCHANGED copy
  PROVE  KeepInv'
<1>1. PICK id \in ToSet(byConnection[c]) :
        /\ IsInstanceOn(id, c, p)
        /\ byConnection' = [byConnection EXCEPT ![c] = SetDelete(@, id)]
        /\ instances' = MapDelete(instances, {id})
        /\ stack' = <<Retire(id)>> \o Below
        /\ UNCHANGED sessions
  BY DEF HandleWithdraw
<1>2. id \in DOMAIN instances
  BY <1>1 DEF IsInstanceOn, OnProject
<1>3. SlowAreBare'
  <2>1. c \notin SlowPeers
    <3>1. byConnection[c] # <<>>
      BY <1>1, NothingStacked
    <3> QED
      BY <3>1 DEF KeepInv, SlowAreBare
  <2>2. \A d \in Connections : d # c => byConnection'[d] = byConnection[d]
    BY <1>1, CallingFacts
  <2> QED
    BY <2>1, <2>2, DeliveryAssumption DEF KeepInv, SlowAreBare
<1>4. PICK f : f = Retire(id)
  OBVIOUS
<1>5. f.at = "retire" /\ f.rooms \subseteq DOMAIN sessions
  BY <1>4 DEF Retire
<1>6. CalmFrame(f)'
  <2>1. Collected(EventOf(f).topic)
    BY <1>5, RetireTells, TopicsOf DEF Collected
  <2> QED
    BY <1>1, <1>5, <2>1 DEF CalmFrame
<1>7. Fits(f, Below)
  BY <1>5, HandledFacts DEF Fits
<1>8. CalmCalls' /\ Calling' = {f} \cup ToSet(Below)
  <2>1. stack' = <<f>> \o Below /\ \A g \in ToSet(Below) : CalmFrame(g)'
    BY <1>1, <1>4, HandledFacts
  <2> QED
    BY <1>6, <1>7, <2>1, HandledFacts, CalmPushed
<1>9. CopiesRight'
  <2>1. /\ f \in Calling' /\ \A g \in Calling' : g = f \/ ~TellsSomething(g)
        /\ \A g \in Calling : ~TellsSomething(g)
    BY <1>8, HandledFacts
  <2> QED
    BY <1>1, <1>2, <1>4, <2>1, RetireBegins
<1> QED
  BY <1>3, <1>8, <1>9 DEF KeepInv

\* What is published is nothing, one thing or two, of two topics.
LEMMA UpToTwoCalm ==
  ASSUME NEW f, CalmFrame(f)', f.at = "publish",
         NEW g, CalmFrame(g)', g.at = "publish",
         NEW front, front = <<>> \/ front = <<f>>,
         NEW back, back = <<>> \/ back = <<g>>,
         back = <<g>> => FrameOK(g),
         front = <<f>> /\ back = <<g>> => f.topic # g.topic,
         stack' = front \o back \o <<>>
  PROVE  /\ CalmCalls'
         /\ \A h : h \in Calling' <=> (front = <<f>> /\ h = f) \/ (back = <<g>> /\ h = g)
<1>1. \A t : (Tells(f, t) <=> f.topic = t) /\ (Tells(g, t) <=> g.topic = t)
  BY DEF Tells, TellsSomething, EventOf
<1>2. /\ <<>> \o <<>> = <<>> /\ <<f>> \o <<>> = <<f>> /\ <<g>> \o <<>> = <<g>>
      /\ <<>> \o <<g>> = <<g>>
  OBVIOUS
<1>3. <<f>> # <<>> /\ <<g>> # <<>>
  OBVIOUS
<1>4. Stacked(<<>>) /\ Calm(<<>>) /\ ToSet(<<>>) = {} /\ \A h : Fits(h, <<>>)
  BY NothingStacked, CalmNothing
<1>5. CASE front = <<>> /\ back = <<>>
  <2>1. stack' = <<>> /\ Calling' = {}
    BY <1>2, <1>4, <1>5 DEF Calling
  <2> QED
    BY <1>3, <1>4, <1>5, <2>1 DEF CalmCalls
<1>6. CASE front = <<f>> /\ back = <<>>
  <2>1. stack' = <<f>> \o <<>>
    BY <1>2, <1>6
  <2>2. CalmCalls' /\ Calling' = {f} \cup ToSet(<<>>)
    BY <1>4, <2>1, CalmPushed
  <2> QED
    BY <1>3, <1>4, <1>6, <2>2
<1>7. CASE front = <<>> /\ back = <<g>>
  <2>1. stack' = <<g>> \o <<>>
    BY <1>2, <1>7
  <2>2. CalmCalls' /\ Calling' = {g} \cup ToSet(<<>>)
    BY <1>4, <2>1, CalmPushed
  <2> QED
    BY <1>3, <1>4, <1>7, <2>2
<1>8. CASE front = <<f>> /\ back = <<g>>
  <2>1. PICK below : below = <<g>> \o <<>>
    OBVIOUS
  <2>2. Stacked(below) /\ ToSet(below) = {g}
    <3>1. Stacked(<<g>> \o <<>>) /\ ToSet(<<g>> \o <<>>) = {g} \cup ToSet(<<>>)
      BY <1>4, <1>8, Pushed
    <3> QED
      BY <1>4, <2>1, <3>1
  <2>3. Calm(below)
    BY <1>4, <2>1, CalmFits
  <2>4. Fits(f, below)
    BY <1>1, <1>8, <2>2 DEF Fits
  <2>5. stack' = <<f>> \o below
    <3>1. <<f, g>> \o <<>> = <<f>> \o below
      BY <1>4, <2>1, TwoInFront
    <3>2. <<f>> \o <<g>> = <<f, g>>
      BY OneAndOne
    <3>3. stack' = (<<f>> \o <<g>>) \o <<>>
      BY <1>8
    <3> QED
      BY ONLY <3>1, <3>2, <3>3
  <2>6. CalmCalls' /\ Calling' = {f} \cup ToSet(below)
    BY <2>2, <2>3, <2>4, <2>5, CalmPushed
  <2> QED
    BY <1>3, <1>8, <2>2, <2>6
<1> QED
  BY <1>5, <1>6, <1>7, <1>8

LEMMA HandleAnnounceKeeps ==
  ASSUME AnnouncersKeepUp, DInv, KeepInv, At("handle"), NEW c \in Connections,
         c = Top.connection, Top.call.method = "clients.announce",
         NEW id, NEW p \in Projects \cup {NoProject},
         HandleAnnounce(c, id, p), UNCHANGED copy
  PROVE  KeepInv'
<1>1. PICK before : before = (IF id \in DOMAIN instances THEN instances[id].project ELSE NoProject)
  OBVIOUS
<1>2. PICK entry : entry = Entry(c, p)
  OBVIOUS
<1>3. entry.project = p
  BY <1>2 DEF Entry
<1>4. /\ instances' = MapSet(instances, id, entry) /\ UNCHANGED sessions
      /\ \A d \in Connections : d # c =>
           byConnection'[d] = byConnection[d] \/ byConnection'[d] = SetDelete(byConnection[d], id)
      /\ stack' = (IF before \in {NoProject, p} THEN <<>> ELSE <<ClientGone(id, before)>>)
                    \o (IF p = NoProject THEN <<>> ELSE <<ClientHere(id, p)>>) \o Below
  BY <1>1, <1>2 DEF HandleAnnounce, Announce, Hold
<1>5. SlowAreBare'
  <2>1. c \notin SlowPeers
    BY HandledFacts DEF AnnouncersKeepUp, CalmFrame
  <2>2. SetDelete(<<>>, id) = <<>>
    BY NothingStacked DEF SetDelete
  <2> QED
    BY <1>4, <2>1, <2>2, DeliveryAssumption DEF KeepInv, SlowAreBare
<1>6. PICK f, g : f = ClientGone(id, before) /\ g = ClientHere(id, p)
  OBVIOUS
<1>7. /\ f.at = "publish" /\ EventOf(f) = f /\ f.topic = ClientsTopic(before)
      /\ \A t : Tells(f, t) <=> ClientsTopic(before) = t
  <2>1. f = Publish(ClientsTopic(before), "client-gone", id, "gone")
    BY <1>6 DEF ClientGone
  <2>2. f.topic = ClientsTopic(before)
    BY <2>1 DEF Publish
  <2> QED
    BY <2>1, <2>2, PublishTells
<1>8. /\ g.at = "publish" /\ EventOf(g) = g /\ g.topic = ClientsTopic(p)
      /\ \A t : Tells(g, t) <=> ClientsTopic(p) = t
  <2>1. g = Publish(ClientsTopic(p), "client-here", id, "here")
    BY <1>6 DEF ClientHere
  <2>2. g.topic = ClientsTopic(p)
    BY <2>1 DEF Publish
  <2> QED
    BY <2>1, <2>2, PublishTells
<1>9. PICK front, back :
        /\ front = (IF before \in {NoProject, p} THEN <<>> ELSE <<f>>)
        /\ back = (IF p = NoProject THEN <<>> ELSE <<g>>)
  OBVIOUS
<1>10. /\ front = <<f>> <=> before \notin {NoProject, p}
       /\ back = <<g>> <=> p # NoProject
       /\ front = <<>> \/ front = <<f>>
       /\ back = <<>> \/ back = <<g>>
  <2>1. <<f>> # <<>> /\ <<g>> # <<>>
    OBVIOUS
  <2> QED
    BY <1>9, <2>1
<1>11. CalmFrame(f)' /\ CalmFrame(g)'
  BY <1>7, <1>8, TopicsOf DEF CalmFrame, Collected
<1>12. back = <<g>> => FrameOK(g)
  BY <1>6, <1>10, PublishOK, TopicFacts DEF ClientHere
<1>13. front = <<f>> => f.topic # g.topic
  <2>1. before # p => ClientsTopic(before) # ClientsTopic(p)
    BY TopicsOf
  <2> QED
    BY <1>7, <1>8, <1>10, <2>1
<1>14. /\ CalmCalls'
       /\ \A h : h \in Calling' <=>
            (before \notin {NoProject, p} /\ h = f) \/ (p # NoProject /\ h = g)
  <2>1. stack' = front \o back \o <<>>
    BY <1>4, <1>6, <1>9, HandledFacts
  <2>2. /\ CalmCalls'
        /\ \A h : h \in Calling' <=> (front = <<f>> /\ h = f) \/ (back = <<g>> /\ h = g)
    BY <1>7, <1>8, <1>10, <1>11, <1>12, <1>13, <2>1, UpToTwoCalm
  <2> QED
    BY <1>10, <2>2, Zenon
<1>15. \A h \in Calling : \A t : ~Tells(h, t)
  BY HandledFacts
<1>16. ASSUME NEW t \in Topics, Collected(t)
       PROVE  (SameTold(t) /\ Collection(t)' = Collection(t)) \/ NewlyTold(t)
  <2>1. CASE t.of = "clients" /\ t.key = p
    <3>1. t = ClientsTopic(p) /\ p # NoProject
      BY <2>1, TopicsOf, PresenceAssumption
    <3>2. Collection(t)' = MapSet(Collection(t), id, "here")
      <4>1. t.key = entry.project
        BY <1>3, <2>1
      <4> QED
        BY <1>4, <2>1, <4>1, ClientsSet
    <3>3. Moves(t, g)
      BY <1>6, <2>1, <3>2, HereMoves
    <3> QED
      BY <1>8, <1>14, <1>15, <3>1, <3>3 DEF NewlyTold
  <2>2. CASE t.of = "clients" /\ t.key # p
    <3>1. PICK gone : gone = {id}
      OBVIOUS
    <3>2. Collection(t)' = MapDelete(Collection(t), {id})
      BY <1>3, <1>4, <2>2, ClientsSet
    <3>3. t = ClientsTopic(t.key) /\ t.key \in Projects /\ t.key # NoProject /\ t # ClientsTopic(p)
      BY <2>2, TopicsOf, PresenceAssumption
    <3>4. CASE t.key = before
      <4>1. Moves(t, f)
        BY <1>6, <2>2, <3>2, GoneMoves
      <4>2. f \in Calling' /\ Tells(f, t)
        BY <1>7, <1>14, <2>2, <3>3, <3>4
      <4> QED
        BY <1>7, <1>15, <4>1, <4>2 DEF NewlyTold
    <3>5. CASE t.key # before
      <4>1. MapDelete(Collection(t), {id}) = Collection(t)
        BY <1>1, <2>2, <3>5, ClientsWithout
      <4>2. t # ClientsTopic(before)
        BY <3>5, TopicsOf
      <4>3. SameTold(t)
        BY <1>7, <1>8, <1>14, <1>15, <3>3, <4>2, SameCalls
      <4> QED
        BY <3>2, <4>1, <4>3
    <3> QED
      BY <3>4, <3>5
  <2>3. CASE t.of = "live"
    <3>1. t # ClientsTopic(before) /\ t # ClientsTopic(p)
      BY <2>3, TopicsOf
    <3>2. SameTold(t)
      BY <1>7, <1>8, <1>14, <1>15, <3>1, SameCalls
    <3> QED
      BY <1>4, <2>3, <3>2, CollectionsKeep
  <2> QED
    BY <1>16, <2>1, <2>2, <2>3 DEF Collected
<1>17. CopiesRight'
  BY <1>16, CopiesStay DEF KeepInv, CopiesKept
<1> QED
  BY <1>5, <1>14, <1>17 DEF KeepInv

LEMMA HandleCallKeeps ==
  ASSUME AnnouncersKeepUp, DInv, KeepInv, HandleCall
  PROVE  KeepInv'
<1>1. At("handle") /\ UNCHANGED copy
  BY DEF HandleCall
<1>2. PICK c \in Connections, call \in Calls : c = Top.connection /\ call = Top.call
  BY <1>1, CallingFacts
<1>3. \/ call.method = "clients.announce" /\ HandleAnnounce(c, call.id, call.project)
      \/ call.method = "clients.withdraw" /\ HandleWithdraw(c, call.project)
      \/ call.method = "live.open"        /\ HandleOpen(c, call.project, call.rule)
      \/ call.method = "live.rule"        /\ HandleRule(c, call.room, call.rule)
      \/ call.method = "live.join"        /\ HandleJoin(c, call.room, call.byCode)
      \/ call.method = "live.requestJoin" /\ HandleRequestJoin(c, call.room)
      \/ call.method = "live.answerJoin"
           /\ HandleAnswerJoin(c, call.room, call.asked, call.admit)
      \/ call.method = "live.leave"       /\ HandleLeave(c, call.room)
      \/ call.method = "live.close"       /\ HandleClose(c, call.room)
      \/ call.method = "live.say"         /\ HandleSay(c, call.room)
  BY <1>2 DEF HandleCall
<1>4. CASE call.method = "clients.announce" /\ HandleAnnounce(c, call.id, call.project)
  BY <1>1, <1>2, <1>4, CallFacts, HandleAnnounceKeeps
<1>5. CASE HandleWithdraw(c, call.project)
  BY <1>1, <1>5, HandleWithdrawKeeps
<1>6. CASE HandleOpen(c, call.project, call.rule)
  BY <1>1, <1>6, HandleOpenKeeps
<1>7. CASE call.method = "live.rule" /\ HandleRule(c, call.room, call.rule)
  BY <1>1, <1>7, CallFacts, HandleRuleKeeps
<1>8. CASE call.method = "live.join" /\ HandleJoin(c, call.room, call.byCode)
  BY <1>1, <1>8, CallFacts, HandleJoinKeeps
<1>9. CASE call.method = "live.requestJoin" /\ HandleRequestJoin(c, call.room)
  BY <1>1, <1>9, CallFacts, HandleRequestJoinKeeps
<1>10. CASE call.method = "live.answerJoin"
              /\ HandleAnswerJoin(c, call.room, call.asked, call.admit)
  BY <1>1, <1>10, CallFacts, HandleAnswerJoinKeeps
<1>11. CASE call.method = "live.leave" /\ HandleLeave(c, call.room)
  BY <1>1, <1>11, CallFacts, HandleLeaveKeeps
<1>12. CASE call.method = "live.close" /\ HandleClose(c, call.room)
  BY <1>1, <1>12, CallFacts, HandleCloseKeeps
<1>13. CASE call.method = "live.say" /\ HandleSay(c, call.room)
  BY <1>1, <1>13, CallFacts, HandleSayKeeps
<1> QED
  BY <1>3, <1>4, <1>5, <1>6, <1>7, <1>8, <1>9, <1>10, <1>11, <1>12, <1>13

-----------------------------------------------------------------------------

LEMMA KeepInit == DInit => KeepInv
<1> SUFFICES ASSUME DInit
             PROVE  KeepInv
  OBVIOUS
<1>1. /\ stack = <<>> /\ byConnection = [c \in Connections |-> <<>>]
      /\ copy = [c \in Connections |-> <<>>]
  BY DEF DInit, Init
<1>2. SlowAreBare
  BY <1>1, DeliveryAssumption DEF SlowAreBare
<1>3. CalmCalls
  BY <1>1, CalmNothing, NothingStacked DEF CalmCalls, Calling
<1>4. CopiesRight
  BY <1>1 DEF CopiesRight
<1> QED
  BY <1>2, <1>3, <1>4 DEF KeepInv

LEMMA KeepStep ==
  ASSUME AnnouncersKeepUp, DInv, KeepInv, [DNext]_dvars
  PROVE  KeepInv'
<1>1. CASE HandleCall
  BY <1>1, HandleCallKeeps
<1>2. CASE HandleSubscribe
  BY <1>2, HandleSubscribeKeeps
<1>3. CASE HandleUnsubscribe
  BY <1>3, HandleUnsubscribeKeeps
<1>4. CASE Refuse \/ DropDone \/ Forget
  BY <1>4, ReturnKeeps
<1>5. CASE BeginPublish
  BY <1>5, BeginPublishKeeps
<1>6. CASE Deliver
  BY <1>6, DeliverKeeps
<1>7. CASE DropNext
  BY <1>7, DropNextKeeps
<1>8. CASE RetireFromRoom
  BY <1>8, RetireFromRoomKeeps
<1>9. CASE RetireDone
  BY <1>9, RetireDoneKeeps
<1>10. CASE CloseAll
  BY <1>10, KeepSame DEF CloseAll, presence
<1>11. ASSUME NEW c \in Connections, Open(c)
       PROVE  KeepInv'
  BY <1>11, KeepSame DEF Open, presence
<1>12. ASSUME NEW c \in Connections, Close(c)
       PROVE  KeepInv'
  BY <1>12, CloseKeeps
<1>13. ASSUME NEW c \in Connections, NEW call \in Sends[c], Receive(c, call)
       PROVE  KeepInv'
  BY <1>13, ReceiveKeeps
<1>14. ASSUME NEW c \in Connections, Revalidate(c)
       PROVE  KeepInv'
  BY <1>14, RevalidateKeeps
<1>15. ASSUME NEW c \in Connections, NEW t \in Topics, ReadAgain(c, t)
       PROVE  KeepInv'
  BY <1>15, ReadAgainKeeps
<1>16. ASSUME NEW a \in Accounts, Demote(a)
       PROVE  KeepInv'
  BY <1>16, KeepSame DEF Demote, presence
<1>17. CASE PublishElsewhere
  BY <1>17, PublishElsewhereKeeps
<1>18. CASE Stop
  BY <1>18, KeepSame DEF Stop, presence
<1>19. CASE UNCHANGED dvars
  BY <1>19, KeepSame DEF dvars, presence
<1> QED
  BY <1>1, <1>2, <1>3, <1>4, <1>5, <1>6, <1>7, <1>8, <1>9, <1>10, <1>11, <1>12, <1>13, <1>14,
     <1>15, <1>16, <1>17, <1>18, <1>19 DEF DNext, Run, Arrive

(* A client in step holds what a read would give it ("anything other than  *)
(* exactly the next number means read the collection again",               *)
(* docs/protocol.md): presence.ts tells of each change of a collection     *)
(* what it became, and of the next only once that is told, as long as no   *)
(* client that announces has more queued than it reads.                    *)
THEOREM InStepIsRight ==
  ASSUME AnnouncersKeepUp
  PROVE  DSpec => []InStepMeansRight
<1>1. DInit => DInv /\ KeepInv
  BY DInvInit, KeepInit
<1>2. DInv /\ KeepInv /\ [DNext]_dvars => (DInv /\ KeepInv)'
  BY DInvStep, KeepStep
<1>3. DInv /\ KeepInv => InStepMeansRight
  <2> SUFFICES ASSUME DInv, KeepInv, Idle, NEW c \in Connections, NEW t \in DOMAIN copy[c]
               PROVE  Listed(t, copy[c][t].view) = Collection(t)
    BY DEF InStepMeansRight
  <2>1. Calling = {} /\ CopyRight(c, t)
    BY IdleFacts DEF KeepInv, CopiesRight
  <2>2. CASE Collected(t)
    BY <2>1, <2>2 DEF CopyRight, RightOf
  <2>3. CASE ~Collected(t)
    BY <2>1, <2>3, ListedAsIs DEF CopyRight
  <2> QED
    BY <2>2, <2>3
<1> QED
  BY <1>1, <1>2, <1>3, PTL DEF DSpec

=============================================================================
