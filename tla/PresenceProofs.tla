--------------------------- MODULE PresenceProofs ---------------------------
(***************************************************************************)
(* The invariants of Presence and of Delivery, for any number of           *)
(* connections, accounts, installations, projects and rooms.               *)
(***************************************************************************)
EXTENDS Delivery, FiniteSetTheorems, SequenceTheorems, TLAPS

-----------------------------------------------------------------------------
(* The Set of ids a connection carries is a sequence without repetitions.  *)

\* SetAdd adds, once.
LEMMA SetAddFacts ==
  ASSUME NEW S, NEW held \in Seq(S), NEW id \in S, IsInjective(held)
  PROVE  /\ SetAdd(held, id) \in Seq(S)
         /\ ToSet(SetAdd(held, id)) = ToSet(held) \cup {id}
         /\ IsInjective(SetAdd(held, id))
         /\ Len(SetAdd(held, id)) = IF id \in ToSet(held) THEN Len(held) ELSE Len(held) + 1
<1>1. CASE id \in ToSet(held)
  BY <1>1 DEF SetAdd, ToSet
<1>2. CASE id \notin ToSet(held)
  <2>1. SetAdd(held, id) = Append(held, id)
    BY <1>2 DEF SetAdd
  <2>2. /\ Append(held, id) \in Seq(S)
        /\ Len(Append(held, id)) = Len(held) + 1
        /\ \A n \in 1 .. Len(held) : Append(held, id)[n] = held[n]
        /\ Append(held, id)[Len(held) + 1] = id
    OBVIOUS
  <2>3. ToSet(Append(held, id)) = ToSet(held) \cup {id}
    BY <2>2 DEF ToSet
  <2>4. IsInjective(Append(held, id))
    BY <1>2, <2>2 DEF ToSet, IsInjective
  <2> QED
    BY <1>2, <2>1, <2>2, <2>3, <2>4
<1> QED
  BY <1>1, <1>2

\* RemoveAt closes the gap.
LEMMA RemoveAtFacts ==
  ASSUME NEW S, NEW held \in Seq(S), NEW k \in DOMAIN held
  PROVE  /\ RemoveAt(held, k) \in Seq(S)
         /\ Len(RemoveAt(held, k)) = Len(held) - 1
         /\ \A n \in 1 .. Len(held) - 1 :
              RemoveAt(held, k)[n] = IF n < k THEN held[n] ELSE held[n + 1]
<1>1. k \in 1 .. Len(held) /\ Len(held) \in Nat
  OBVIOUS
<1>2. /\ SubSeq(held, 1, k - 1) \in Seq(S)
      /\ Len(SubSeq(held, 1, k - 1)) = k - 1
      /\ \A n \in 1 .. k - 1 : SubSeq(held, 1, k - 1)[n] = held[n]
  BY <1>1
<1>3. /\ SubSeq(held, k + 1, Len(held)) \in Seq(S)
      /\ Len(SubSeq(held, k + 1, Len(held))) = Len(held) - k
      /\ \A n \in 1 .. Len(held) - k : SubSeq(held, k + 1, Len(held))[n] = held[n + k]
  BY <1>1
<1>4. ASSUME NEW front \in Seq(S), NEW back \in Seq(S),
             Len(front) = k - 1, Len(back) = Len(held) - k
      PROVE  /\ front \o back \in Seq(S)
             /\ Len(front \o back) = Len(held) - 1
             /\ \A n \in 1 .. Len(held) - 1 :
                  (front \o back)[n] = IF n < k THEN front[n] ELSE back[n - (k - 1)]
  BY <1>1, <1>4, SMTT(30)
<1>5. ASSUME NEW n \in 1 .. Len(held) - 1, ~(n < k)
      PROVE  n - (k - 1) \in 1 .. Len(held) - k /\ (n - (k - 1)) + k = n + 1
  BY <1>1, <1>5
<1>6. ASSUME NEW n \in 1 .. Len(held) - 1
      PROVE  RemoveAt(held, k)[n] = IF n < k THEN held[n] ELSE held[n + 1]
  <2>1. RemoveAt(held, k)[n] = IF n < k THEN SubSeq(held, 1, k - 1)[n]
                               ELSE SubSeq(held, k + 1, Len(held))[n - (k - 1)]
    BY <1>2, <1>3, <1>4 DEF RemoveAt
  <2>2. n < k => SubSeq(held, 1, k - 1)[n] = held[n]
    BY <1>1, <1>2
  <2>3. ~(n < k) => SubSeq(held, k + 1, Len(held))[n - (k - 1)] = held[n + 1]
    <3> SUFFICES ASSUME ~(n < k)
                 PROVE  SubSeq(held, k + 1, Len(held))[n - (k - 1)] = held[n + 1]
      OBVIOUS
    <3>1. /\ n - (k - 1) \in 1 .. Len(held) - k
          /\ (n - (k - 1)) + k = n + 1
      BY <1>5
    <3> QED
      BY <1>3, <3>1, Zenon
  <2> QED
    BY <2>1, <2>2, <2>3
<1>7. RemoveAt(held, k) \in Seq(S) /\ Len(RemoveAt(held, k)) = Len(held) - 1
  BY <1>2, <1>3, <1>4 DEF RemoveAt
<1> QED
  BY <1>6, <1>7

\* SetDelete removes, and keeps the order of the rest.
LEMMA SetDeleteFacts ==
  ASSUME NEW S, NEW held \in Seq(S), NEW id, IsInjective(held)
  PROVE  /\ SetDelete(held, id) \in Seq(S)
         /\ ToSet(SetDelete(held, id)) = ToSet(held) \ {id}
         /\ IsInjective(SetDelete(held, id))
         /\ Len(SetDelete(held, id)) <= Len(held)
<1>1. CASE id \notin ToSet(held)
  BY <1>1 DEF SetDelete, ToSet
<1>2. CASE id \in ToSet(held)
  <2> DEFINE k == CHOOSE n \in DOMAIN held : held[n] = id
             rest == RemoveAt(held, k)
  <2>1. k \in DOMAIN held /\ held[k] = id
    BY <1>2 DEF ToSet
  <2>2. SetDelete(held, id) = rest
    BY <1>2 DEF SetDelete
  <2> HIDE DEF k
  <2>3. /\ rest \in Seq(S)
        /\ Len(rest) = Len(held) - 1
        /\ \A n \in 1 .. Len(held) - 1 : rest[n] = IF n < k THEN held[n] ELSE held[n + 1]
    BY <2>1, RemoveAtFacts
  <2> HIDE DEF rest
  <2>4. DOMAIN held = 1 .. Len(held) /\ DOMAIN rest = 1 .. Len(held) - 1 /\ Len(held) \in Nat
    BY <2>3
  <2>5. ToSet(rest) \subseteq ToSet(held) \ {id}
    BY <2>1, <2>3, <2>4, SMTT(30) DEF ToSet, IsInjective
  <2>6. ToSet(held) \ {id} \subseteq ToSet(rest)
    <3> SUFFICES ASSUME NEW n \in DOMAIN held, held[n] # id
                 PROVE  held[n] \in ToSet(rest)
      BY DEF ToSet
    <3>1. CASE n < k
      BY <3>1, <2>1, <2>3, <2>4 DEF ToSet
    <3>2. CASE n > k
      <4>1. n - 1 \in 1 .. Len(held) - 1 /\ ~(n - 1 < k) /\ (n - 1) + 1 = n
        BY <3>2, <2>1, <2>4
      <4>2. rest[n - 1] = held[n]
        BY <4>1, <2>3
      <4> QED
        BY <4>1, <4>2, <2>4 DEF ToSet
    <3> QED
      BY <3>1, <3>2, <2>1, <2>4
  <2>7. IsInjective(rest)
    <3> SUFFICES ASSUME NEW m \in DOMAIN rest, NEW n \in DOMAIN rest, rest[m] = rest[n]
                 PROVE  m = n
      BY DEF IsInjective
    <3> DEFINE from(j) == IF j < k THEN j ELSE j + 1
    <3>1. /\ from(m) \in DOMAIN held /\ rest[m] = held[from(m)]
          /\ from(n) \in DOMAIN held /\ rest[n] = held[from(n)]
      BY <2>1, <2>3, <2>4
    <3>2. from(m) = from(n)
      BY <3>1 DEF IsInjective
    <3> QED
      BY <3>2, <2>1, <2>4
  <2> QED
    BY <2>2, <2>3, <2>4, <2>5, <2>6, <2>7
<1> QED
  BY <1>1, <1>2

-----------------------------------------------------------------------------
(* The inductive invariant: type correctness and every invariant that      *)
(* TLC checks, which need each other.  Rooms are led only because a close  *)
(* finds every instance it carried (CarriedOnce), and control stays put    *)
(* only because the opener of an open room is still connected              *)
(* (RoomsAreLed).                                                          *)

IInv ==
  /\ TypeOK
  /\ CarriedOnce
  /\ RoomsAreLed
  /\ ControlStaysPut
  /\ CodesAreAddresses
  /\ WithinLimits

\* The part of IInv that is about rooms.
RoomsInv ==
  /\ DOMAIN sessions \subseteq Rooms
  /\ sessions \in [DOMAIN sessions -> LiveEntry]
  /\ RoomsAreLed
  /\ ControlStaysPut
  /\ CodesAreAddresses
  /\ ProjectsWithinLimit

\* The part of IInv that is about connections and what they carry.
CarriedInv ==
  /\ DOMAIN instances \subseteq Instances
  /\ instances \in [DOMAIN instances -> InstanceEntry]
  /\ byConnection \in [Connections -> Seq(Instances)]
  /\ CarriedOnce
  /\ ConnectionsWithinLimit

\* The two halves are the whole.
LEMMA IInvParts == IInv <=> RoomsInv /\ CarriedInv
BY DEF IInv, RoomsInv, CarriedInv, TypeOK, WithinLimits

\* An empty server satisfies it.
LEMMA IInvInit == Init => IInv
<1> SUFFICES ASSUME Init
             PROVE  RoomsInv /\ CarriedInv
  BY IInvParts
<1>1. DOMAIN instances = {} /\ DOMAIN sessions = {}
  BY DEF Init
<1>2. \A c \in Connections : byConnection[c] = <<>>
  BY DEF Init
<1>3. \A p : RoomsOf(p) = {}
  BY <1>1 DEF RoomsOf
<1>4. Cardinality({}) = 0 /\ IsFiniteSet({})
  BY FS_EmptySet
<1>5. RoomsInv
  <2>1. sessions \in [DOMAIN sessions -> LiveEntry]
    BY <1>1 DEF Init
  <2> QED
    BY <1>1, <1>3, <1>4, <2>1, PresenceAssumption
       DEF RoomsInv, RoomsAreLed, ControlStaysPut, CodesAreAddresses, ProjectsWithinLimit
<1>6. CarriedInv
  <2>1. instances \in [DOMAIN instances -> InstanceEntry]
    BY <1>1 DEF Init
  <2>2. byConnection \in [Connections -> Seq(Instances)]
    BY DEF Init
  <2>3. CarriedOnce
    BY <1>1, <1>2 DEF CarriedOnce, IsInjective, ToSet
  <2>4. ConnectionsWithinLimit
    BY <1>2, PresenceAssumption DEF ConnectionsWithinLimit
  <2> QED
    BY <1>1, <2>1, <2>2, <2>3, <2>4 DEF CarriedInv
<1> QED
  BY <1>5, <1>6

-----------------------------------------------------------------------------
(* The three ways the Map of rooms changes while every instance stays.     *)

\* One room changes and keeps what it is: its project, its opener, its code.
LEMMA RoomChanged ==
  ASSUME RoomsInv, NEW r \in DOMAIN sessions, NEW room \in LiveEntry,
         room.project = sessions[r].project,
         room.openedBy = sessions[r].openedBy,
         room.openedByInstance = sessions[r].openedByInstance,
         room.code = sessions[r].code,
         room.openedByInstance \in room.members,
         room.members \cup room.requests \subseteq DOMAIN instances,
         sessions' = [sessions EXCEPT ![r] = room],
         UNCHANGED instances
  PROVE  RoomsInv'
<1> USE DEF RoomsInv
<1>1. /\ DOMAIN sessions' = DOMAIN sessions
      /\ sessions'[r] = room
      /\ \A s \in DOMAIN sessions : s # r => sessions'[s] = sessions[s]
  OBVIOUS
<1>2. DOMAIN sessions' \subseteq Rooms /\ sessions' \in [DOMAIN sessions' -> LiveEntry]
  BY <1>1
<1>3. RoomsAreLed'
  BY <1>1 DEF RoomsAreLed
<1>4. ControlStaysPut'
  BY <1>1 DEF ControlStaysPut
<1>5. CodesAreAddresses'
  BY <1>1 DEF CodesAreAddresses
<1>6. ProjectsWithinLimit'
  <2>1. \A p : RoomsOf(p)' = RoomsOf(p)
    BY <1>1 DEF RoomsOf
  <2> QED
    BY <1>1, <2>1 DEF ProjectsWithinLimit
<1> QED
  BY <1>2, <1>3, <1>4, <1>5, <1>6

\* Rooms are removed, and what is left of the others keeps what it is.  The
\* instances that go are in none of them.
LEMMA RoomsRemoved ==
  ASSUME RoomsInv, DOMAIN sessions' \subseteq DOMAIN sessions,
         sessions' \in [DOMAIN sessions' -> LiveEntry],
         \A r \in DOMAIN sessions' :
           /\ sessions'[r].project = sessions[r].project
           /\ sessions'[r].openedBy = sessions[r].openedBy
           /\ sessions'[r].openedByInstance = sessions[r].openedByInstance
           /\ sessions'[r].code = sessions[r].code
           /\ sessions'[r].openedByInstance \in sessions'[r].members
           /\ sessions'[r].members \cup sessions'[r].requests \subseteq DOMAIN instances',
         \A id \in DOMAIN instances' : id \in DOMAIN instances /\ instances'[id] = instances[id]
  PROVE  RoomsInv'
<1> USE DEF RoomsInv
<1>1. RoomsAreLed'
  BY DEF RoomsAreLed
<1>2. ControlStaysPut'
  BY <1>1 DEF ControlStaysPut, RoomsAreLed
<1>3. CodesAreAddresses'
  BY DEF CodesAreAddresses
<1>4. ProjectsWithinLimit'
  <2>1. IsFiniteSet(DOMAIN sessions) /\ IsFiniteSet(DOMAIN sessions')
    BY FS_Subset DEF ProjectsWithinLimit
  <2>2. ASSUME NEW p \in Projects
        PROVE  Cardinality(RoomsOf(p)') <= LiveSessionLimit
    <3>1. RoomsOf(p)' \subseteq RoomsOf(p)
      BY DEF RoomsOf
    <3>2. IsFiniteSet(RoomsOf(p))
      BY <2>1, FS_Subset DEF RoomsOf
    <3>3. Cardinality(RoomsOf(p)') <= Cardinality(RoomsOf(p))
      BY <3>1, <3>2, FS_Subset
    <3>4. Cardinality(RoomsOf(p)) \in Nat /\ Cardinality(RoomsOf(p)') \in Nat
      BY <3>1, <3>2, FS_Subset, FS_CardinalityType
    <3> QED
      BY <3>3, <3>4, PresenceAssumption DEF ProjectsWithinLimit
  <2> QED
    BY <2>1, <2>2 DEF ProjectsWithinLimit
<1> QED
  BY <1>1, <1>2, <1>3, <1>4

\* A room is opened, by an instance that is its first member.
LEMMA RoomOpened ==
  ASSUME RoomsInv, NEW r \in Rooms \ DOMAIN sessions, NEW room \in LiveEntry,
         Cardinality(RoomsOf(room.project)) < LiveSessionLimit,
         room.openedByInstance \in DOMAIN instances,
         room.openedBy = instances[room.openedByInstance].account,
         room.members = {room.openedByInstance},
         room.requests = {},
         room.code \notin TakenCodes,
         sessions' = MapSet(sessions, r, room),
         UNCHANGED instances
  PROVE  RoomsInv'
<1> USE DEF RoomsInv
<1>1. /\ DOMAIN sessions' = DOMAIN sessions \cup {r}
      /\ sessions'[r] = room
      /\ \A s \in DOMAIN sessions : sessions'[s] = sessions[s]
  BY DEF MapSet
<1>3. DOMAIN sessions' \subseteq Rooms /\ sessions' \in [DOMAIN sessions' -> LiveEntry]
  BY <1>1 DEF MapSet
<1>4. RoomsAreLed'
  BY <1>1 DEF RoomsAreLed
<1>5. ControlStaysPut'
  BY <1>1 DEF ControlStaysPut
<1>6. CodesAreAddresses'
  BY <1>1 DEF CodesAreAddresses, TakenCodes
<1>7. ProjectsWithinLimit'
  <2>1. IsFiniteSet(DOMAIN sessions')
    BY <1>1, FS_AddElement DEF ProjectsWithinLimit
  <2>2. ASSUME NEW q \in Projects
        PROVE  Cardinality(RoomsOf(q)') <= LiveSessionLimit
    <3>1. IsFiniteSet(RoomsOf(q)) /\ Cardinality(RoomsOf(q)) \in Nat
      BY FS_Subset, FS_CardinalityType DEF RoomsOf, ProjectsWithinLimit
    <3>2. CASE q = room.project
      <4>1. RoomsOf(q)' = RoomsOf(q) \cup {r} /\ r \notin RoomsOf(q)
        BY <1>1, <3>2 DEF RoomsOf
      <4>2. Cardinality(RoomsOf(q)') = Cardinality(RoomsOf(q)) + 1
        BY <3>1, <4>1, FS_AddElement
      <4> QED
        BY <3>1, <3>2, <4>2, PresenceAssumption
    <3>3. CASE q # room.project
      <4>1. RoomsOf(q)' = RoomsOf(q)
        BY <1>1, <3>3 DEF RoomsOf
      <4> QED
        BY <4>1 DEF ProjectsWithinLimit
    <3> QED
      BY <3>2, <3>3
  <2> QED
    BY <2>1, <2>2 DEF ProjectsWithinLimit
<1> QED
  BY <1>3, <1>4, <1>5, <1>6, <1>7

\* Instances that are gone are gone from every room.
LEMMA RetiredFromRooms ==
  ASSUME RoomsInv, NEW gone,
         instances' = MapDelete(instances, gone),
         sessions' = RoomsWithout(gone)
  PROVE  RoomsInv'
<1> USE DEF RoomsInv
<1>1. /\ DOMAIN sessions' \subseteq DOMAIN sessions
      /\ \A r \in DOMAIN sessions' :
           /\ ~Ends(sessions[r], gone)
           /\ sessions'[r] = [sessions[r] EXCEPT !.members = sessions[r].members \ gone,
                                                !.requests = sessions[r].requests \ gone]
  BY DEF RoomsWithout
<1>2. /\ DOMAIN instances' = DOMAIN instances \ gone
      /\ \A id \in DOMAIN instances' : instances'[id] = instances[id]
  BY DEF MapDelete, Restrict
<1>3. ASSUME NEW r \in DOMAIN sessions'
      PROVE  /\ sessions'[r] \in LiveEntry
             /\ sessions'[r].project = sessions[r].project
             /\ sessions'[r].openedBy = sessions[r].openedBy
             /\ sessions'[r].openedByInstance = sessions[r].openedByInstance
             /\ sessions'[r].code = sessions[r].code
             /\ sessions'[r].members = sessions[r].members \ gone
             /\ sessions'[r].requests = sessions[r].requests \ gone
  <2>1. sessions[r] \in LiveEntry
    BY <1>1
  <2>2. /\ sessions[r].members \ gone \in SUBSET Instances
        /\ sessions[r].requests \ gone \in SUBSET Instances
    BY <2>1 DEF LiveEntry
  <2> DEFINE room     == sessions[r]
             members  == room.members \ gone
             requests == room.requests \ gone
             left     == [room EXCEPT !.members = members, !.requests = requests]
  <2>3. sessions'[r] = left
    BY <1>1
  <2>4. /\ left \in LiveEntry
        /\ left.project = room.project
        /\ left.openedBy = room.openedBy
        /\ left.openedByInstance = room.openedByInstance
        /\ left.code = room.code
        /\ left.members = members
        /\ left.requests = requests
    <3>1. room \in LiveEntry /\ members \in SUBSET Instances /\ requests \in SUBSET Instances
      BY <2>1, <2>2
    <3> HIDE DEF room, members, requests
    <3> QED
      BY <3>1 DEF LiveEntry
  <2> HIDE DEF left
  <2> QED
    BY <2>3, <2>4, Zenon
<1>4. ASSUME NEW r \in DOMAIN sessions'
      PROVE  sessions[r].openedByInstance \notin gone
  BY <1>1 DEF RoomsAreLed, Ends
<1>5. sessions' \in [DOMAIN sessions' -> LiveEntry]
  BY <1>3 DEF RoomsWithout
<1>6. \A r \in DOMAIN sessions' :
        /\ sessions'[r].openedByInstance \in sessions'[r].members
        /\ sessions'[r].members \cup sessions'[r].requests \subseteq DOMAIN instances'
  <2> SUFFICES ASSUME NEW r \in DOMAIN sessions'
               PROVE  /\ sessions'[r].openedByInstance \in sessions'[r].members
                      /\ sessions'[r].members \cup sessions'[r].requests
                           \subseteq DOMAIN instances'
    OBVIOUS
  <2>1. /\ sessions[r].openedByInstance \in sessions[r].members
        /\ sessions[r].members \cup sessions[r].requests \subseteq DOMAIN instances
    BY <1>1 DEF RoomsAreLed
  <2> QED
    BY <1>2, <1>3, <1>4, <2>1
<1> QED
  BY <1>1, <1>2, <1>3, <1>5, <1>6, RoomsRemoved

-----------------------------------------------------------------------------
(* What the actions that move, drop or withdraw instances leave behind.    *)

\* An announcement moves an id to its connection, from the one that carried it.
LEMMA AnnounceKeepsCarried ==
  ASSUME CarriedInv, NEW c \in Connections, NEW id \in Instances,
         NEW p \in Projects \cup {NoProject}, Announce(c, id, p)
  PROVE  CarriedInv'
<1> USE DEF CarriedInv
<1> DEFINE entry == [connection |-> c, account |-> AccountOf[c], project |-> p]
<1>1. entry \in InstanceEntry
  BY PresenceAssumption DEF InstanceEntry
<1>2. /\ DOMAIN instances' = DOMAIN instances \cup {id}
      /\ instances'[id] = entry
      /\ \A j \in DOMAIN instances : j # id => instances'[j] = instances[j]
  BY DEF Announce, Hold, Entry, MapSet
<1>3. DOMAIN instances' \subseteq Instances /\ instances' \in [DOMAIN instances' -> InstanceEntry]
  BY <1>1, <1>2 DEF Announce, Hold, Entry, MapSet
<1> HIDE DEF entry
<1>4. ASSUME NEW d \in Connections
      PROVE  /\ byConnection[d] \in Seq(Instances)
             /\ IsInjective(byConnection[d])
             /\ Len(byConnection[d]) <= InstancesPerConnection
  BY DEF CarriedOnce, ConnectionsWithinLimit
<1>5. ASSUME NEW d \in Connections
      PROVE  /\ byConnection'[d] \in Seq(Instances)
             /\ IsInjective(byConnection'[d])
             /\ Len(byConnection'[d]) <= InstancesPerConnection
             /\ ToSet(byConnection'[d]) = IF d = c THEN ToSet(byConnection[d]) \cup {id}
                                          ELSE ToSet(byConnection[d]) \ {id}
  <2>1. CASE d = c
    <3>1. byConnection'[d] = SetAdd(byConnection[d], id)
      BY <2>1 DEF Announce, Hold, HasRoomFor
    <3>2. id \in ToSet(byConnection[d]) \/ Len(byConnection[d]) < InstancesPerConnection
      BY <2>1 DEF Announce, Hold, HasRoomFor
    <3>3. Len(byConnection[d]) \in Nat /\ InstancesPerConnection \in Nat
      BY <1>4, PresenceAssumption
    <3>4. /\ SetAdd(byConnection[d], id) \in Seq(Instances)
          /\ ToSet(SetAdd(byConnection[d], id)) = ToSet(byConnection[d]) \cup {id}
          /\ IsInjective(SetAdd(byConnection[d], id))
          /\ Len(SetAdd(byConnection[d], id)) =
               IF id \in ToSet(byConnection[d]) THEN Len(byConnection[d])
               ELSE Len(byConnection[d]) + 1
      BY <1>4, SetAddFacts
    <3>5. Len(SetAdd(byConnection[d], id)) <= InstancesPerConnection
      BY <1>4, <3>2, <3>3, <3>4
    <3> QED
      BY <2>1, <3>1, <3>4, <3>5
  <2>2. CASE d # c /\ id \in DOMAIN instances /\ instances[id].connection = d
    <3>1. byConnection'[d] = SetDelete(byConnection[d], id)
      BY <2>2 DEF Announce, Hold, HasRoomFor
    <3>2. /\ SetDelete(byConnection[d], id) \in Seq(Instances)
          /\ ToSet(SetDelete(byConnection[d], id)) = ToSet(byConnection[d]) \ {id}
          /\ IsInjective(SetDelete(byConnection[d], id))
          /\ Len(SetDelete(byConnection[d], id)) <= Len(byConnection[d])
      BY <1>4, SetDeleteFacts
    <3>3. /\ Len(byConnection[d]) \in Nat
          /\ Len(SetDelete(byConnection[d], id)) \in Nat
          /\ InstancesPerConnection \in Nat
      BY <1>4, <3>2, PresenceAssumption
    <3>4. Len(SetDelete(byConnection[d], id)) <= InstancesPerConnection
      BY <1>4, <3>2, <3>3
    <3> QED
      BY <2>2, <3>1, <3>2, <3>4
  <2>3. CASE d # c /\ ~(id \in DOMAIN instances /\ instances[id].connection = d)
    <3>1. byConnection'[d] = byConnection[d]
      BY <2>3 DEF Announce, Hold, HasRoomFor
    <3>2. id \notin ToSet(byConnection[d])
      BY <2>3 DEF CarriedOnce
    <3> QED
      BY <1>4, <2>3, <3>1, <3>2
  <2> QED
    BY <2>1, <2>2, <2>3
<1>6. byConnection' \in [Connections -> Seq(Instances)]
  BY <1>5 DEF Announce, Hold, HasRoomFor
<1>7. CarriedOnce'
  <2>1. instances'[id].connection = c
    BY <1>2 DEF entry
  <2>2. /\ id \in ToSet(byConnection'[c])
        /\ \A d \in Connections : d # c => id \notin ToSet(byConnection'[d])
    BY <1>5
  <2>3. \A d \in Connections : \A j : j # id =>
          (j \in ToSet(byConnection'[d]) <=> j \in ToSet(byConnection[d]))
    BY <1>5
  <2>4. ASSUME NEW j \in DOMAIN instances'
        PROVE  j \in ToSet(byConnection'[instances'[j].connection])
    <3>1. CASE j = id
      BY <2>1, <2>2, <3>1
    <3>2. CASE j # id
      <4>1. j \in DOMAIN instances /\ instances'[j] = instances[j]
        BY <1>2, <3>2
      <4>2. instances[j].connection \in Connections
        BY <4>1 DEF InstanceEntry
      <4>3. j \in ToSet(byConnection[instances[j].connection])
        BY <4>1 DEF CarriedOnce
      <4> QED
        BY <2>3, <3>2, <4>1, <4>2, <4>3
    <3> QED
      BY <3>1, <3>2
  <2>5. ASSUME NEW d \in Connections, NEW j \in ToSet(byConnection'[d])
        PROVE  j \in DOMAIN instances' /\ instances'[j].connection = d
    <3>1. CASE j = id
      BY <1>2, <2>1, <2>2, <3>1
    <3>2. CASE j # id
      <4>1. j \in DOMAIN instances /\ instances[j].connection = d
        BY <2>3, <3>2 DEF CarriedOnce
      <4> QED
        BY <1>2, <3>2, <4>1
    <3> QED
      BY <3>1, <3>2
  <2> QED
    BY <1>5, <2>4, <2>5 DEF CarriedOnce
<1>8. ConnectionsWithinLimit'
  BY <1>5 DEF ConnectionsWithinLimit
<1> QED
  BY <1>3, <1>6, <1>7, <1>8

\* An announcement takes no instance away and moves none to another account.
LEMMA AnnounceKeepsRooms ==
  ASSUME RoomsInv, NEW c \in Connections, NEW id \in Instances,
         NEW p \in Projects \cup {NoProject}, Announce(c, id, p)
  PROVE  RoomsInv'
<1>1. DOMAIN instances \subseteq DOMAIN instances'
  BY DEF Announce, Hold, Entry, MapSet
<1>2. \A j \in DOMAIN instances : instances'[j].account = instances[j].account
  BY DEF Announce, Hold, Entry, Unclaimed, MapSet
<1>3. sessions' = sessions
  BY DEF Announce, Hold, HasRoomFor
<1>4. RoomsAreLed'
  BY <1>1, <1>3 DEF RoomsInv, RoomsAreLed
<1>5. ControlStaysPut'
  BY <1>1, <1>2, <1>3 DEF RoomsInv, ControlStaysPut
<1>6. CodesAreAddresses' /\ ProjectsWithinLimit'
  BY <1>3 DEF RoomsInv, CodesAreAddresses, ProjectsWithinLimit, RoomsOf
<1> QED
  BY <1>3, <1>4, <1>5, <1>6 DEF RoomsInv

\* What one connection no longer carries is gone, and nothing else is.
LEMMA RetiredFromCarried ==
  ASSUME CarriedInv, NEW c \in Connections, NEW gone,
         NEW rest \in Seq(Instances), IsInjective(rest),
         ToSet(rest) = ToSet(byConnection[c]) \ gone,
         Len(rest) <= Len(byConnection[c]),
         gone \subseteq ToSet(byConnection[c]),
         byConnection' = [byConnection EXCEPT ![c] = rest],
         instances' = MapDelete(instances, gone)
  PROVE  CarriedInv'
<1> USE DEF CarriedInv
<1>1. /\ DOMAIN instances' = DOMAIN instances \ gone
      /\ \A id \in DOMAIN instances' : instances'[id] = instances[id]
      /\ instances' \in [DOMAIN instances' -> InstanceEntry]
  BY DEF MapDelete, Restrict
<1>2. /\ byConnection'[c] = rest
      /\ \A d \in Connections : d # c => byConnection'[d] = byConnection[d]
      /\ byConnection' \in [Connections -> Seq(Instances)]
  OBVIOUS
<1>3. CarriedOnce'
  <2>1. ASSUME NEW id \in DOMAIN instances'
        PROVE  id \in ToSet(byConnection'[instances'[id].connection])
    BY <1>1, <1>2, <2>1 DEF CarriedOnce, InstanceEntry
  <2>2. ASSUME NEW d \in Connections
        PROVE  IsInjective(byConnection'[d])
    BY <1>2 DEF CarriedOnce
  <2>3. ASSUME NEW d \in Connections, NEW id \in ToSet(byConnection'[d])
        PROVE  id \in DOMAIN instances' /\ instances'[id].connection = d
    <3>1. CASE d = c
      BY <1>1, <1>2, <2>3, <3>1 DEF CarriedOnce
    <3>2. CASE d # c
      <4>1. id \in DOMAIN instances /\ instances[id].connection = d
        BY <1>2, <2>3, <3>2 DEF CarriedOnce
      <4>2. id \notin gone
        BY <4>1, <3>2 DEF CarriedOnce
      <4> QED
        BY <1>1, <4>1, <4>2
    <3> QED
      BY <3>1, <3>2
  <2> QED
    BY <2>1, <2>2, <2>3 DEF CarriedOnce
<1>4. ConnectionsWithinLimit'
  <2> SUFFICES ASSUME NEW d \in Connections
               PROVE  Len(byConnection'[d]) <= InstancesPerConnection
    BY DEF ConnectionsWithinLimit
  <2>1. /\ Len(byConnection[d]) \in Nat /\ Len(rest) \in Nat /\ InstancesPerConnection \in Nat
        /\ Len(byConnection[d]) <= InstancesPerConnection
    BY PresenceAssumption DEF ConnectionsWithinLimit
  <2> QED
    BY <1>2, <2>1
<1> QED
  BY <1>1, <1>2, <1>3, <1>4

\* clients.withdraw takes one id off its connection and out of every room.
LEMMA WithdrawStep ==
  ASSUME IInv, NEW c \in Connections, NEW id \in Instances, NEW p \in Projects,
         Withdraw(c, id, p)
  PROVE  IInv'
<1>1. RoomsInv /\ CarriedInv
  BY IInvParts
<1>2. id \in ToSet(byConnection[c])
  BY DEF Withdraw, IsInstanceOn, ToSet
<1>3. byConnection[c] \in Seq(Instances) /\ IsInjective(byConnection[c])
  BY <1>1 DEF CarriedInv, CarriedOnce
<1>4. /\ SetDelete(byConnection[c], id) \in Seq(Instances)
      /\ ToSet(SetDelete(byConnection[c], id)) = ToSet(byConnection[c]) \ {id}
      /\ IsInjective(SetDelete(byConnection[c], id))
      /\ Len(SetDelete(byConnection[c], id)) <= Len(byConnection[c])
  BY <1>3, SetDeleteFacts
<1>5. /\ byConnection' = [byConnection EXCEPT ![c] = SetDelete(byConnection[c], id)]
      /\ instances' = MapDelete(instances, {id})
      /\ sessions' = RoomsWithout({id})
  BY DEF Withdraw
<1>6. CarriedInv'
  BY <1>1, <1>2, <1>4, <1>5, RetiredFromCarried
<1>7. RoomsInv'
  BY <1>1, <1>5, RetiredFromRooms
<1> QED
  BY <1>6, <1>7, IInvParts, PTL

\* A close takes everything its connection carried out of every room.
LEMMA DropConnectionStep ==
  ASSUME IInv, NEW c \in Connections, DropConnection(c)
  PROVE  IInv'
<1>1. RoomsInv /\ CarriedInv
  BY IInvParts
<1> DEFINE gone == ToSet(byConnection[c])
<1>2. {id \in gone : id \in DOMAIN instances /\ instances[id].connection = c} = gone
  BY <1>1 DEF CarriedInv, CarriedOnce
<1>3. /\ byConnection' = [byConnection EXCEPT ![c] = <<>>]
      /\ instances' = MapDelete(instances, gone)
      /\ sessions' = RoomsWithout(gone)
  BY <1>2 DEF DropConnection
<1>4. /\ <<>> \in Seq(Instances)
      /\ IsInjective(<<>>)
      /\ ToSet(<<>>) = ToSet(byConnection[c]) \ gone
      /\ Len(<<>>) <= Len(byConnection[c])
  <2>1. byConnection[c] \in Seq(Instances)
    BY <1>1 DEF CarriedInv
  <2> QED
    BY <2>1 DEF IsInjective, ToSet
<1>5. CarriedInv'
  <2> HIDE DEF gone
  <2> QED
    BY <1>1, <1>3, <1>4, RetiredFromCarried DEF gone
<1>6. RoomsInv'
  <2> HIDE DEF gone
  <2> QED
    BY <1>1, <1>3, RetiredFromRooms
<1> QED
  BY <1>5, <1>6, IInvParts, PTL

-----------------------------------------------------------------------------
(* What the calls about rooms leave behind.                                *)

\* They leave what connections carry alone.
LEMMA RoomsOnly ==
  ASSUME IInv, UNCHANGED <<instances, byConnection>>, RoomsInv'
  PROVE  IInv'
<1>1. CarriedInv'
  BY DEF IInv, TypeOK, WithinLimits, CarriedInv, CarriedOnce, ConnectionsWithinLimit
<1> QED
  BY <1>1, IInvParts, PTL

\* The caller of a room is an announced instance, and the room is open.
LEMMA CallerFacts ==
  ASSUME IInv, NEW c \in Connections, NEW id, NEW r, CallerFor(id, c, r)
  PROVE  /\ RoomsInv
         /\ id \in DOMAIN instances
         /\ r \in DOMAIN sessions
         /\ sessions[r] \in LiveEntry
         /\ sessions[r].openedByInstance \in sessions[r].members
         /\ sessions[r].members \subseteq DOMAIN instances
         /\ sessions[r].requests \subseteq DOMAIN instances
BY IInvParts DEF CallerFor, IsInstanceOn, OnProject, RoomsInv, RoomsAreLed

\* live.open adds a room nobody but its opener is in.
LEMMA LiveOpenStep ==
  ASSUME IInv, NEW c \in Connections, NEW id \in Instances, NEW p \in Projects,
         NEW r \in Rooms, NEW rule \in Rules, NEW code \in Codes,
         LiveOpen(c, id, p, r, rule, code)
  PROVE  IInv'
<1>1. RoomsInv /\ CarriedInv
  BY IInvParts
<1>2. id \in DOMAIN instances /\ instances[id].account \in Accounts
  BY <1>1 DEF LiveOpen, IsInstanceOn, OnProject, CarriedInv, InstanceEntry
<1> DEFINE account == instances[id].account
           room == [project |-> p, openedBy |-> account, openedByInstance |-> id,
                    members |-> {id}, rule |-> rule, requests |-> {}, code |-> code]
<1>3. sessions' = MapSet(sessions, r, room) /\ UNCHANGED instances
  BY DEF LiveOpen
<1>4. /\ room \in LiveEntry
      /\ room.project = p
      /\ room.openedByInstance = id
      /\ room.openedBy = account
      /\ room.members = {id}
      /\ room.requests = {}
      /\ room.code = code
  <2>1. account \in Accounts
    BY <1>2
  <2> HIDE DEF account
  <2> QED
    BY <2>1 DEF LiveEntry
<1>5. /\ r \in Rooms \ DOMAIN sessions
      /\ Cardinality(RoomsOf(p)) < LiveSessionLimit
      /\ code \notin TakenCodes
  BY DEF LiveOpen
<1> HIDE DEF room
<1>6. RoomsInv'
  BY <1>1, <1>2, <1>3, <1>4, <1>5, RoomOpened
<1> QED
  BY <1>6, RoomsOnly DEF LiveOpen

\* live.rule changes how a room is joined, and nothing else of it.
LEMMA LiveRuleStep ==
  ASSUME IInv, NEW c \in Connections, NEW id \in Instances, NEW r \in Rooms,
         NEW rule \in Rules,
         LiveRule(c, id, r, rule)
  PROVE  IInv'
<1> DEFINE before == sessions[r]
           room   == [before EXCEPT !.rule = rule]
<1>1. /\ RoomsInv
      /\ id \in DOMAIN instances
      /\ r \in DOMAIN sessions
      /\ before \in LiveEntry
      /\ before.openedByInstance \in before.members
      /\ before.members \subseteq DOMAIN instances
      /\ before.requests \subseteq DOMAIN instances
  BY CallerFacts DEF LiveRule
<1>2. sessions' = [sessions EXCEPT ![r] = room] /\ UNCHANGED <<instances, byConnection>>
  BY DEF LiveRule
<1>4. /\ room \in LiveEntry
      /\ room.project = before.project
      /\ room.openedBy = before.openedBy
      /\ room.openedByInstance = before.openedByInstance
      /\ room.code = before.code
      /\ room.openedByInstance \in room.members
      /\ room.members \cup room.requests \subseteq DOMAIN instances
  <2> HIDE DEF before
  <2> QED
    BY <1>1 DEF LiveEntry
<1>5. RoomsInv'
  <2> HIDE DEF room
  <2> QED
    BY <1>1, <1>2, <1>4, RoomChanged
<1> QED
  BY <1>2, <1>5, RoomsOnly

\* live.join adds an announced instance to the members.
LEMMA LiveJoinStep ==
  ASSUME IInv, NEW c \in Connections, NEW id \in Instances, NEW r \in Rooms,
         NEW byCode \in BOOLEAN,
         LiveJoin(c, id, r, byCode)
  PROVE  IInv'
<1> DEFINE before == sessions[r]
           room   == [before EXCEPT !.members = before.members \cup {id}]
<1>1. /\ RoomsInv
      /\ id \in DOMAIN instances
      /\ r \in DOMAIN sessions
      /\ before \in LiveEntry
      /\ before.openedByInstance \in before.members
      /\ before.members \subseteq DOMAIN instances
      /\ before.requests \subseteq DOMAIN instances
  BY CallerFacts DEF LiveJoin
<1>2. sessions' = [sessions EXCEPT ![r] = room] /\ UNCHANGED <<instances, byConnection>>
  BY DEF LiveJoin
<1>4. /\ room \in LiveEntry
      /\ room.project = before.project
      /\ room.openedBy = before.openedBy
      /\ room.openedByInstance = before.openedByInstance
      /\ room.code = before.code
      /\ room.openedByInstance \in room.members
      /\ room.members \cup room.requests \subseteq DOMAIN instances
  <2> HIDE DEF before
  <2> QED
    BY <1>1 DEF LiveEntry
<1>5. RoomsInv'
  <2> HIDE DEF room
  <2> QED
    BY <1>1, <1>2, <1>4, RoomChanged
<1> QED
  BY <1>2, <1>5, RoomsOnly

\* live.requestJoin adds an announced instance to those who wait.
LEMMA LiveRequestJoinStep ==
  ASSUME IInv, NEW c \in Connections, NEW id \in Instances, NEW r \in Rooms,
         LiveRequestJoin(c, id, r)
  PROVE  IInv'
<1> DEFINE before == sessions[r]
           room   == [before EXCEPT !.requests = before.requests \cup {id}]
<1>1. /\ RoomsInv
      /\ id \in DOMAIN instances
      /\ r \in DOMAIN sessions
      /\ before \in LiveEntry
      /\ before.openedByInstance \in before.members
      /\ before.members \subseteq DOMAIN instances
      /\ before.requests \subseteq DOMAIN instances
  BY CallerFacts DEF LiveRequestJoin
<1>2. sessions' = [sessions EXCEPT ![r] = room] /\ UNCHANGED <<instances, byConnection>>
  BY DEF LiveRequestJoin
<1>4. /\ room \in LiveEntry
      /\ room.project = before.project
      /\ room.openedBy = before.openedBy
      /\ room.openedByInstance = before.openedByInstance
      /\ room.code = before.code
      /\ room.openedByInstance \in room.members
      /\ room.members \cup room.requests \subseteq DOMAIN instances
  <2> HIDE DEF before
  <2> QED
    BY <1>1 DEF LiveEntry
<1>5. RoomsInv'
  <2> HIDE DEF room
  <2> QED
    BY <1>1, <1>2, <1>4, RoomChanged
<1> QED
  BY <1>2, <1>5, RoomsOnly

\* live.answerJoin moves one who waits into the members, or out.
LEMMA LiveAnswerJoinStep ==
  ASSUME IInv, NEW c \in Connections, NEW id \in Instances, NEW r \in Rooms,
         NEW asked \in Instances, NEW admit \in BOOLEAN,
         LiveAnswerJoin(c, id, r, asked, admit)
  PROVE  IInv'
<1> DEFINE before == sessions[r]
           members == IF admit THEN before.members \cup {asked} ELSE before.members
           room   == [before EXCEPT !.requests = before.requests \ {asked},
                              !.members = members]
<1>1. /\ RoomsInv
      /\ id \in DOMAIN instances
      /\ r \in DOMAIN sessions
      /\ before \in LiveEntry
      /\ before.openedByInstance \in before.members
      /\ before.members \subseteq DOMAIN instances
      /\ before.requests \subseteq DOMAIN instances
  BY CallerFacts DEF LiveAnswerJoin
<1>2. sessions' = [sessions EXCEPT ![r] = room] /\ UNCHANGED <<instances, byConnection>>
  BY DEF LiveAnswerJoin
<1>3. before.members \subseteq members /\ members \subseteq before.members \cup before.requests
  BY DEF LiveAnswerJoin
<1>4. /\ room \in LiveEntry
      /\ room.project = before.project
      /\ room.openedBy = before.openedBy
      /\ room.openedByInstance = before.openedByInstance
      /\ room.code = before.code
      /\ room.openedByInstance \in room.members
      /\ room.members \cup room.requests \subseteq DOMAIN instances
  <2> HIDE DEF before
  <2> QED
    BY <1>1, <1>3 DEF LiveEntry
<1>5. RoomsInv'
  <2> HIDE DEF room
  <2> QED
    BY <1>1, <1>2, <1>4, RoomChanged
<1> QED
  BY <1>2, <1>5, RoomsOnly

\* live.close and the end of a room remove it from the Map.
LEMMA RoomRemoved ==
  ASSUME RoomsInv, NEW r, sessions' = MapDelete(sessions, {r}), UNCHANGED instances
  PROVE  RoomsInv'
<1>1. /\ DOMAIN sessions' \subseteq DOMAIN sessions
      /\ \A s \in DOMAIN sessions' : sessions'[s] = sessions[s]
      /\ sessions' \in [DOMAIN sessions' -> LiveEntry]
  BY DEF MapDelete, Restrict, RoomsInv
<1> QED
  BY <1>1, RoomsRemoved DEF RoomsInv, RoomsAreLed

\* live.leave: the room of an opener who leaves, or of the last one in it, goes.
LEMMA LiveLeaveStep ==
  ASSUME IInv, NEW c \in Connections, NEW id \in Instances, NEW r \in Rooms,
         LiveLeave(c, id, r)
  PROVE  IInv'
<1> DEFINE before == sessions[r]
           room   == [before EXCEPT !.members = before.members \ {id}]
<1>1. /\ RoomsInv
      /\ r \in DOMAIN sessions
      /\ before \in LiveEntry
      /\ before.openedByInstance \in before.members
      /\ before.members \subseteq DOMAIN instances
      /\ before.requests \subseteq DOMAIN instances
  BY CallerFacts DEF LiveLeave
<1>2. UNCHANGED <<instances, byConnection>>
  BY DEF LiveLeave
<1>3. CASE Ends(sessions[r], {id})
  <2>1. sessions' = MapDelete(sessions, {r})
    BY <1>3 DEF LiveLeave
  <2>2. RoomsInv'
    BY <1>1, <1>2, <2>1, RoomRemoved
  <2> QED
    BY <1>2, <2>2, RoomsOnly
<1>4. CASE ~Ends(sessions[r], {id})
  <2>1. sessions' = [sessions EXCEPT ![r] = room]
    BY <1>4 DEF LiveLeave
  <2>2. before.openedByInstance # id
    BY <1>1, <1>4 DEF Ends
  <2>3. /\ room \in LiveEntry
        /\ room.project = before.project
        /\ room.openedBy = before.openedBy
        /\ room.openedByInstance = before.openedByInstance
        /\ room.code = before.code
        /\ room.openedByInstance \in room.members
        /\ room.members \cup room.requests \subseteq DOMAIN instances
    <3> HIDE DEF before
    <3> QED
      BY <1>1, <2>2 DEF LiveEntry
  <2>4. RoomsInv'
    <3> HIDE DEF room
    <3> QED
      BY <1>1, <1>2, <2>1, <2>3, RoomChanged
  <2> QED
    BY <1>2, <2>4, RoomsOnly
<1> QED
  BY <1>3, <1>4

\* live.close removes the room.
LEMMA LiveCloseStep ==
  ASSUME IInv, NEW c \in Connections, NEW id \in Instances, NEW r \in Rooms,
         LiveClose(c, id, r)
  PROVE  IInv'
<1>1. RoomsInv /\ UNCHANGED <<instances, byConnection>>
  BY CallerFacts DEF LiveClose
<1>2. sessions' = MapDelete(sessions, {r})
  BY DEF LiveClose
<1>3. RoomsInv'
  BY <1>1, <1>2, RoomRemoved
<1> QED
  BY <1>1, <1>3, RoomsOnly

-----------------------------------------------------------------------------
(* The invariant, and what follows from it.                                *)

\* Every step of the server keeps the invariant: one case to an action.
LEMMA IInvStep == IInv /\ [Next]_vars => IInv'
<1> SUFFICES ASSUME IInv, [Next]_vars
             PROVE  IInv'
  OBVIOUS
<1>1. ASSUME NEW c \in Connections, DropConnection(c)
      PROVE  IInv'
  BY <1>1, DropConnectionStep
<1>2. ASSUME NEW c \in Connections, NEW id \in Instances, NEW p \in Projects \cup {NoProject},
             Announce(c, id, p)
      PROVE  IInv'
  <2>1. RoomsInv' /\ CarriedInv'
    BY <1>2, IInvParts, AnnounceKeepsRooms, AnnounceKeepsCarried
  <2> QED
    BY <2>1, IInvParts, PTL
<1>3. ASSUME NEW c \in Connections, NEW id \in Instances, NEW p \in Projects, Withdraw(c, id, p)
      PROVE  IInv'
  BY <1>3, WithdrawStep
<1>4. ASSUME NEW c \in Connections, NEW id \in Instances, NEW p \in Projects, NEW r \in Rooms,
             NEW rule \in Rules, NEW code \in Codes, LiveOpen(c, id, p, r, rule, code)
      PROVE  IInv'
  BY <1>4, LiveOpenStep
<1>5. ASSUME NEW c \in Connections, NEW id \in Instances, NEW r \in Rooms, NEW rule \in Rules,
             LiveRule(c, id, r, rule)
      PROVE  IInv'
  BY <1>5, LiveRuleStep
<1>6. ASSUME NEW c \in Connections, NEW id \in Instances, NEW r \in Rooms,
             NEW byCode \in BOOLEAN, LiveJoin(c, id, r, byCode)
      PROVE  IInv'
  BY <1>6, LiveJoinStep
<1>7. ASSUME NEW c \in Connections, NEW id \in Instances, NEW r \in Rooms,
             LiveRequestJoin(c, id, r)
      PROVE  IInv'
  BY <1>7, LiveRequestJoinStep
<1>8. ASSUME NEW c \in Connections, NEW id \in Instances, NEW r \in Rooms,
             NEW asked \in Instances, NEW admit \in BOOLEAN, LiveAnswerJoin(c, id, r, asked, admit)
      PROVE  IInv'
  BY <1>8, LiveAnswerJoinStep
<1>9. ASSUME NEW c \in Connections, NEW id \in Instances, NEW r \in Rooms, LiveLeave(c, id, r)
      PROVE  IInv'
  BY <1>9, LiveLeaveStep
<1>10. ASSUME NEW c \in Connections, NEW id \in Instances, NEW r \in Rooms, LiveClose(c, id, r)
       PROVE  IInv'
  BY <1>10, LiveCloseStep
<1>11. CASE UNCHANGED vars
  BY <1>11 DEF vars, IInv, TypeOK, CarriedOnce, RoomsAreLed, ControlStaysPut, CodesAreAddresses,
               WithinLimits, ConnectionsWithinLimit, ProjectsWithinLimit, RoomsOf
<1> QED
  BY <1>1, <1>2, <1>3, <1>4, <1>5, <1>6, <1>7, <1>8, <1>9, <1>10, <1>11 DEF Next

\* No step moves an instance that stays from one account to another.
LEMMA AccountKept ==
  ASSUME IInv, [Next]_vars, NEW j \in DOMAIN instances, j \in DOMAIN instances'
  PROVE  instances'[j].account = instances[j].account
<1>1. ASSUME NEW gone, instances' = MapDelete(instances, gone)
      PROVE  instances'[j] = instances[j]
  BY <1>1 DEF MapDelete, Restrict
<1>2. ASSUME NEW c \in Connections, DropConnection(c)
      PROVE  instances'[j] = instances[j]
  BY <1>1, <1>2 DEF DropConnection
<1>3. ASSUME NEW c \in Connections, NEW id \in Instances, NEW p \in Projects, Withdraw(c, id, p)
      PROVE  instances'[j] = instances[j]
  BY <1>1, <1>3 DEF Withdraw
<1>4. ASSUME NEW c \in Connections, NEW id \in Instances, NEW p \in Projects \cup {NoProject},
             Announce(c, id, p)
      PROVE  instances'[j].account = instances[j].account
  BY <1>4 DEF Announce, Hold, Entry, Unclaimed, MapSet
<1>5. CASE UNCHANGED instances
  BY <1>5
<1>6. \A c, id, p, r, rule, code : LiveOpen(c, id, p, r, rule, code) => UNCHANGED instances
  BY DEF LiveOpen
<1>7. \A c, id, r, x : LiveRule(c, id, r, x) \/ LiveJoin(c, id, r, x) => UNCHANGED instances
  BY DEF LiveRule, LiveJoin
<1>8. \A c, id, r, asked, admit : LiveAnswerJoin(c, id, r, asked, admit) => UNCHANGED instances
  BY DEF LiveAnswerJoin
<1>9. \A c, id, r : LiveRequestJoin(c, id, r) \/ LiveLeave(c, id, r) \/ LiveClose(c, id, r)
                       => UNCHANGED instances
  BY DEF LiveRequestJoin, LiveLeave, LiveClose
<1> QED
  BY <1>2, <1>3, <1>4, <1>5, <1>6, <1>7, <1>8, <1>9 DEF Next, vars

\* A step that lets somebody into a room that stays is a join of a room that may be
\* joined, or an answer to somebody who asked.
LEMMA MembersAdmitted ==
  ASSUME IInv, [Next]_vars, NEW r \in DOMAIN sessions, r \in DOMAIN sessions',
         sessions[r].rule = "request"
  PROVE  sessions'[r].members \subseteq sessions[r].members \cup sessions[r].requests
<1> DEFINE Fewer == sessions'[r].members \subseteq sessions[r].members \cup sessions[r].requests
<1>1. sessions[r] \in LiveEntry
  BY DEF IInv, TypeOK
<1>2. ASSUME NEW gone, sessions' = RoomsWithout(gone)
      PROVE  Fewer
  <2> DEFINE room == sessions[r]
             members == room.members \ gone
             requests == room.requests \ gone
  <2>1. sessions'[r] = [room EXCEPT !.members = members, !.requests = requests]
    BY <1>2 DEF RoomsWithout
  <2>2. members \subseteq room.members
    OBVIOUS
  <2>3. sessions'[r].members = members
    <3>1. room \in LiveEntry
      BY <1>1
    <3> HIDE DEF room, members, requests
    <3> QED
      BY <2>1, <3>1 DEF LiveEntry
  <2> QED
    BY <2>2, <2>3
<1>3. ASSUME NEW gone, sessions' = MapDelete(sessions, gone)
      PROVE  Fewer
  BY <1>3 DEF MapDelete, Restrict
<1>5. ASSUME NEW c \in Connections, DropConnection(c)
      PROVE  Fewer
  BY <1>2, <1>5 DEF DropConnection
<1>6. ASSUME NEW c \in Connections, NEW id \in Instances, NEW p \in Projects, Withdraw(c, id, p)
      PROVE  Fewer
  BY <1>2, <1>6 DEF Withdraw
<1>7. ASSUME NEW c \in Connections, NEW id \in Instances, NEW p \in Projects, NEW s \in Rooms,
             NEW rule \in Rules, NEW code \in Codes, LiveOpen(c, id, p, s, rule, code)
      PROVE  Fewer
  <2>1. sessions'[r] = sessions[r]
    BY <1>7 DEF LiveOpen, MapSet
  <2> QED
    BY <2>1
<1>8. ASSUME NEW c \in Connections, NEW id \in Instances, NEW s \in Rooms, NEW rule \in Rules,
             LiveRule(c, id, s, rule)
      PROVE  Fewer
  BY <1>1, <1>8 DEF LiveRule, CallerFor, LiveEntry
<1>9. ASSUME NEW c \in Connections, NEW id \in Instances, NEW s \in Rooms,
             NEW byCode \in BOOLEAN, LiveJoin(c, id, s, byCode)
      PROVE  Fewer
  BY <1>1, <1>9 DEF LiveJoin, CallerFor, LiveEntry
<1>10. ASSUME NEW c \in Connections, NEW id \in Instances, NEW s \in Rooms,
              LiveRequestJoin(c, id, s)
       PROVE  Fewer
  BY <1>1, <1>10 DEF LiveRequestJoin, CallerFor, LiveEntry
<1>11. ASSUME NEW c \in Connections, NEW id \in Instances, NEW s \in Rooms,
              NEW asked \in Instances, NEW admit \in BOOLEAN, LiveAnswerJoin(c, id, s, asked, admit)
       PROVE  Fewer
  BY <1>1, <1>11 DEF LiveAnswerJoin, CallerFor, LiveEntry
<1>12. ASSUME NEW c \in Connections, NEW id \in Instances, NEW s \in Rooms, LiveLeave(c, id, s)
       PROVE  Fewer
  BY <1>1, <1>3, <1>12 DEF LiveLeave, CallerFor, LiveEntry
<1>13. ASSUME NEW c \in Connections, NEW id \in Instances, NEW s \in Rooms, LiveClose(c, id, s)
       PROVE  Fewer
  BY <1>3, <1>13 DEF LiveClose
<1>14. CASE UNCHANGED sessions
  BY <1>14
<1> QED
  BY <1>5, <1>6, <1>7, <1>8, <1>9, <1>10, <1>11, <1>12, <1>13, <1>14
     DEF Next, vars, Announce, Hold

\* The inductive invariant holds in every state of every behaviour.
THEOREM Inductive == Spec => []IInv
BY IInvInit, IInvStep, PTL DEF Spec

\* The Maps of TeamPresence hold what they are declared to hold.
THEOREM TypeCorrect == Spec => []TypeOK
<1>1. IInv => TypeOK
  BY DEF IInv
<1> QED
  BY <1>1, Inductive, PTL

\* A close finds exactly what its connection announced, whatever moved or was
\* withdrawn before it.
THEOREM NoGhosts == Spec => []CarriedOnce
<1>1. IInv => CarriedOnce
  BY DEF IInv
<1> QED
  BY <1>1, Inductive, PTL

\* No room is ever without its opener or holds somebody who is not connected.
THEOREM NoAbandonedRooms == Spec => []RoomsAreLed
<1>1. IInv => RoomsAreLed
  BY DEF IInv
<1> QED
  BY <1>1, Inductive, PTL

\* The id that controls a room is always held by the account that opened it.
THEOREM ControlIsNotHandedOver == Spec => []ControlStaysPut
<1>1. IInv => ControlStaysPut
  BY DEF IInv
<1> QED
  BY <1>1, Inductive, PTL

\* A code names one open room of the whole server.
THEOREM CodesAreUnique == Spec => []CodesAreAddresses
<1>1. IInv => CodesAreAddresses
  BY DEF IInv
<1> QED
  BY <1>1, Inductive, PTL

\* Neither the limit of a connection nor that of a project is ever passed.
THEOREM LimitsHold == Spec => []WithinLimits
<1>1. IInv => WithinLimits
  BY DEF IInv
<1> QED
  BY <1>1, Inductive, PTL

\* A place in a room stays one account's for as long as its instance keeps it.
THEOREM PlacesStayTheirs == Spec => PlacesAreNotInherited
<1> DEFINE Kept == \A r \in DOMAIN sessions \cap DOMAIN sessions' :
                     \A id \in Seated(r) \cap Seated(r)' :
                       instances'[id].account = instances[id].account
<1>1. ASSUME IInv, [Next]_vars
      PROVE  Kept
  <2>1. ASSUME NEW j \in DOMAIN instances, j \in DOMAIN instances'
        PROVE  instances'[j].account = instances[j].account
    BY <1>1, <2>1, AccountKept
  <2>2. IInv'
    BY <1>1, IInvStep
  <2>3. /\ \A r \in DOMAIN sessions : Seated(r) \subseteq DOMAIN instances
        /\ \A r \in DOMAIN sessions' : Seated(r)' \subseteq DOMAIN instances'
    BY <1>1, <2>2 DEF IInv, RoomsAreLed, Seated
  <2> QED
    BY <2>1, <2>3
<1> QED
  BY <1>1, Inductive, PTL DEF Spec, PlacesAreNotInherited

\* Whoever becomes a member of a room that is joined by asking had asked.
THEOREM RequestRoomsAdmit == Spec => NobodyWalksIn
<1> DEFINE Admitted == \A r \in DOMAIN sessions \cap DOMAIN sessions' :
                         sessions[r].rule = "request" =>
                           sessions[r].members' \subseteq sessions[r].members \cup sessions[r].requests
<1>1. ASSUME IInv, [Next]_vars
      PROVE  Admitted
  BY <1>1, MembersAdmitted
<1> QED
  BY <1>1, Inductive, PTL DEF Spec, NobodyWalksIn
-----------------------------------------------------------------------------
(* Delivery: what holds between any two steps, whatever is on the stack.   *)

\* What a call that has begun is, each kind of it.
FrameOK(f) ==
  /\ f.at \in {"publish", "deliver", "handle", "drop", "retire", "forget"}
  /\ f.at = "publish" => f.topic \in Topics
  /\ f.at = "deliver" =>
       /\ f = [at |-> "deliver", event |-> f.event, seq |-> f.seq, to |-> f.to]
       /\ f.event.topic \in Topics /\ f.seq \in Nat /\ f.to \in Seq(Connections)
  /\ f.at = "handle" =>
       /\ f = [at |-> "handle", connection |-> f.connection, call |-> f.call]
       /\ f.connection \in Connections /\ f.call \in Calls
  /\ f.at = "drop" =>
       /\ f = [at |-> "drop", connection |-> f.connection, ids |-> f.ids]
       /\ f.connection \in Connections /\ f.ids \in Seq(Instances)
  /\ f.at = "retire" =>
       /\ f = [at |-> "retire", id |-> f.id, project |-> f.project, rooms |-> f.rooms]
       /\ f.id \in Instances /\ f.project \in Projects \cup {NoProject} /\ f.rooms \subseteq Rooms
  /\ f.at = "forget" => f.topic \in Topics /\ f.topic.of = "room"

Calling == ToSet(stack)

DTyped ==
  /\ TypeOK
  /\ DOMAIN dead \subseteq Rooms /\ dead \in [DOMAIN dead -> LiveEntry]
  /\ opened \in Nat
  /\ status \in [Connections -> {"new", "open", "over"}]
  /\ hub \in Seq(Connections)
  /\ topics \in [Connections -> SUBSET Topics]
  /\ sequences \in [Topics -> Nat]
  /\ operators \subseteq Operators
  /\ stack \in Seq(Calling) /\ \A f \in Calling : FrameOK(f)
  /\ copy = [c \in Connections |-> copy[c]]

\* The hub has the sessions that are open.
HubInv ==
  /\ IsInjective(hub)
  /\ \A c \in Connections : c \in ToSet(hub) <=> status[c] = "open"
  /\ \A c \in Connections : AdminTopic \in topics[c] => AccountOf[c] \in Operators

\* Whoever is let go on after its session ended was an operator's.
Over(c) == status[c] = "over"
LetGoOn(c) == Over(c) /\ DemotedWhileSlow(c)

\* A call is the first thing on the stack, and runs before anything it sets off,
\* unless its own identify has ended its session.
CallInv ==
  /\ \A n \in 1 .. Len(stack) - 1 : stack[n].at # "handle"
  /\ \A f \in Calling : f.at = "handle" =>
       \/ status[f.connection] = "open" /\ stack = <<f>>
       \/ LetGoOn(f.connection)

\* An instance is on a connection that is open, or that has yet to drop it.
ToDrop(id, c) == \E f \in Calling : f.at = "drop" /\ f.connection = c /\ id \in ToSet(f.ids)
CarriedOn(id, c) ==
  \/ status[c] = "open" /\ id \in ToSet(byConnection[c])
  \/ Over(c) /\ (ToDrop(id, c) \/ DemotedWhileSlow(c))
DropInv ==
  /\ \A c \in Connections : IsInjective(byConnection[c])
  /\ \A f \in Calling : f.at = "drop" => Over(f.connection)
  /\ \A id \in DOMAIN instances : CarriedOn(id, instances[id].connection)

\* A retire has every room its instance is in still to visit, and holds the others.
RetireInv ==
  \A f \in Calling : f.at = "retire" =>
    /\ \A r \in DOMAIN sessions : f.id \in Seated(r) => r \in f.rooms
    /\ f.rooms \subseteq DOMAIN sessions \cup DOMAIN dead

\* What a client that listens to a topic has not been told of is on its way.
ToHear(c, t, s) ==
  \E f \in Calling :
    f.at = "deliver" /\ f.event.topic = t /\ f.seq = s /\ c \in ToSet(f.to)
CopyOK(c, t) ==
  /\ status[c] = "open" /\ t \in topics[c]
  /\ t.of # "room" =>
       /\ copy[c][t].last \in Nat /\ copy[c][t].last <= sequences[t]
       /\ \A s \in copy[c][t].last + 1 .. sequences[t] : ToHear(c, t, s)
HearInv ==
  /\ \A c \in Connections : \A t \in DOMAIN copy[c] : CopyOK(c, t)
  /\ \A f \in Calling : f.at = "deliver" /\ f.event.topic.of # "room" =>
       f.seq <= sequences[f.event.topic]

DInv == DTyped /\ HubInv /\ CallInv /\ DropInv /\ RetireInv /\ HearInv

-----------------------------------------------------------------------------
(* The stack.                                                              *)

Stacked(s) == s \in Seq(ToSet(s)) /\ \A f \in ToSet(s) : FrameOK(f)
CallsLast(s) == \A n \in 1 .. Len(s) - 1 : s[n].at # "handle"

\* A call that begins is before those that had begun.
LEMMA SeqPush ==
  ASSUME NEW f, NEW below, below \in Seq(ToSet(below))
  PROVE  /\ <<f>> \o below \in Seq(ToSet(<<f>> \o below))
         /\ ToSet(<<f>> \o below) = {f} \cup ToSet(below)
         /\ Len(<<f>> \o below) = Len(below) + 1
         /\ Head(<<f>> \o below) = f /\ Tail(<<f>> \o below) = below
         /\ <<f>> \o below # <<>>
         /\ (<<f>> \o below)[1] = f
         /\ \A n \in 2 .. Len(below) + 1 : (<<f>> \o below)[n] = below[n - 1]
<1> DEFINE S == {f} \cup ToSet(below)
           s == <<f>> \o below
<1>1. below \in Seq(S) /\ <<f>> \in Seq(S)
  <2>1. ToSet(below) \subseteq S
    OBVIOUS
  <2> HIDE DEF S
  <2> QED
    BY <2>1, SeqMonotonic DEF S
<1>2. /\ s \in Seq(S) /\ Len(s) = Len(below) + 1 /\ Len(below) \in Nat
      /\ s[1] = f /\ \A n \in 2 .. Len(below) + 1 : s[n] = below[n - 1]
  <2> HIDE DEF S
  <2>1. /\ s \in Seq(S) /\ Len(s) = Len(<<f>>) + Len(below)
        /\ \A n \in 1 .. Len(<<f>>) + Len(below) :
             s[n] = IF n <= Len(<<f>>) THEN <<f>>[n] ELSE below[n - Len(<<f>>)]
    BY <1>1, ConcatProperties
  <2> QED
    BY <1>1, <2>1
<1> HIDE DEF s
<1>3. ToSet(s) = S
  <2>1. DOMAIN s = 1 .. Len(below) + 1 /\ DOMAIN below = 1 .. Len(below)
    BY <1>2
  <2>5. ASSUME NEW n \in 1 .. Len(below)
        PROVE  s[n + 1] = below[n]
    <3>1. n + 1 \in 2 .. Len(below) + 1 /\ (n + 1) - 1 = n
      BY <1>2
    <3> QED
      BY <3>1, <1>2
  <2>2. \A x \in ToSet(below) : \E n \in 1 .. Len(below) : below[n] = x /\ s[n + 1] = x
    BY <2>1, <2>5 DEF ToSet
  <2>3. ToSet(s) \subseteq S
    <3> SUFFICES ASSUME NEW n \in 1 .. Len(below) + 1
                 PROVE  s[n] \in S
      BY <2>1 DEF ToSet
    <3>1. CASE n = 1
      BY <3>1, <1>2
    <3>2. CASE n # 1
      <4>1. s[n] = below[n - 1] /\ n - 1 \in 1 .. Len(below)
        BY <3>2, <1>2
      <4> QED
        BY <4>1, <2>1 DEF ToSet
    <3> QED
      BY <3>1, <3>2
  <2>4. S \subseteq ToSet(s)
    <3> SUFFICES ASSUME NEW x \in S
                 PROVE  x \in ToSet(s)
      OBVIOUS
    <3>1. CASE x = f
      BY <3>1, <1>2, <2>1 DEF ToSet
    <3>2. CASE x \in ToSet(below)
      <4>1. PICK n \in 1 .. Len(below) : s[n + 1] = x
        BY <3>2, <2>2
      <4>2. n + 1 \in DOMAIN s
        BY <2>1
      <4> QED
        BY <4>1, <4>2 DEF ToSet
    <3> QED
      BY <3>1, <3>2
  <2> QED
    BY <2>3, <2>4
<1>4. Head(s) = f /\ s # <<>>
  BY <1>2
<1>5. Tail(s) = below
  BY <1>1, SMTT(30) DEF s
<1> QED
  BY <1>2, <1>3, <1>4, <1>5 DEF s

\* And the last to begin returns first.
LEMMA SeqPop ==
  ASSUME NEW s, s \in Seq(ToSet(s)), s # <<>>
  PROVE  /\ Tail(s) \in Seq(ToSet(Tail(s)))
         /\ Head(s) \in ToSet(s) /\ ToSet(Tail(s)) \subseteq ToSet(s)
         /\ ToSet(s) = {Head(s)} \cup ToSet(Tail(s))
         /\ s = <<Head(s)>> \o Tail(s)
<1> DEFINE S == ToSet(s)
           below == Tail(s)
<1> HIDE DEF S
<1>1. s \in Seq(S) /\ Len(s) \in Nat /\ Len(s) > 0 /\ DOMAIN s = 1 .. Len(s)
  BY DEF S
<1>2. /\ below \in Seq(S) /\ Len(below) = Len(s) - 1
      /\ \A n \in 1 .. Len(s) - 1 : below[n] = s[n + 1]
      /\ Head(s) = s[1]
  BY <1>1
<1> HIDE DEF below
<1>3. below \in Seq(ToSet(below))
  <2>1. DOMAIN below = 1 .. Len(below) /\ Len(below) \in Nat
    BY <1>2
  <2>2. \A n \in 1 .. Len(below) : below[n] \in ToSet(below)
    BY <2>1 DEF ToSet
  <2>3. below = [n \in 1 .. Len(below) |-> below[n]]
    BY <1>2, <2>1
  <2> QED
    BY <2>1, <2>2, <2>3
<1>4. s = <<Head(s)>> \o below
  BY <1>1, SMTT(30) DEF below
<1>5. ToSet(<<Head(s)>> \o below) = {Head(s)} \cup ToSet(below)
  BY <1>3, SeqPush
<1> QED
  BY <1>3, <1>4, <1>5 DEF below

\* What begins leaves a stack a stack, with its call at the bottom.
LEMMA Pushed ==
  ASSUME NEW f, NEW below, Stacked(below), FrameOK(f)
  PROVE  /\ Stacked(<<f>> \o below)
         /\ ToSet(<<f>> \o below) = {f} \cup ToSet(below)
         /\ <<f>> \o below # <<>>
         /\ Head(<<f>> \o below) = f /\ Tail(<<f>> \o below) = below
         /\ f.at # "handle" /\ CallsLast(below) => CallsLast(<<f>> \o below)
<1>1. below \in Seq(ToSet(below))
  BY DEF Stacked
<1> DEFINE s == <<f>> \o below
<1>2. /\ s \in Seq(ToSet(s)) /\ ToSet(s) = {f} \cup ToSet(below) /\ Len(s) = Len(below) + 1
      /\ Head(s) = f /\ Tail(s) = below /\ s # <<>>
      /\ s[1] = f /\ \A n \in 2 .. Len(below) + 1 : s[n] = below[n - 1]
  BY <1>1, SeqPush
<1>3. Len(below) \in Nat
  BY <1>1
<1> HIDE DEF s
<1>4. Stacked(s)
  BY <1>2 DEF Stacked
<1>5. ASSUME f.at # "handle", CallsLast(below), NEW n \in 1 .. Len(s) - 1
      PROVE  s[n].at # "handle"
  <2>1. CASE n = 1
    BY <2>1, <1>2, <1>5
  <2>2. CASE n # 1
    <3>1. n - 1 \in 1 .. Len(below) - 1 /\ n \in 2 .. Len(below) + 1
      BY <2>2, <1>2, <1>3
    <3> QED
      BY <3>1, <1>2, <1>5 DEF CallsLast
  <2> QED
    BY <2>1, <2>2
<1> QED
  BY <1>2, <1>4, <1>5 DEF s, CallsLast

LEMMA Popped ==
  ASSUME NEW s, Stacked(s), s # <<>>
  PROVE  /\ Stacked(Tail(s)) /\ FrameOK(Head(s))
         /\ ToSet(s) = {Head(s)} \cup ToSet(Tail(s))
         /\ CallsLast(s) => CallsLast(Tail(s))
         /\ CallsLast(s) /\ Head(s).at = "handle" => Tail(s) = <<>> /\ s = <<Head(s)>>
<1>1. s \in Seq(ToSet(s))
  BY DEF Stacked
<1> DEFINE below == Tail(s)
<1>2. /\ below \in Seq(ToSet(below)) /\ Head(s) \in ToSet(s)
      /\ ToSet(s) = {Head(s)} \cup ToSet(below) /\ s = <<Head(s)>> \o below
  BY <1>1, SeqPop
<1>3. Stacked(below) /\ FrameOK(Head(s))
  BY <1>2 DEF Stacked
<1>4. /\ Len(below) = Len(s) - 1 /\ Len(below) \in Nat /\ Len(s) \in Nat /\ Len(s) > 0
      /\ Head(s) = s[1] /\ \A n \in 1 .. Len(s) - 1 : below[n] = s[n + 1]
  BY <1>1
<1> HIDE DEF below
<1>5. CallsLast(s) => CallsLast(below)
  <2> SUFFICES ASSUME CallsLast(s), NEW n \in 1 .. Len(below) - 1
               PROVE  below[n].at # "handle"
    BY DEF CallsLast
  <2>1. n + 1 \in 1 .. Len(s) - 1 /\ n \in 1 .. Len(s) - 1
    BY <1>4
  <2> QED
    BY <2>1, <1>4 DEF CallsLast
<1>6. ASSUME CallsLast(s), Head(s).at = "handle"
      PROVE  below = <<>> /\ s = <<Head(s)>>
  <2>1. ~(1 \in 1 .. Len(s) - 1)
    BY <1>4, <1>6 DEF CallsLast
  <2>2. Len(below) = 0
    BY <2>1, <1>4
  <2>3. below = <<>>
    BY <2>2, <1>2, EmptySeq
  <2>4. <<Head(s)>> \o <<>> = <<Head(s)>>
    OBVIOUS
  <2> QED
    BY <2>3, <2>4, <1>2
<1> QED
  BY <1>2, <1>3, <1>5, <1>6 DEF below

LEMMA NothingStacked == Stacked(<<>>) /\ CallsLast(<<>>) /\ ToSet(<<>>) = {}
BY DEF Stacked, CallsLast, ToSet

-----------------------------------------------------------------------------
(* What each part of the invariant depends on.                             *)

LEMMA DInvParts ==
  ASSUME DInv
  PROVE  /\ DTyped /\ HubInv /\ CallInv /\ DropInv /\ RetireInv /\ HearInv
         /\ Stacked(stack) /\ CallsLast(stack)
BY DEF DInv, DTyped, CallInv, Stacked, CallsLast, Calling

\* Operators of whom a session may have been let go on stay so.
LEMMA DemotedStay ==
  ASSUME operators' \subseteq operators, NEW c, DemotedWhileSlow(c)
  PROVE  DemotedWhileSlow(c)'
BY DEF DemotedWhileSlow

LEMMA HubKeeps ==
  ASSUME HubInv, UNCHANGED <<hub, status, topics>>
  PROVE  HubInv'
BY SMT DEF HubInv, AdminTopic

LEMMA CallsKeep ==
  ASSUME CallInv, Stacked(stack), ~At("handle"), CallsLast(stack'),
         \A f \in Calling' : f.at = "handle" => f \in Calling,
         \A c \in Connections : Over(c) => Over(c)', operators' \subseteq operators
  PROVE  CallInv'
<1>1. ASSUME NEW f \in Calling, f.at = "handle"
      PROVE  LetGoOn(f.connection) /\ f.connection \in Connections
  <2>1. stack # <<f>>
    <3> SUFFICES ASSUME stack = <<f>>
                 PROVE  FALSE
      OBVIOUS
    <3>1. Head(<<f>>) = f /\ <<f>> # <<>>
      OBVIOUS
    <3> QED
      BY <3>1, <1>1 DEF At, Idle, Top
  <2>2. f.connection \in Connections
    BY <1>1 DEF Stacked, Calling, FrameOK
  <2> QED
    BY <1>1, <2>1, <2>2 DEF CallInv
<1>2. ASSUME NEW f \in Calling', f.at = "handle"
      PROVE  LetGoOn(f.connection)'
  <2>1. f \in Calling
    BY <1>2
  <2>2. LetGoOn(f.connection) /\ f.connection \in Connections
    BY <1>1, <1>2, <2>1
  <2>3. DemotedWhileSlow(f.connection)'
    BY <2>2, DemotedStay DEF LetGoOn
  <2> QED
    BY <2>2, <2>3 DEF LetGoOn
<1> QED
  BY <1>2 DEF CallInv, CallsLast

LEMMA DropsKeep ==
  ASSUME DropInv, UNCHANGED <<instances, byConnection, status>>, operators' \subseteq operators,
         \A f \in Calling : f.at = "drop" => f \in Calling' \/ ToSet(f.ids) = {},
         \A f \in Calling' : f.at = "drop" => f \in Calling
  PROVE  DropInv'
<1>1. ASSUME NEW id \in DOMAIN instances, NEW c, CarriedOn(id, c)
      PROVE  CarriedOn(id, c)'
  <2>1. ToDrop(id, c) => ToDrop(id, c)'
    BY DEF ToDrop
  <2>2. DemotedWhileSlow(c) => DemotedWhileSlow(c)'
    BY DemotedStay
  <2> QED
    BY <1>1, <2>1, <2>2 DEF CarriedOn, Over
<1> QED
  BY <1>1 DEF DropInv, Over

LEMMA RetiresKeep ==
  ASSUME RetireInv, UNCHANGED <<sessions, dead>>,
         \A f \in Calling' : f.at = "retire" => f \in Calling
  PROVE  RetireInv'
BY DEF RetireInv, Seated

LEMMA HearsKeep ==
  ASSUME HearInv, UNCHANGED <<status, topics, copy, sequences>>,
         \A f \in Calling : f.at = "deliver" => f \in Calling',
         \A f \in Calling' : f.at = "deliver" => f \in Calling
  PROVE  HearInv'
<1>1. ASSUME NEW c \in Connections, NEW t \in DOMAIN copy[c], CopyOK(c, t)
      PROVE  CopyOK(c, t)'
  <2>1. \A s : ToHear(c, t, s) => ToHear(c, t, s)'
    BY DEF ToHear
  <2> QED
    BY <1>1, <2>1 DEF CopyOK
<1> QED
  BY <1>1 DEF HearInv

\* A step that changes what has begun and nothing else.
LEMMA OnlyTheStack ==
  ASSUME DInv, UNCHANGED <<presence, status, hub, topics, sequences, copy>>,
         operators' \subseteq operators, Stacked(stack'), CallInv',
         \A f \in Calling : f.at = "drop" => f \in Calling' \/ ToSet(f.ids) = {},
         \A f \in Calling : f.at = "deliver" => f \in Calling',
         \A f \in Calling' : f.at \in {"drop", "deliver", "retire"} => f \in Calling
  PROVE  DInv'
<1>1. /\ UNCHANGED <<instances, byConnection, sessions, dead, opened, status, hub, topics,
                     sequences, copy>>
  BY DEF presence
<1>2. DTyped'
  BY <1>1, DInvParts DEF DTyped, TypeOK, Stacked, Calling
<1>3. HubInv'
  BY <1>1, DInvParts, HubKeeps
<1>4. DropInv'
  BY <1>1, DInvParts, DropsKeep
<1>5. RetireInv'
  BY <1>1, DInvParts, RetiresKeep
<1>6. HearInv'
  BY <1>1, DInvParts, HearsKeep
<1> QED
  BY <1>2, <1>3, <1>4, <1>5, <1>6 DEF DInv

-----------------------------------------------------------------------------
(* The steps that only begin something or return from it.                  *)

\* What is at the top, and what is below it.
LEMMA TopFacts ==
  ASSUME DInv, stack # <<>>
  PROVE  /\ Stacked(Below) /\ CallsLast(Below) /\ FrameOK(Top)
         /\ Calling = {Top} \cup ToSet(Below)
         /\ At("handle") => Below = <<>> /\ stack = <<Top>> /\ Calling = {Top}
BY DInvParts, Popped, NothingStacked DEF Top, Below, Calling, At, Idle

\* Nothing is under way.
LEMMA IdleFacts ==
  ASSUME Idle
  PROVE  Stacked(stack) /\ CallsLast(stack) /\ Calling = {} /\ stack = <<>>
BY NothingStacked DEF Idle, Calling

\* The topics there are are kept apart by what they are of.
LEMMA TopicFacts ==
  /\ AdminTopic \in Topics
  /\ \A p \in Projects : ClientsTopic(p) \in Topics /\ LiveTopic(p) \in Topics
  /\ \A r \in Rooms : RoomTopic(r) \in Topics /\ RoomTopic(r).of = "room"
  /\ \A t \in Topics : t.of = "admin" => t = AdminTopic
<1>1. AdminTopic \in Topics
  BY DEF Topics
<1>2. \A p \in Projects : ClientsTopic(p) \in Topics /\ LiveTopic(p) \in Topics
  BY DEF Topics
<1>3. \A r \in Rooms : RoomTopic(r) \in Topics /\ RoomTopic(r).of = "room"
  <2>1. \A r : RoomTopic(r).of = "room"
    BY DEF RoomTopic
  <2> QED
    BY <2>1 DEF Topics
<1>4. ASSUME NEW t \in Topics, t.of = "admin"
      PROVE  t = AdminTopic
  <2>1. \A p : ClientsTopic(p).of # "admin" /\ LiveTopic(p).of # "admin"
    BY DEF ClientsTopic, LiveTopic
  <2>2. \A r : RoomTopic(r).of # "admin"
    BY DEF RoomTopic
  <2> QED
    BY <1>4, <2>1, <2>2 DEF Topics
<1> QED
  BY <1>1, <1>2, <1>3, <1>4

\* One event is to be published, by whatever is at the top.
LEMMA PublishOK ==
  ASSUME NEW t \in Topics, NEW kind, NEW key, NEW value
  PROVE  FrameOK(Publish(t, kind, key, value)) /\ Publish(t, kind, key, value).at = "publish"
BY DEF FrameOK, Publish

LEMMA StopStep ==
  ASSUME DInv, Stop
  PROVE  DInv'
<1>1. UNCHANGED <<presence, status, hub, topics, operators, sequences, stack, copy>>
  BY DEF Stop
<1>2. CallInv'
  BY <1>1, DInvParts DEF CallInv, Calling, LetGoOn, Over, DemotedWhileSlow
<1> QED
  BY <1>1, <1>2, DInvParts, OnlyTheStack DEF Calling, Stacked

LEMMA DemoteStep ==
  ASSUME DInv, NEW a \in Accounts, Demote(a)
  PROVE  DInv'
<1>1. /\ UNCHANGED <<presence, status, hub, topics, sequences, stack, copy>>
      /\ operators' \subseteq operators /\ Calling = {} /\ Calling' = Calling
  BY IdleFacts DEF Demote, Calling
<1>2. CallInv'
  BY <1>1, DInvParts DEF CallInv
<1> QED
  BY <1>1, <1>2, DInvParts, OnlyTheStack

LEMMA PublishElsewhereStep ==
  ASSUME DInv, PublishElsewhere
  PROVE  DInv'
<1>1. /\ UNCHANGED <<presence, status, hub, topics, operators, sequences, copy>>
      /\ stack' = <<AdminChanged>> \o <<>> /\ Calling = {} /\ stack = <<>>
  BY IdleFacts DEF PublishElsewhere
<1>2. FrameOK(AdminChanged) /\ AdminChanged.at = "publish"
  BY PublishOK, TopicFacts DEF AdminChanged
<1>3. Stacked(stack') /\ CallsLast(stack') /\ Calling' = {AdminChanged}
  <2> DEFINE s == <<AdminChanged>> \o <<>>
  <2>1. Stacked(s) /\ CallsLast(s) /\ ToSet(s) = {AdminChanged} \cup {}
    BY <1>2, Pushed, NothingStacked
  <2>2. stack' = s
    BY <1>1
  <2> HIDE DEF s
  <2> QED
    BY <2>1, <2>2 DEF Calling
<1>4. CallInv'
  BY <1>2, <1>3 DEF CallInv, CallsLast
<1> QED
  BY <1>1, <1>2, <1>3, <1>4, OnlyTheStack

\* What is at the top returns, and leaves an event to be published or nothing.
LEMMA Returns ==
  ASSUME DInv, stack # <<>>, ~At("handle"),
         UNCHANGED <<presence, status, hub, topics, operators, sequences, copy>>,
         Top.at = "drop" => Top.ids = <<>>, Top.at # "deliver",
         NEW t \in Topics, NEW kind, NEW key, NEW value,
         stack' = Below \/ stack' = <<Publish(t, kind, key, value)>> \o Below
  PROVE  DInv'
<1> DEFINE f == Publish(t, kind, key, value)
<1>1. FrameOK(f) /\ f.at = "publish"
  BY PublishOK
<1> HIDE DEF f
<1>2. /\ Stacked(stack') /\ CallsLast(stack')
      /\ Calling' = ToSet(Below) \/ Calling' = {f} \cup ToSet(Below)
  BY <1>1, TopFacts, Pushed DEF Calling, f
<1>3. Calling = {Top} \cup ToSet(Below)
  BY TopFacts
<1>4. \A g \in Calling' : g.at # "publish" => g \in Calling
  BY <1>1, <1>2, <1>3
<1>5. ToSet(<<>>) = {}
  BY NothingStacked
<1>6. CallInv'
  BY <1>2, <1>4, DInvParts, CallsKeep DEF Over
<1> QED
  BY <1>1, <1>2, <1>3, <1>4, <1>5, <1>6, OnlyTheStack

LEMMA RetireDoneStep ==
  ASSUME DInv, RetireDone
  PROVE  DInv'
<1>1. /\ stack # <<>> /\ Top.at = "retire" /\ ~At("handle")
      /\ UNCHANGED <<presence, status, hub, topics, operators, sequences, copy>>
  BY DEF RetireDone, At, Idle, server
<1>2. Top.project \in Projects \cup {NoProject}
  BY <1>1, TopFacts DEF FrameOK
<1>3. CASE Top.project = NoProject
  <2>1. stack' = <<>> \o Below /\ <<>> \o Below = Below
    <3>1. Below \in Seq(ToSet(Below))
      BY <1>1, TopFacts DEF Stacked
    <3> QED
      BY <1>3, <3>1, ConcatEmptySeq DEF RetireDone
  <2> QED
    BY <1>1, <2>1, TopicFacts, Returns
<1>4. CASE Top.project # NoProject
  <2>1. /\ stack' = <<ClientGone(Top.id, Top.project)>> \o Below
        /\ ClientsTopic(Top.project) \in Topics
    BY <1>2, <1>4, TopicFacts DEF RetireDone
  <2> QED
    BY <1>1, <2>1, Returns DEF ClientGone
<1> QED
  BY <1>3, <1>4

LEMMA DropDoneStep ==
  ASSUME DInv, DropDone
  PROVE  DInv'
<1>1. /\ stack # <<>> /\ ~At("handle") /\ Top.at # "deliver" /\ Top.ids = <<>>
      /\ stack' = Below
      /\ UNCHANGED <<presence, status, hub, topics, operators, sequences, copy>>
  BY DEF DropDone, At, Idle, server
<1> QED
  BY <1>1, TopicFacts, Returns

\* A call that is refused, or that only ends a subscription, or a subscription that
\* there is already, is over.
LEMMA CallReturns ==
  ASSUME DInv, At("handle"), stack' = Below,
         UNCHANGED <<presence, status, hub, operators, sequences>>
  PROVE  Calling' = {} /\ Calling = {Top} /\ Stacked(stack') /\ CallInv'
<1>1. stack # <<>> /\ stack' = <<>> /\ Calling = {Top}
  BY TopFacts DEF At, Idle
<1>2. Calling' = {} /\ Stacked(stack') /\ CallsLast(stack')
  BY <1>1, NothingStacked DEF Calling
<1> QED
  BY <1>1, <1>2 DEF CallInv, CallsLast

LEMMA RefuseStep ==
  ASSUME DInv, Refuse
  PROVE  DInv'
<1>1. /\ At("handle") /\ stack' = Below /\ Top.at = "handle"
      /\ UNCHANGED <<presence, status, hub, topics, operators, sequences, copy>>
  BY DEF Refuse, server, At
<1> QED
  BY <1>1, CallReturns, OnlyTheStack

-----------------------------------------------------------------------------
(* The hub, its topics and the copies.                                     *)

\* What a call carries.
LEMMA CallFacts ==
  ASSUME NEW call \in Calls
  PROVE  /\ call.method = "clients.announce" =>
              call.id \in Instances /\ call.project \in Projects \cup {NoProject}
         /\ call.method = "clients.withdraw" => call.project \in Projects
         /\ call.method = "live.open" => call.project \in Projects /\ call.rule \in Rules
         /\ call.method = "live.rule" => call.room \in Rooms /\ call.rule \in Rules
         /\ call.method = "live.join" => call.room \in Rooms /\ call.byCode \in BOOLEAN
         /\ call.method = "live.answerJoin" =>
              call.room \in Rooms /\ call.asked \in Instances /\ call.admit \in BOOLEAN
         /\ call.method \in {"live.requestJoin", "live.leave", "live.close", "live.say"} =>
              call.room \in Rooms
         /\ call.method \in {"subscribe", "unsubscribe"} => call.topic \in Topics
BY DEF Calls

\* A map with one more entry, and with fewer.
LEMMA MapSetFacts ==
  ASSUME NEW map, NEW key, NEW value
  PROVE  /\ DOMAIN MapSet(map, key, value) = DOMAIN map \cup {key}
         /\ MapSet(map, key, value)[key] = value
         /\ \A k \in DOMAIN map : k # key => MapSet(map, key, value)[k] = map[k]
BY DEF MapSet

LEMMA MapDeleteFacts ==
  ASSUME NEW map, NEW keys
  PROVE  /\ DOMAIN MapDelete(map, keys) = DOMAIN map \ keys
         /\ \A k \in DOMAIN map \ keys : MapDelete(map, keys)[k] = map[k]
BY DEF MapDelete, Restrict

\* Nothing is on its way: every copy is in step.
LEMMA InStep ==
  ASSUME DInv, \A f \in Calling : f.at # "deliver",
         NEW c \in Connections, NEW t \in DOMAIN copy[c]
  PROVE  /\ status[c] = "open" /\ t \in topics[c] /\ t \in Topics
         /\ t.of # "room" => copy[c][t].last = sequences[t] /\ copy[c][t].last \in Nat
<1>1. DTyped /\ CopyOK(c, t)
  BY DInvParts DEF HearInv
<1>2. t \in Topics
  BY <1>1 DEF DTyped, CopyOK
<1>3. ASSUME t.of # "room"
      PROVE  copy[c][t].last = sequences[t] /\ copy[c][t].last \in Nat
  <2>1. \A s : ~ToHear(c, t, s)
    BY DEF ToHear
  <2> DEFINE m == copy[c][t].last
             n == sequences[t]
  <2>2. m \in Nat /\ n \in Nat /\ m <= n /\ ~(n \in m + 1 .. n)
    BY <1>1, <1>2, <1>3, <2>1 DEF CopyOK, DTyped
  <2> HIDE DEF m, n
  <2>3. m = n
    BY <2>2
  <2> QED
    BY <2>2, <2>3 DEF m, n
<1> QED
  BY <1>1, <1>2, <1>3 DEF CopyOK

\* Every copy is in step: then nothing need be on its way.
LEMMA HearsInStep ==
  ASSUME \A f \in Calling' : f.at # "deliver",
         \A c \in Connections : \A t \in DOMAIN copy'[c] :
           /\ status'[c] = "open" /\ t \in topics'[c]
           /\ t.of # "room" => copy'[c][t].last = sequences'[t] /\ copy'[c][t].last \in Nat
  PROVE  HearInv'
<1>1. ASSUME NEW c \in Connections, NEW t \in DOMAIN copy'[c]
      PROVE  CopyOK(c, t)'
  <2>1. ASSUME t.of # "room"
        PROVE  /\ copy'[c][t].last <= sequences'[t]
               /\ \A s \in copy'[c][t].last + 1 .. sequences'[t] : FALSE
    <3> DEFINE m == copy'[c][t].last
    <3>1. m \in Nat /\ sequences'[t] = m
      BY <2>1
    <3> HIDE DEF m
    <3>2. m <= m /\ \A s \in m + 1 .. m : FALSE
      BY <3>1
    <3> QED
      BY <3>1, <3>2 DEF m
  <2> QED
    BY <2>1 DEF CopyOK
<1> QED
  BY <1>1 DEF HearInv

LEMMA OpenStep ==
  ASSUME DInv, NEW c \in Connections, Open(c)
  PROVE  DInv'
<1>1. /\ Calling = {} /\ stack' = stack /\ Calling' = {}
      /\ status[c] = "new" /\ status' = [status EXCEPT ![c] = "open"]
      /\ hub' = Append(hub, c)
      /\ UNCHANGED <<instances, byConnection, sessions, dead, opened, topics, operators,
                     sequences, stack, copy>>
  BY IdleFacts DEF Open, presence, Calling
<1>2. DTyped /\ HubInv /\ DropInv /\ CallInv /\ Stacked(stack)
  BY DInvParts
<1>3. hub' \in Seq(Connections) /\ ToSet(hub') = ToSet(hub) \cup {c} /\ IsInjective(hub')
  <2>1. hub \in Seq(Connections)
    BY <1>2 DEF DTyped
  <2>2. c \notin ToSet(hub) /\ IsInjective(hub)
    BY <1>1, <1>2 DEF HubInv
  <2>3. hub' = SetAdd(hub, c)
    BY <1>1, <2>2 DEF SetAdd
  <2>4. /\ SetAdd(hub, c) \in Seq(Connections) /\ IsInjective(SetAdd(hub, c))
        /\ ToSet(SetAdd(hub, c)) = ToSet(hub) \cup {c}
    BY <2>1, <2>2, SetAddFacts
  <2> QED
    BY <2>3, <2>4
<1>4. DTyped'
  BY <1>1, <1>2, <1>3 DEF DTyped, TypeOK
<1>5. HubInv'
  BY <1>1, <1>2, <1>3 DEF HubInv, DTyped
<1>6. CallInv'
  BY <1>1, <1>2 DEF CallInv
<1>7. DropInv'
  <2>1. \A d \in Connections : d # c => status'[d] = status[d]
    BY <1>1, <1>2 DEF DTyped
  <2>2. ASSUME NEW id \in DOMAIN instances
        PROVE  CarriedOn(id, instances[id].connection)'
    <3>1. CarriedOn(id, instances[id].connection) /\ instances[id].connection \in Connections
      BY <1>2 DEF DropInv, DTyped, TypeOK, InstanceEntry
    <3>2. status[instances[id].connection] # "new" /\ ~ToDrop(id, instances[id].connection)
      BY <3>1, <1>1 DEF CarriedOn, Over, ToDrop
    <3>3. status'[instances[id].connection] = status[instances[id].connection]
      BY <3>1, <3>2, <2>1, <1>1
    <3> QED
      BY <1>1, <3>1, <3>2, <3>3 DEF CarriedOn, Over, DemotedWhileSlow
  <2> QED
    BY <1>1, <1>2, <2>2 DEF DropInv
<1>8. RetireInv'
  BY <1>1 DEF RetireInv
<1>9. HearInv'
  <2>1. ASSUME NEW d \in Connections, NEW t \in DOMAIN copy[d]
        PROVE  status'[d] = "open"
    BY <2>1, <1>1, <1>2, InStep DEF DTyped
  <2> QED
    BY <1>1, <2>1, InStep, HearsInStep
<1> QED
  BY <1>4, <1>5, <1>6, <1>7, <1>8, <1>9 DEF DInv

LEMMA CloseAllStep ==
  ASSUME DInv, CloseAll
  PROVE  DInv'
<1>1. /\ Calling = {} /\ Calling' = {} /\ hub' = <<>>
      /\ \A c \in Connections : status[c] # "open"
      /\ UNCHANGED <<instances, byConnection, sessions, dead, opened, status, topics, operators,
                     sequences, stack, copy>>
  BY IdleFacts DEF CloseAll, presence, Calling
<1>2. DTyped /\ HubInv /\ DropInv /\ CallInv /\ RetireInv /\ HearInv
  BY DInvParts
<1>3. DTyped'
  BY <1>1, <1>2, EmptySeq DEF DTyped, TypeOK
<1>4. HubInv'
  BY <1>1, <1>2, NothingStacked DEF HubInv, IsInjective
<1>5. CallInv'
  BY <1>1, <1>2 DEF CallInv
<1>6. DropInv' /\ RetireInv' /\ HearInv'
  BY <1>1, <1>2, DropsKeep, RetiresKeep, HearsKeep
<1> QED
  BY <1>3, <1>4, <1>5, <1>6 DEF DInv

\* One client's copies change while nothing is on its way to anybody.
LEMMA CopyChanges ==
  ASSUME DInv, \A f \in Calling : f.at # "deliver", \A f \in Calling' : f.at # "deliver",
         NEW c \in Connections, UNCHANGED <<status, sequences>>,
         \A d \in Connections : d # c => copy'[d] = copy[d] /\ topics'[d] = topics[d],
         \A t \in DOMAIN copy'[c] :
           /\ status[c] = "open" /\ t \in topics'[c]
           /\ \/ t \in DOMAIN copy[c] /\ copy'[c][t] = copy[c][t]
              \/ t \in Topics /\ copy'[c][t].last = sequences[t]
  PROVE  HearInv'
<1>1. DTyped
  BY DInvParts
<1>2. sequences \in [Topics -> Nat]
  BY <1>1 DEF DTyped
<1>4. ASSUME NEW d \in Connections, NEW t \in DOMAIN copy'[d]
      PROVE  /\ status'[d] = "open" /\ t \in topics'[d]
             /\ t.of # "room" => copy'[d][t].last = sequences'[t] /\ copy'[d][t].last \in Nat
  <2>1. CASE d # c
    <3>1. copy'[d] = copy[d] /\ topics'[d] = topics[d]
      BY <2>1
    <3>2. t \in DOMAIN copy[d]
      BY <3>1
    <3>3. /\ status[d] = "open" /\ t \in topics[d]
          /\ t.of # "room" => copy[d][t].last = sequences[t] /\ copy[d][t].last \in Nat
      BY <3>2, InStep
    <3> QED
      BY <3>1, <3>3
  <2>2. CASE d = c /\ t \in DOMAIN copy[c] /\ copy'[c][t] = copy[c][t]
    <3>1. /\ status[c] = "open"
          /\ t.of # "room" => copy[c][t].last = sequences[t] /\ copy[c][t].last \in Nat
      BY <2>2, InStep
    <3> QED
      BY <2>2, <3>1
  <2>3. CASE d = c /\ ~(t \in DOMAIN copy[c] /\ copy'[c][t] = copy[c][t])
    <3>2. /\ status[c] = "open" /\ t \in topics'[c] /\ t \in Topics
          /\ copy'[c][t].last = sequences[t]
      BY <2>3
    <3>3. sequences[t] \in Nat
      BY <3>2, <1>2
    <3> QED
      BY <2>3, <3>2, <3>3
  <2> QED
    BY <2>1, <2>2, <2>3
<1> QED
  BY <1>4, HearsInStep

LEMMA ReadAgainStep ==
  ASSUME DInv, NEW c \in Connections, NEW t \in Topics, ReadAgain(c, t)
  PROVE  DInv'
<1> DEFINE record == [last |-> sequences[t], view |-> Collection(t)]
           held == MapSet(copy[c], t, record)
<1>1. /\ Calling = {} /\ Calling' = {} /\ status[c] = "open" /\ t \in topics[c]
      /\ copy' = [copy EXCEPT ![c] = held]
      /\ UNCHANGED <<instances, byConnection, sessions, dead, opened, status, hub, topics,
                     operators, sequences, stack>>
  BY IdleFacts DEF ReadAgain, presence, server, Calling
<1>2. DTyped /\ HubInv /\ DropInv /\ CallInv /\ RetireInv
  BY DInvParts
<1>3. /\ DOMAIN held = DOMAIN copy[c] \cup {t} /\ held[t] = record
      /\ \A k \in DOMAIN copy[c] : k # t => held[k] = copy[c][k]
  BY DEF MapSet
<1>4. record.last = sequences[t]
  OBVIOUS
<1> HIDE DEF held, record
<1>6. \A k \in DOMAIN copy[c] : k \in topics[c]
  BY <1>1, InStep
<1>7. HearInv' /\ copy' = [d \in Connections |-> copy'[d]]
  <2>1. copy' = [d \in Connections |-> copy'[d]] /\ copy'[c] = held /\ topics' = topics
    BY <1>1, <1>2 DEF DTyped
  <2>2. \A d \in Connections : d # c => copy'[d] = copy[d] /\ topics'[d] = topics[d]
    BY <1>1, <1>2 DEF DTyped
  <2>3. \A k \in DOMAIN copy'[c] :
          /\ status[c] = "open" /\ k \in topics'[c]
          /\ \/ k \in DOMAIN copy[c] /\ copy'[c][k] = copy[c][k]
             \/ k \in Topics /\ copy'[c][k].last = sequences[k]
    BY <1>1, <1>3, <1>4, <1>6, <2>1
  <2> QED
    BY <1>1, <2>1, <2>2, <2>3, CopyChanges
<1>8. DTyped'
  BY <1>1, <1>2, <1>7 DEF DTyped, TypeOK
<1>9. HubInv' /\ DropInv' /\ RetireInv'
  BY <1>1, <1>2, HubKeeps, DropsKeep, RetiresKeep
<1>10. CallInv'
  BY <1>1, <1>2 DEF CallInv
<1> QED
  BY <1>7, <1>8, <1>9, <1>10 DEF DInv

LEMMA HandleSubscribeStep ==
  ASSUME DInv, HandleSubscribe
  PROVE  DInv'
<1> DEFINE c == Top.connection
           t == Top.call.topic
           record == [last |-> sequences[t], view |-> Collection(t)]
           heard == IF status[c] = "over" THEN copy[c] ELSE MapSet(copy[c], t, record)
           wanted == topics[c] \cup {t}
<1>1. /\ At("handle") /\ Top.at = "handle" /\ Top.call.method = "subscribe" /\ stack # <<>>
      /\ topics' = [topics EXCEPT ![c] = wanted]
      /\ MaySubscribe(c, t) /\ stack' = Below
      /\ copy' = IF status[c] = "over" THEN copy ELSE [copy EXCEPT ![c] = MapSet(@, t, record)]
      /\ UNCHANGED <<instances, byConnection, sessions, dead, opened, status, hub, operators,
                     sequences>>
  BY DEF HandleSubscribe, presence, At, Idle
<1>2. /\ DTyped /\ HubInv /\ DropInv /\ RetireInv
  BY DInvParts
<1>3. c \in Connections /\ t \in Topics
  BY <1>1, TopFacts, CallFacts DEF FrameOK
<1>4. /\ Calling' = {} /\ Calling = {Top} /\ Stacked(stack') /\ CallInv'
  BY <1>1, CallReturns DEF presence
<1>5. copy' = [copy EXCEPT ![c] = heard]
  <2>1. copy = [d \in Connections |-> copy[d]]
    BY <1>2 DEF DTyped
  <2>2. copy = [copy EXCEPT ![c] = copy[c]]
    BY <2>1
  <2> QED
    BY <1>1, <2>2
<1>6. /\ \A f \in Calling : f.at # "deliver" /\ f.at # "drop"
      /\ \A f \in Calling' : f.at # "deliver" /\ f.at # "drop" /\ f.at # "retire"
  BY <1>1, <1>4
<1>7. \A k \in DOMAIN heard :
        /\ status[c] = "open" /\ k \in wanted
        /\ \/ k \in DOMAIN copy[c] /\ heard[k] = copy[c][k]
           \/ k \in Topics /\ heard[k].last = sequences[k]
  <2>1. \A k \in DOMAIN copy[c] : status[c] = "open" /\ k \in topics[c]
    BY <1>3, <1>6, InStep
  <2>2. CASE status[c] = "over"
    BY <2>1, <2>2
  <2>3. CASE status[c] # "over"
    <3>1. status[c] = "open"
      BY <1>1, <1>4, <2>3, DInvParts DEF CallInv, LetGoOn, Over
    <3>2. /\ DOMAIN heard = DOMAIN copy[c] \cup {t} /\ heard[t] = record
          /\ \A k \in DOMAIN copy[c] : k # t => heard[k] = copy[c][k]
      BY <2>3 DEF MapSet
    <3>3. record.last = sequences[t]
      OBVIOUS
    <3> HIDE DEF heard, record
    <3> QED
      BY <2>1, <3>1, <3>2, <3>3, <1>3
  <2> QED
    BY <2>2, <2>3
<1>8. AdminTopic \in wanted => AccountOf[c] \in Operators
  <2>1. t = AdminTopic => AccountOf[c] \in operators
    BY <1>1 DEF MaySubscribe, AdminTopic
  <2> QED
    BY <1>2, <1>3, <2>1 DEF HubInv, DTyped
<1>9. wanted \in SUBSET Topics
  BY <1>2, <1>3 DEF DTyped
<1> HIDE DEF heard, record, wanted, c, t
<1>10. HearInv' /\ copy' = [d \in Connections |-> copy'[d]]
  <2>1. /\ copy' = [d \in Connections |-> copy'[d]] /\ copy'[c] = heard
        /\ topics'[c] = wanted
        /\ \A d \in Connections : d # c => copy'[d] = copy[d] /\ topics'[d] = topics[d]
    BY <1>1, <1>2, <1>3, <1>5 DEF DTyped
  <2> QED
    BY <1>1, <1>3, <1>6, <1>7, <2>1, CopyChanges
<1>11. DTyped'
  BY <1>1, <1>2, <1>3, <1>4, <1>9, <1>10 DEF DTyped, TypeOK, Stacked, Calling
<1>12. HubInv'
  BY <1>1, <1>2, <1>3, <1>8 DEF HubInv, DTyped
<1>13. DropInv' /\ RetireInv'
  BY <1>1, <1>2, <1>6, DropsKeep, RetiresKeep
<1> QED
  BY <1>4, <1>10, <1>11, <1>12, <1>13 DEF DInv

LEMMA HandleUnsubscribeStep ==
  ASSUME DInv, HandleUnsubscribe
  PROVE  DInv'
<1> DEFINE c == Top.connection
           t == Top.call.topic
           heard == MapDelete(copy[c], {t})
           wanted == topics[c] \ {t}
<1>1. /\ At("handle") /\ Top.at = "handle" /\ stack # <<>>
      /\ topics' = [topics EXCEPT ![c] = wanted] /\ copy' = [copy EXCEPT ![c] = heard]
      /\ stack' = Below
      /\ UNCHANGED <<instances, byConnection, sessions, dead, opened, status, hub, operators,
                     sequences>>
  BY DEF HandleUnsubscribe, presence, At, Idle
<1>2. /\ DTyped /\ HubInv /\ DropInv /\ RetireInv
  BY DInvParts
<1>3. c \in Connections
  BY <1>1, TopFacts DEF FrameOK
<1>4. /\ Calling' = {} /\ Calling = {Top} /\ Stacked(stack') /\ CallInv'
  BY <1>1, CallReturns DEF presence
<1>6. /\ \A f \in Calling : f.at # "deliver" /\ f.at # "drop"
      /\ \A f \in Calling' : f.at # "deliver" /\ f.at # "drop" /\ f.at # "retire"
  BY <1>1, <1>4
<1>7. \A k \in DOMAIN heard :
        /\ status[c] = "open" /\ k \in wanted
        /\ k \in DOMAIN copy[c] /\ heard[k] = copy[c][k]
  <2>1. \A k \in DOMAIN copy[c] : status[c] = "open" /\ k \in topics[c]
    BY <1>3, <1>6, InStep
  <2> QED
    BY <2>1 DEF MapDelete, Restrict
<1>9. wanted \in SUBSET Topics /\ wanted \subseteq topics[c]
  BY <1>2, <1>3 DEF DTyped
<1> HIDE DEF heard, wanted, c, t
<1>10. HearInv' /\ copy' = [d \in Connections |-> copy'[d]]
  <2>1. /\ copy' = [d \in Connections |-> copy'[d]] /\ copy'[c] = heard
        /\ topics'[c] = wanted
        /\ \A d \in Connections : d # c => copy'[d] = copy[d] /\ topics'[d] = topics[d]
    BY <1>1, <1>2, <1>3 DEF DTyped
  <2> QED
    BY <1>1, <1>3, <1>6, <1>7, <2>1, CopyChanges
<1>11. DTyped'
  BY <1>1, <1>2, <1>3, <1>4, <1>9, <1>10 DEF DTyped, TypeOK, Stacked, Calling
<1>12. HubInv'
  BY <1>1, <1>2, <1>3, <1>9 DEF HubInv, DTyped
<1>13. DropInv' /\ RetireInv'
  BY <1>1, <1>2, <1>6, DropsKeep, RetiresKeep
<1> QED
  BY <1>4, <1>10, <1>11, <1>12, <1>13 DEF DInv

LEMMA ForgetStep ==
  ASSUME DInv, Forget
  PROVE  DInv'
<1>1. /\ stack # <<>> /\ Top.at = "forget" /\ ~At("handle") /\ stack' = Below
      /\ sequences' = [sequences EXCEPT ![Top.topic] = 0]
      /\ UNCHANGED <<instances, byConnection, sessions, dead, opened, status, hub, topics,
                     operators, copy>>
  BY DEF Forget, At, Idle, server, presence
<1>2. DTyped /\ HubInv /\ DropInv /\ CallInv /\ RetireInv /\ HearInv /\ Stacked(stack)
  BY DInvParts
<1>3. /\ Stacked(stack') /\ CallsLast(stack') /\ Calling' = ToSet(Below)
      /\ Calling = {Top} \cup Calling' /\ Top.topic \in Topics /\ Top.topic.of = "room"
  BY <1>1, TopFacts DEF Calling, FrameOK
<1>4. /\ sequences' \in [Topics -> Nat]
      /\ \A t \in Topics : t.of # "room" => sequences'[t] = sequences[t]
  BY <1>1, <1>2, <1>3 DEF DTyped
<1>5. DTyped'
  BY <1>1, <1>2, <1>3, <1>4 DEF DTyped, TypeOK, Stacked, Calling
<1>6. HubInv' /\ RetireInv' /\ DropInv'
  BY <1>1, <1>2, <1>3, HubKeeps, RetiresKeep, DropsKeep
<1>7. CallInv'
  BY <1>1, <1>2, <1>3, CallsKeep DEF Over
<1>8. ASSUME NEW c \in Connections, NEW t \in DOMAIN copy[c]
      PROVE  CopyOK(c, t)'
  <2>1. CopyOK(c, t) /\ t \in Topics
    BY <1>2 DEF HearInv, CopyOK, DTyped
  <2>2. \A s : ToHear(c, t, s) => ToHear(c, t, s)'
    BY <1>1, <1>3 DEF ToHear
  <2> QED
    BY <1>1, <1>4, <2>1, <2>2 DEF CopyOK
<1>9. ASSUME NEW f \in Calling', f.at = "deliver", f.event.topic.of # "room"
      PROVE  f.seq <= sequences'[f.event.topic]
  <2>1. f \in Calling /\ FrameOK(f)
    BY <1>2, <1>3 DEF Stacked, Calling
  <2>2. f.event.topic \in Topics
    BY <1>9, <2>1 DEF FrameOK
  <2> QED
    BY <1>2, <1>4, <1>9, <2>1, <2>2 DEF HearInv
<1>10. HearInv'
  BY <1>1, <1>8, <1>9 DEF HearInv
<1> QED
  BY <1>5, <1>6, <1>7, <1>10 DEF DInv

\* An event is on its way to everybody in the hub, which is where copies are.
LEMMA BeginPublishStep ==
  ASSUME DInv, BeginPublish
  PROVE  DInv'
<1> DEFINE topic == Top.topic
           next == sequences[topic] + 1
           f == [at |-> "deliver", event |-> Top, seq |-> next, to |-> hub]
<1>1. /\ stack # <<>> /\ Top.at = "publish" /\ ~At("handle")
      /\ sequences' = [sequences EXCEPT ![topic] = @ + 1]
      /\ UNCHANGED <<instances, byConnection, sessions, dead, opened, status, hub, topics,
                     operators, copy>>
  BY DEF BeginPublish, At, Idle, server, presence
<1>2. DTyped /\ HubInv /\ DropInv /\ CallInv /\ RetireInv /\ HearInv /\ Stacked(stack)
  BY DInvParts
<1>3. /\ Stacked(Below) /\ CallsLast(Below)
      /\ Calling = {Top} \cup ToSet(Below) /\ topic \in Topics
  BY <1>1, TopFacts DEF FrameOK
<1>4. /\ sequences' \in [Topics -> Nat] /\ next \in Nat /\ sequences'[topic] = next
      /\ \A t \in Topics : t # topic => sequences'[t] = sequences[t]
      /\ \A t \in Topics : sequences[t] \in Nat
  BY <1>1, <1>2, <1>3 DEF DTyped
<1>5. f.at = "deliver" /\ f.event = Top /\ f.seq = next /\ f.to = hub
  OBVIOUS
<1>6. FrameOK(f)
  <2>1. f = [at |-> "deliver", event |-> f.event, seq |-> f.seq, to |-> f.to]
    OBVIOUS
  <2>2. f.event.topic \in Topics /\ f.seq \in Nat /\ f.to \in Seq(Connections)
    BY <1>2, <1>3, <1>4, <1>5 DEF DTyped
  <2> HIDE DEF f
  <2> QED
    BY <1>5, <2>1, <2>2 DEF FrameOK
<1>7. stack' = <<f>> \o Below
  BY <1>4 DEF BeginPublish
<1> HIDE DEF f, next
<1>8. Stacked(stack') /\ CallsLast(stack') /\ Calling' = {f} \cup ToSet(Below)
  BY <1>3, <1>5, <1>6, <1>7, Pushed DEF Calling
<1>9. DTyped'
  BY <1>1, <1>2, <1>4, <1>8 DEF DTyped, TypeOK, Stacked, Calling
<1>10. /\ \A g \in Calling : g.at # "publish" => g \in Calling'
       /\ \A g \in Calling' : g.at # "deliver" => g \in Calling
  BY <1>1, <1>3, <1>5, <1>8
<1>11. HubInv' /\ RetireInv' /\ DropInv'
  BY <1>1, <1>2, <1>10, HubKeeps, RetiresKeep, DropsKeep
<1>12. CallInv'
  BY <1>1, <1>2, <1>8, <1>10, CallsKeep DEF Over
<1>13. ASSUME NEW c \in Connections, NEW t \in DOMAIN copy[c]
       PROVE  CopyOK(c, t)'
  <2>1. CopyOK(c, t) /\ t \in Topics
    BY <1>2 DEF HearInv, CopyOK, DTyped
  <2>2. \A s : ToHear(c, t, s) => ToHear(c, t, s)'
    BY <1>10 DEF ToHear
  <2>3. CASE t # topic
    BY <1>1, <1>4, <2>1, <2>2, <2>3 DEF CopyOK
  <2>4. CASE t = topic
    <3>1. ASSUME NEW s, s = next
          PROVE  ToHear(c, t, s)'
      <4>1. c \in ToSet(hub)
        BY <1>2, <2>1 DEF HubInv, CopyOK
      <4>2. f.event.topic = t
        BY <2>4, <1>5
      <4> QED
        BY <3>1, <1>5, <1>8, <4>1, <4>2 DEF ToHear
    <3>2. ASSUME t.of # "room"
          PROVE  /\ copy[c][t].last \in Nat /\ copy[c][t].last <= next
                 /\ \A s \in copy[c][t].last + 1 .. next : ToHear(c, t, s)'
      <4> DEFINE m == copy[c][t].last
                 n == sequences[t]
      <4>1. /\ m \in Nat /\ n \in Nat /\ m <= n /\ next = n + 1
            /\ \A s \in m + 1 .. n : ToHear(c, t, s)
        BY <2>1, <2>4, <3>2, <1>4 DEF CopyOK, next
      <4> HIDE DEF m, n
      <4>2. m <= next /\ \A s \in m + 1 .. next : s \in m + 1 .. n \/ s = next
        BY <4>1
      <4>3. \A s \in m + 1 .. next : ToHear(c, t, s)'
        BY <2>2, <3>1, <4>1, <4>2
      <4> QED
        BY <4>1, <4>2, <4>3 DEF m
    <3> QED
      BY <1>1, <1>4, <2>1, <2>4, <3>2 DEF CopyOK
  <2> QED
    BY <2>3, <2>4
<1>14. ASSUME NEW g \in Calling', g.at = "deliver", g.event.topic.of # "room"
       PROVE  g.seq <= sequences'[g.event.topic]
  <2>1. CASE g = f
    BY <2>1, <1>4, <1>5
  <2>2. CASE g # f
    <3>1. g \in Calling /\ FrameOK(g)
      BY <2>2, <1>2, <1>3, <1>8 DEF Stacked, Calling
    <3>2. g.event.topic \in Topics /\ g.seq \in Nat /\ g.seq <= sequences[g.event.topic]
      BY <3>1, <1>2, <1>14 DEF HearInv, FrameOK
    <3>3. g.event.topic = topic => g.seq <= next
      BY <3>2, <1>4 DEF next
    <3> QED
      BY <3>2, <3>3, <1>4
  <2> QED
    BY <2>1, <2>2
<1>15. HearInv'
  BY <1>1, <1>13, <1>14 DEF HearInv
<1> QED
  BY <1>9, <1>11, <1>12, <1>15 DEF DInv

-----------------------------------------------------------------------------
(* A session ends.                                                         *)

\* A session leaves the hub, and what its connection carried is to be dropped.
LEMMA Closes ==
  ASSUME DInv, NEW c \in Connections, status[c] = "open", NEW below,
         CloseSession(c, below), Stacked(below), CallsLast(below),
         \A f \in ToSet(below) : f.at = "handle" => LetGoOn(f.connection)',
         \A f \in Calling : f.at = "drop" => f \in ToSet(below),
         \A f \in ToSet(below) : f.at \in {"drop", "retire"} => f \in Calling,
         copy' = [d \in Connections |-> copy'[d]], HearInv'
  PROVE  DInv'
<1> DEFINE carried == byConnection[c]
           f == [at |-> "drop", connection |-> c, ids |-> carried]
<1>1. /\ status' = [status EXCEPT ![c] = "over"]
      /\ hub' = SetDelete(hub, c)
      /\ topics' = [topics EXCEPT ![c] = {}]
      /\ byConnection' = [byConnection EXCEPT ![c] = <<>>]
      /\ stack' = <<f>> \o below
      /\ UNCHANGED <<instances, sessions, dead, opened, sequences, operators>>
  BY DEF CloseSession
<1>2. DTyped /\ HubInv /\ DropInv /\ CallInv /\ RetireInv
  BY DInvParts
<1>3. carried \in Seq(Instances)
  BY <1>2 DEF DTyped, TypeOK
<1> HIDE DEF carried
<1>4. f.at = "drop" /\ f.connection = c /\ f.ids = carried
  OBVIOUS
<1>5. FrameOK(f)
  <2>1. f = [at |-> "drop", connection |-> f.connection, ids |-> f.ids]
    OBVIOUS
  <2> HIDE DEF f
  <2> QED
    BY <1>3, <1>4, <2>1 DEF FrameOK
<1> HIDE DEF f
<1>6. Stacked(stack') /\ CallsLast(stack') /\ Calling' = {f} \cup ToSet(below)
  BY <1>1, <1>4, <1>5, Pushed DEF Calling
<1>7. /\ status'[c] = "over" /\ byConnection'[c] = <<>> /\ topics'[c] = {}
      /\ \A d \in Connections : d # c =>
           /\ status'[d] = status[d] /\ byConnection'[d] = byConnection[d]
           /\ topics'[d] = topics[d]
  BY <1>1, <1>2 DEF DTyped, TypeOK
<1>8. /\ hub' \in Seq(Connections) /\ ToSet(hub') = ToSet(hub) \ {c} /\ IsInjective(hub')
  <2>1. hub \in Seq(Connections) /\ IsInjective(hub)
    BY <1>2 DEF DTyped, HubInv
  <2> QED
    BY <1>1, <2>1, SetDeleteFacts
<1>9. DTyped'
  <2>1. byConnection' \in [Connections -> Seq(Instances)]
    BY <1>1, <1>2, EmptySeq DEF DTyped, TypeOK
  <2>2. /\ status' \in [Connections -> {"new", "open", "over"}]
        /\ topics' \in [Connections -> SUBSET Topics]
    BY <1>1, <1>2 DEF DTyped
  <2> QED
    BY <1>1, <1>2, <1>6, <1>8, <2>1, <2>2 DEF DTyped, TypeOK, Stacked, Calling
<1>10. HubInv'
  BY <1>2, <1>7, <1>8 DEF HubInv
<1>11. CallInv'
  BY <1>4, <1>6 DEF CallInv, CallsLast
<1>12. DropInv'
  <2>1. \A d \in Connections : Over(d) => Over(d)'
    BY <1>7 DEF Over
  <2>2. \A d \in Connections : IsInjective(byConnection'[d])
    BY <1>2, <1>7 DEF DropInv, IsInjective
  <2>3. ASSUME NEW g \in Calling', g.at = "drop"
        PROVE  Over(g.connection)'
    <3>1. CASE g = f
      BY <3>1, <1>4, <1>7 DEF Over
    <3>2. CASE g # f
      <4>1. g \in Calling
        BY <2>3, <3>2, <1>6
      <4>2. g.connection \in Connections
        BY <4>1, <2>3, DInvParts DEF Stacked, Calling, FrameOK
      <4> QED
        BY <2>1, <2>3, <4>1, <4>2, <1>2 DEF DropInv
    <3> QED
      BY <3>1, <3>2
  <2>4. ASSUME NEW id \in DOMAIN instances
        PROVE  CarriedOn(id, instances[id].connection)'
    <3>1. PICK d \in Connections : d = instances[id].connection /\ CarriedOn(id, d)
      BY <1>2 DEF DropInv, DTyped, TypeOK, InstanceEntry
    <3>2. CASE d = c
      <4>1. id \in ToSet(carried)
        <5>1. ~Over(c)
          BY DEF Over
        <5> QED
          BY <5>1, <3>1, <3>2 DEF CarriedOn, carried
      <4>2. ToDrop(id, c)'
        BY <4>1, <1>4, <1>6 DEF ToDrop
      <4> QED
        BY <4>2, <3>1, <3>2, <1>1, <1>7 DEF CarriedOn, Over
    <3>3. CASE d # c
      <4>1. ToDrop(id, d) => ToDrop(id, d)'
        BY <1>6 DEF ToDrop
      <4>2. DemotedWhileSlow(d) => DemotedWhileSlow(d)'
        BY <1>1, DemotedStay
      <4>3. CarriedOn(id, d)'
        BY <1>7, <3>1, <3>3, <4>1, <4>2 DEF CarriedOn, Over
      <4> QED
        BY <4>3, <1>1, <3>1
    <3> QED
      BY <3>2, <3>3
  <2> QED
    BY <1>1, <2>2, <2>3, <2>4 DEF DropInv
<1>13. RetireInv'
  <2>1. \A g \in Calling' : g.at = "retire" => g \in Calling
    BY <1>4, <1>6
  <2> QED
    BY <1>1, <1>2, <2>1, RetiresKeep
<1> QED
  BY <1>9, <1>10, <1>11, <1>12, <1>13 DEF DInv

LEMMA ClosesIdle ==
  ASSUME DInv, Idle, NEW c \in Connections, status[c] = "open", NEW below,
         CloseSession(c, below), Stacked(below), CallsLast(below),
         \A f \in ToSet(below) : f.at = "handle" /\ LetGoOn(f.connection)',
         copy' = [copy EXCEPT ![c] = <<>>]
  PROVE  DInv'
<1>1. Calling = {}
  BY IdleFacts
<1>2. DTyped
  BY DInvParts
<1>3. copy' = [d \in Connections |-> copy'[d]]
  BY <1>2 DEF DTyped
<1>4. /\ DOMAIN copy'[c] = {}
      /\ \A d \in Connections : d # c =>
           copy'[d] = copy[d] /\ status'[d] = status[d] /\ topics'[d] = topics[d]
  BY <1>2 DEF DTyped, CloseSession
<1>5. ASSUME NEW f \in Calling'
      PROVE  f.at # "deliver"
  <2> DEFINE carried == byConnection[c]
             g == [at |-> "drop", connection |-> c, ids |-> carried]
  <2>1. stack' = <<g>> \o below
    BY DEF CloseSession
  <2> HIDE DEF carried
  <2>2. g.at = "drop"
    OBVIOUS
  <2> HIDE DEF g
  <2>3. Calling' = {g} \cup ToSet(below)
    BY <2>1, SeqPush DEF Stacked, Calling
  <2> QED
    BY <2>2, <2>3
<1>6. ASSUME NEW d \in Connections, NEW t \in DOMAIN copy'[d]
      PROVE  /\ status'[d] = "open" /\ t \in topics'[d]
             /\ t.of # "room" => copy'[d][t].last = sequences'[t] /\ copy'[d][t].last \in Nat
  <2>1. d # c
    BY <1>4
  <2>2. copy'[d] = copy[d] /\ status'[d] = status[d] /\ topics'[d] = topics[d]
    BY <2>1, <1>4
  <2>3. t \in DOMAIN copy[d]
    BY <2>2
  <2>4. /\ status[d] = "open" /\ t \in topics[d]
        /\ t.of # "room" => copy[d][t].last = sequences[t] /\ copy[d][t].last \in Nat
    BY <1>1, <2>3, InStep
  <2>5. sequences' = sequences
    BY DEF CloseSession
  <2> QED
    BY <2>2, <2>4, <2>5
<1>7. HearInv'
  BY <1>5, <1>6, HearsInStep
<1> QED
  BY <1>1, <1>3, <1>7, Closes

LEMMA CloseStep ==
  ASSUME DInv, NEW c \in Connections, Close(c)
  PROVE  DInv'
BY ClosesIdle, NothingStacked DEF Close

\* identify takes an operator's topics back, or ends the session over it, or neither.
LEMMA IdentifyStep ==
  ASSUME DInv, Idle, NEW c \in Connections, status[c] = "open",
         NEW below, Stacked(below), CallsLast(below),
         \A f \in ToSet(below) : f.at = "handle" /\ f.connection = c /\ below = <<f>>,
         Identify(c, below)
  PROVE  DInv'
<1>1. DTyped /\ HubInv /\ DropInv /\ RetireInv /\ HearInv
  BY DInvParts
<1>2. Calling = {}
  BY IdleFacts
<1>3. CASE /\ AdminTopic \in topics[c] /\ AccountOf[c] \notin operators /\ c \in SlowPeers
           /\ CloseSession(c, below) /\ copy' = [copy EXCEPT ![c] = <<>>]
  <2>1. status' = [status EXCEPT ![c] = "over"] /\ operators' = operators
    BY <1>3 DEF CloseSession
  <2>2. status'[c] = "over"
    BY <2>1, <1>1 DEF DTyped
  <2>3. AccountOf[c] \in Operators
    BY <1>1, <1>3 DEF HubInv
  <2>4. LetGoOn(c)'
    BY <1>3, <2>1, <2>2, <2>3 DEF LetGoOn, Over, DemotedWhileSlow
  <2>5. ASSUME NEW f \in ToSet(below)
        PROVE  f.at = "handle" /\ LetGoOn(f.connection)'
    BY <2>4
  <2> QED
    BY <1>3, <2>5, ClosesIdle
<1>4. CASE /\ stack' = below
           /\ UNCHANGED <<presence, status, hub, operators, sequences>>
           /\ topics' = [topics EXCEPT ![c] = @ \ {AdminTopic}]
           /\ copy' = [copy EXCEPT ![c] = MapDelete(@, {AdminTopic})]
  <2>1. /\ Stacked(stack') /\ CallsLast(stack') /\ Calling' = ToSet(below)
        /\ UNCHANGED <<instances, byConnection, sessions, dead, opened, status, hub, operators,
                       sequences>>
    BY <1>4 DEF Calling, presence
  <2>2. \A f \in Calling' : f.at = "handle"
    BY <2>1
  <2>3. /\ copy' = [d \in Connections |-> copy'[d]]
        /\ copy'[c] = MapDelete(copy[c], {AdminTopic}) /\ topics'[c] = topics[c] \ {AdminTopic}
        /\ \A d \in Connections : d # c => copy'[d] = copy[d] /\ topics'[d] = topics[d]
    BY <1>1, <1>4 DEF DTyped
  <2>4. \A t \in DOMAIN copy'[c] :
          /\ t \in DOMAIN copy[c] /\ copy'[c][t] = copy[c][t] /\ t # AdminTopic
    BY <2>3 DEF MapDelete, Restrict
  <2>5. \A t \in DOMAIN copy'[c] : status[c] = "open" /\ t \in topics'[c]
    BY <1>2, <2>3, <2>4, InStep
  <2>6. HearInv'
    BY <1>2, <2>1, <2>2, <2>3, <2>4, <2>5, CopyChanges
  <2>7. DTyped'
    <3>1. topics' \in [Connections -> SUBSET Topics]
      BY <1>1, <1>4 DEF DTyped
    <3> QED
      BY <1>1, <2>1, <2>3, <3>1 DEF DTyped, TypeOK, Stacked, Calling
  <2>8. HubInv'
    <3>1. \A d \in Connections : topics'[d] \subseteq topics[d]
      BY <2>3
    <3> QED
      BY <1>1, <2>1, <3>1 DEF HubInv
  <2>9. CallInv'
    BY <1>4, <2>1, <2>2 DEF CallInv, CallsLast
  <2>10. DropInv' /\ RetireInv'
    BY <1>1, <1>2, <2>1, <2>2, DropsKeep, RetiresKeep
  <2> QED
    BY <2>6, <2>7, <2>8, <2>9, <2>10 DEF DInv
<1>5. CASE stack' = below /\ UNCHANGED <<presence, status, hub, topics, operators, sequences, copy>>
  <2>1. Stacked(stack') /\ CallsLast(stack') /\ Calling' = ToSet(below) /\ status' = status
    BY <1>5 DEF Calling
  <2>2. CallInv'
    BY <1>5, <2>1 DEF CallInv, CallsLast
  <2>3. \A f \in Calling' : f.at = "handle"
    BY <2>1
  <2> QED
    BY <1>2, <1>5, <2>1, <2>2, <2>3, OnlyTheStack
<1> QED
  BY <1>3, <1>4, <1>5 DEF Identify

LEMMA RevalidateStep ==
  ASSUME DInv, NEW c \in Connections, Revalidate(c)
  PROVE  DInv'
<1>1. /\ Idle /\ status[c] = "open" /\ Identify(c, <<>>)
      /\ Stacked(<<>>) /\ CallsLast(<<>>) /\ \A f \in ToSet(<<>>) : FALSE
  BY NothingStacked DEF Revalidate
<1> QED
  BY <1>1, IdentifyStep

LEMMA ReceiveStep ==
  ASSUME DInv, NEW c \in Connections, NEW call \in Sends[c], Receive(c, call)
  PROVE  DInv'
<1> DEFINE f == [at |-> "handle", connection |-> c, call |-> call]
<1>1. call \in Calls
  BY SendsAssumption
<1>2. f.at = "handle" /\ f.connection = c /\ FrameOK(f)
  BY <1>1 DEF FrameOK
<1>3. /\ Idle /\ status[c] = "open"
      /\ \/ Identify(c, <<f>>)
         \/ /\ stack' = <<f>>
            /\ UNCHANGED <<presence, status, hub, topics, operators, sequences, copy>>
  BY DEF Receive
<1> HIDE DEF f
<1>4. Stacked(<<f>>) /\ CallsLast(<<f>>) /\ ToSet(<<f>>) = {f}
  <2> DEFINE s == <<f>> \o <<>>
  <2>1. s = <<f>>
    OBVIOUS
  <2>2. Stacked(s) /\ ToSet(s) = {f} \cup {}
    BY <1>2, Pushed, NothingStacked
  <2> HIDE DEF s
  <2>3. CallsLast(<<f>>)
    BY DEF CallsLast
  <2> QED
    BY <2>1, <2>2, <2>3
<1>5. \A g \in ToSet(<<f>>) : g.at = "handle" /\ g.connection = c /\ <<f>> = <<g>>
  BY <1>2, <1>4
<1>6. CASE Identify(c, <<f>>)
  BY <1>3, <1>4, <1>5, <1>6, IdentifyStep
<1>7. CASE /\ stack' = <<f>>
           /\ UNCHANGED <<presence, status, hub, topics, operators, sequences, copy>>
  <2>1. Calling = {} /\ Calling' = {f}
    BY <1>3, <1>4, <1>7, IdleFacts DEF Calling
  <2>2. CallInv'
    BY <1>2, <1>3, <1>4, <1>7, <2>1 DEF CallInv, CallsLast
  <2> QED
    BY <1>2, <1>4, <1>7, <2>1, <2>2, OnlyTheStack
<1> QED
  BY <1>3, <1>6, <1>7

-----------------------------------------------------------------------------
(* An event is told to the sessions that want it.                          *)

\* What a client holds once it has heard an event.
LEMMA HeardFacts ==
  ASSUME NEW held, NEW f
  PROVE  /\ DOMAIN Heard(held, f) \subseteq DOMAIN held
         /\ \A k \in DOMAIN Heard(held, f) : k # f.event.topic => Heard(held, f)[k] = held[k]
         /\ f.event.topic \in DOMAIN Heard(held, f) =>
              /\ f.seq = held[f.event.topic].last + 1
              /\ Heard(held, f)[f.event.topic].last = f.seq
BY DEF Heard, MapSet, MapDelete, Restrict

\* A part of the walk: these were told, these are gone, and these are left.
Telling(told, gone, left) ==
  /\ \A d \in ToSet(Top.to) : d \in Wanting(Top.event.topic) => d \in told \cup gone \cup left
  /\ \A f \in ToSet(Below) : f.at = "deliver" => f \in Calling'
  /\ \A f \in Calling' : f.at = "deliver" =>
       f \in ToSet(Below) \/ (f.event = Top.event /\ f.seq = Top.seq)
  /\ left # {} => \E f \in Calling' : /\ f.at = "deliver" /\ f.event = Top.event
                                       /\ f.seq = Top.seq /\ left \subseteq ToSet(f.to)
  /\ \A d \in gone : DOMAIN copy'[d] = {}
  /\ \A d \in Connections : d \notin gone =>
       /\ copy'[d] = (IF d \in told THEN Heard(copy[d], Top) ELSE copy[d])
       /\ status'[d] = status[d] /\ topics'[d] = topics[d]
  /\ sequences' = sequences

\* Whoever wanted the event has been told, is gone, or is left to tell.
LEMMA DeliverHears ==
  ASSUME DInv, At("deliver"), NEW told, NEW gone, NEW left, Telling(told, gone, left)
  PROVE  HearInv'
<1> USE DEF Telling
<1>1. DTyped /\ HubInv /\ HearInv
  BY DInvParts
<1>2. /\ Calling = {Top} \cup ToSet(Below) /\ Top.at = "deliver"
      /\ Top.event.topic \in Topics /\ Top.seq \in Nat
  BY TopFacts DEF At, Idle, FrameOK
<1>3. ASSUME NEW f \in Calling', f.at = "deliver", f.event.topic.of # "room"
      PROVE  f.seq <= sequences'[f.event.topic]
  <2>1. \E g \in Calling : /\ g.at = "deliver" /\ g.event = f.event /\ g.seq = f.seq
    BY <1>2, <1>3
  <2> QED
    BY <1>1, <1>3, <2>1 DEF HearInv
<1>4. ASSUME NEW c \in Connections, NEW t \in DOMAIN copy'[c]
      PROVE  CopyOK(c, t)'
  <2>1. c \notin gone
    OBVIOUS
  <2>2. status'[c] = status[c] /\ topics'[c] = topics[c]
    BY <2>1
  <2>3. t \in DOMAIN copy[c]
    BY <2>1, HeardFacts
  <2>4. CopyOK(c, t)
    BY <1>1, <2>3 DEF HearInv
  <2>5. t \in Topics /\ c \in ToSet(hub)
    BY <1>1, <2>4 DEF CopyOK, DTyped, HubInv
  <2>6. ASSUME t.of # "room"
        PROVE  /\ copy'[c][t].last \in Nat /\ copy'[c][t].last <= sequences[t]
               /\ \A s \in copy'[c][t].last + 1 .. sequences[t] : ToHear(c, t, s)'
    <3>1. /\ copy[c][t].last \in Nat /\ copy[c][t].last <= sequences[t]
          /\ \A s \in copy[c][t].last + 1 .. sequences[t] : ToHear(c, t, s)
      BY <2>4, <2>6 DEF CopyOK
    <3>2. sequences[t] \in Nat
      BY <1>1, <2>5 DEF DTyped
    <3>3. CASE c \in told /\ t = Top.event.topic
      <4>1. copy'[c] = Heard(copy[c], Top)
        BY <2>1, <3>3
      <4>2. Top.seq = copy[c][t].last + 1 /\ copy'[c][t].last = Top.seq
        BY <3>3, <4>1, HeardFacts
      <4>3. Top.seq <= sequences[t]
        BY <1>1, <1>2, <2>6, <3>3 DEF HearInv
      <4>4. ASSUME NEW s \in copy'[c][t].last + 1 .. sequences[t]
            PROVE  ToHear(c, t, s)'
        <5>1. s \in copy[c][t].last + 1 .. sequences[t] /\ s # Top.seq
          BY <1>2, <3>1, <3>2, <4>2
        <5>2. PICK f \in Calling : /\ f.at = "deliver" /\ f.event.topic = t /\ f.seq = s
                                   /\ c \in ToSet(f.to)
          BY <3>1, <5>1 DEF ToHear
        <5>3. f \in Calling'
          BY <1>2, <5>1, <5>2
        <5> QED
          BY <5>2, <5>3 DEF ToHear
      <4> QED
        BY <1>2, <4>2, <4>3, <4>4
    <3>4. CASE ~(c \in told /\ t = Top.event.topic)
      <4>1. copy'[c][t] = copy[c][t]
        BY <2>1, <3>4, HeardFacts
      <4>2. ASSUME NEW s \in copy[c][t].last + 1 .. sequences[t]
            PROVE  ToHear(c, t, s)'
        <5>1. PICK f \in Calling : /\ f.at = "deliver" /\ f.event.topic = t /\ f.seq = s
                                   /\ c \in ToSet(f.to)
          BY <3>1, <4>2 DEF ToHear
        <5>2. CASE f = Top
          <6>1. c \in ToSet(Top.to) /\ t = Top.event.topic /\ Top.seq = s
            BY <5>1, <5>2
          <6>2. c \in Wanting(Top.event.topic)
            BY <2>4, <2>5, <6>1 DEF Wanting, CopyOK
          <6>3. c \in left
            BY <2>1, <3>4, <6>1, <6>2
          <6>4. PICK g \in Calling' : /\ g.at = "deliver" /\ g.event = Top.event
                                      /\ g.seq = Top.seq /\ left \subseteq ToSet(g.to)
            BY <6>3
          <6> QED
            BY <6>1, <6>3, <6>4 DEF ToHear
        <5>3. CASE f # Top
          <6>1. f \in Calling'
            BY <1>2, <5>1, <5>3
          <6> QED
            BY <5>1, <6>1 DEF ToHear
        <5> QED
          BY <5>2, <5>3
      <4> QED
        BY <3>1, <4>1, <4>2
    <3> QED
      BY <3>3, <3>4
  <2> QED
    BY <2>2, <2>4, <2>6 DEF CopyOK
<1> QED
  BY <1>3, <1>4 DEF HearInv

\* What comes after the first of them in a list.
LEMMA RestFacts ==
  ASSUME NEW S, NEW to \in Seq(S), NEW n \in 0 .. Len(to) - 1
  PROVE  /\ SubSeq(to, n + 2, Len(to)) \in Seq(S)
         /\ to[n + 1] \in S
         /\ \A d \in ToSet(to) : \/ \E m \in 1 .. n : to[m] = d
                                 \/ d = to[n + 1]
                                 \/ d \in ToSet(SubSeq(to, n + 2, Len(to)))
<1> DEFINE rest == SubSeq(to, n + 2, Len(to))
<1>1. n + 2 \in Int /\ Len(to) \in Int /\ n \in Nat /\ Len(to) \in Nat
  OBVIOUS
<1>2. rest \in Seq(S)
  <2>1. \A i \in n + 2 .. Len(to) : to[i] \in S
    BY <1>1
  <2>2. rest = [i \in 1 .. (IF n + 2 <= Len(to) THEN Len(to) - (n + 2) + 1 ELSE 0) |->
                  to[i + (n + 2) - 1]]
    BY <1>1
  <2> QED
    BY <1>1, <2>1, <2>2
<1>3. Len(rest) = Len(to) - n - 1 /\ \A i \in 1 .. Len(rest) : rest[i] = to[i + n + 1]
  BY <1>1, SubSeqProperties
<1> HIDE DEF rest
<1>4. ASSUME NEW d \in ToSet(to)
      PROVE  (\E m \in 1 .. n : to[m] = d) \/ d = to[n + 1] \/ d \in ToSet(rest)
  <2>1. PICK m \in 1 .. Len(to) : to[m] = d
    BY DEF ToSet
  <2>2. CASE m > n + 1
    <3>1. m - n - 1 \in 1 .. Len(rest) /\ (m - n - 1) + n + 1 = m
      BY <1>1, <1>3, <2>2
    <3>2. rest[m - n - 1] = d
      BY <1>3, <2>1, <3>1
    <3> QED
      BY <1>2, <3>1, <3>2 DEF ToSet
  <2> QED
    BY <1>1, <2>1, <2>2
<1> QED
  BY <1>1, <1>2, <1>4 DEF rest

\* The walk that is left when a session it was written to has closed.
LEMMA CutFacts ==
  ASSUME NEW f, NEW left,
         f = [at |-> "deliver", event |-> f.event, seq |-> f.seq, to |-> f.to]
  PROVE  [f EXCEPT !.to = left] =
           [at |-> "deliver", event |-> f.event, seq |-> f.seq, to |-> left]
OBVIOUS

LEMMA ClosingCalls ==
  ASSUME NEW c, NEW below, Stacked(below), CloseSession(c, below)
  PROVE  /\ ToSet(below) \subseteq Calling'
         /\ \A g \in Calling' : g.at # "drop" => g \in ToSet(below)
<1> DEFINE carried == byConnection[c]
           f == [at |-> "drop", connection |-> c, ids |-> carried]
<1>1. stack' = <<f>> \o below
  BY DEF CloseSession
<1> HIDE DEF carried
<1>2. f.at = "drop"
  OBVIOUS
<1> HIDE DEF f
<1>3. Calling' = {f} \cup ToSet(below)
  BY <1>1, SeqPush DEF Stacked, Calling
<1> QED
  BY <1>2, <1>3

LEMMA DeliverStep ==
  ASSUME DInv, Deliver
  PROVE  DInv'
<1>1. DTyped /\ HubInv /\ CallInv /\ DropInv /\ RetireInv /\ HearInv
  BY DInvParts
<1>2. /\ At("deliver") /\ stack # <<>> /\ Top.at = "deliver" /\ UNCHANGED <<up, frames>>
  BY DEF Deliver, At, Idle
<1>3. /\ Stacked(Below) /\ CallsLast(Below) /\ FrameOK(Top)
      /\ Calling = {Top} \cup ToSet(Below) /\ Stacked(stack)
  BY <1>2, TopFacts, DInvParts
<1>4. /\ Top = [at |-> "deliver", event |-> Top.event, seq |-> Top.seq, to |-> Top.to]
      /\ Top.to \in Seq(Connections)
  BY <1>2, <1>3 DEF FrameOK
<1> DEFINE to == Top.to
           wanting == Wanting(Top.event.topic)
           told(n) == wanting \cap {to[m] : m \in 1 .. n}
           after(n) == [c \in Connections |-> IF c \in told(n) THEN Heard(copy[c], Top) ELSE copy[c]]
           rest(n) == SubSeq(to, n + 2, Len(to))
<1>5. PICK n \in 0 .. Len(to) :
        \/ /\ n = Len(to) /\ copy' = after(n) /\ stack' = Below
           /\ UNCHANGED <<presence, status, hub, topics, operators, sequences>>
        \/ /\ n # Len(to) /\ to[n + 1] \in wanting \cap SlowPeers
           /\ copy' = [after(n) EXCEPT ![to[n + 1]] = <<>>]
           /\ CloseSession(to[n + 1], <<[Top EXCEPT !.to = rest(n)]>> \o Below)
  BY DEF Deliver
<1>6. CASE /\ n = Len(to) /\ copy' = after(n) /\ stack' = Below
           /\ UNCHANGED <<presence, status, hub, topics, operators, sequences>>
  <2>1. Stacked(stack') /\ CallsLast(stack') /\ Calling' = ToSet(Below)
    BY <1>3, <1>6 DEF Calling
  <2>2. /\ copy' = [d \in Connections |-> copy'[d]]
        /\ \A d \in Connections :
             copy'[d] = (IF d \in told(n) THEN Heard(copy[d], Top) ELSE copy[d])
    BY <1>6
  <2>3. \A d \in ToSet(to) : d \in wanting => d \in told(n)
    BY <1>4, <1>6 DEF ToSet
  <2> HIDE DEF told
  <2>4. HearInv'
    <3>0. PICK have, none : have = told(n) /\ none = {}
      OBVIOUS
    <3>1. \A d \in ToSet(Top.to) :
            d \in Wanting(Top.event.topic) => d \in have \cup none \cup none
      BY <2>3, <3>0
    <3>2. \A d \in Connections : d \notin none =>
           /\ copy'[d] = (IF d \in have THEN Heard(copy[d], Top) ELSE copy[d])
           /\ status'[d] = status[d] /\ topics'[d] = topics[d]
      BY <1>6, <2>2, <3>0
    <3>3. sequences' = sequences
      BY <1>6
    <3>4. \A f \in ToSet(Below) : f.at = "deliver" => f \in Calling'
      BY <2>1
    <3>5. \A f \in Calling' : f.at = "deliver" =>
           f \in ToSet(Below) \/ (f.event = Top.event /\ f.seq = Top.seq)
      BY <2>1
    <3>6. (\A d \in none : DOMAIN copy'[d] = {}) /\ none = {}
      BY <3>0
    <3>7. Telling(have, none, none)
      BY ONLY <3>1, <3>2, <3>3, <3>4, <3>5, <3>6 DEF Telling
    <3> QED
      BY ONLY DInv, <1>2, <3>7, DeliverHears
  <2>5. UNCHANGED <<instances, byConnection, sessions, dead, opened, status, hub, topics,
                    operators, sequences>>
    BY <1>6 DEF presence
  <2>6. DTyped'
    BY <1>1, <2>1, <2>2, <2>5 DEF DTyped, TypeOK, Stacked, Calling
  <2>7. HubInv'
    BY <1>1, <2>5, HubKeeps
  <2>8. CallInv'
    <3>1. ~At("handle") /\ \A c \in Connections : Over(c) => Over(c)'
      BY <1>2, <2>5 DEF At, Over
    <3> QED
      BY <1>1, <1>3, <2>1, <2>5, <3>1, CallsKeep
  <2>9. DropInv' /\ RetireInv'
    BY <1>1, <1>2, <1>3, <2>1, <2>5, DropsKeep, RetiresKeep
  <2> QED
    BY <2>4, <2>6, <2>7, <2>8, <2>9 DEF DInv
<1>7. CASE /\ n # Len(to) /\ to[n + 1] \in wanting \cap SlowPeers
           /\ copy' = [after(n) EXCEPT ![to[n + 1]] = <<>>]
           /\ CloseSession(to[n + 1], <<[Top EXCEPT !.to = rest(n)]>> \o Below)
  <2> DEFINE f == [Top EXCEPT !.to = rest(n)]
  <2>0. n \in 0 .. Len(to) - 1 /\ to \in Seq(Connections)
    BY <1>4, <1>7
  <2>1. /\ rest(n) \in Seq(Connections) /\ to[n + 1] \in Connections
        /\ \A d \in ToSet(to) : \/ \E m \in 1 .. n : to[m] = d
                                \/ d = to[n + 1]
                                \/ d \in ToSet(rest(n))
    BY <2>0, RestFacts
  <2>2. PICK slow \in Connections : slow = to[n + 1]
    BY <2>1
  <2>3. PICK left \in Seq(Connections) : left = rest(n)
    BY <2>1
  <2>4. f = [at |-> "deliver", event |-> Top.event, seq |-> Top.seq, to |-> left]
    BY <1>4, <2>3, CutFacts
  <2>5. /\ copy' = [after(n) EXCEPT ![slow] = <<>>]
        /\ CloseSession(slow, <<f>> \o Below)
    BY <1>7, <2>2
  <2>6. \A d \in ToSet(to) : d \in wanting => d \in told(n) \cup {slow} \cup ToSet(left)
    BY <2>1, <2>2, <2>3
  <2>7. status[slow] = "open"
    BY <1>1, <1>7, <2>2 DEF Wanting, HubInv
  <2>8. /\ f.at = "deliver" /\ f.event = Top.event /\ f.seq = Top.seq /\ f.to = left
        /\ f = [at |-> "deliver", event |-> f.event, seq |-> f.seq, to |-> f.to]
    BY <2>4
  <2> HIDE DEF f, rest
  <2>9. FrameOK(f)
    BY <1>2, <1>3, <2>8 DEF FrameOK
  <2>10. PICK below : below = <<f>> \o Below
    OBVIOUS
  <2>11. Stacked(below) /\ CallsLast(below) /\ ToSet(below) = {f} \cup ToSet(Below)
    BY <1>3, <2>8, <2>9, <2>10, Pushed
  <2>12. CloseSession(slow, below)
    BY <2>5, <2>10
  <2>13. /\ copy' = [d \in Connections |-> copy'[d]] /\ DOMAIN copy'[slow] = {}
         /\ \A d \in Connections : d # slow =>
              copy'[d] = (IF d \in told(n) THEN Heard(copy[d], Top) ELSE copy[d])
    <3>1. after(n) = [d \in Connections |->
                        IF d \in told(n) THEN Heard(copy[d], Top) ELSE copy[d]]
      OBVIOUS
    <3> HIDE DEF after, told
    <3>2. copy' = [after(n) EXCEPT ![slow] = <<>>]
      BY <2>5
    <3>3. DOMAIN copy' = Connections /\ copy'[slow] = <<>>
      BY <3>1, <3>2
    <3>4. copy' = [d \in Connections |-> copy'[d]]
      BY <3>1, <3>2
    <3> QED
      BY <3>1, <3>2, <3>3, <3>4
  <2>14. /\ \A d \in Connections : d # slow => status'[d] = status[d] /\ topics'[d] = topics[d]
         /\ status'[slow] = "over" /\ operators' = operators /\ sequences' = sequences
    BY <1>1, <2>12 DEF CloseSession, DTyped
  <2> HIDE DEF told, after
  <2>15. \A g \in ToSet(below) : g.at = "deliver" => g \in Calling'
    BY <2>11, <2>12, ClosingCalls
  <2>16. \A g \in Calling' : g.at = "deliver" => g \in ToSet(below)
    BY <2>11, <2>12, ClosingCalls
  <2>17. HearInv'
    <3>0. PICK have, gone, more : have = told(n) /\ gone = {slow} /\ more = ToSet(left)
      OBVIOUS
    <3>1. \A d \in ToSet(Top.to) :
            d \in Wanting(Top.event.topic) => d \in have \cup gone \cup more
      BY <2>6, <3>0
    <3>2. \A d \in Connections : d \notin gone =>
           /\ copy'[d] = (IF d \in have THEN Heard(copy[d], Top) ELSE copy[d])
           /\ status'[d] = status[d] /\ topics'[d] = topics[d]
      BY <2>13, <2>14, <3>0
    <3>3. \A d \in gone : DOMAIN copy'[d] = {}
      BY <2>13, <3>0
    <3>4. \A g \in ToSet(Below) : g.at = "deliver" => g \in Calling'
      BY <2>11, <2>15
    <3>5. \A g \in Calling' : g.at = "deliver" =>
           g \in ToSet(Below) \/ (g.event = Top.event /\ g.seq = Top.seq)
      BY <2>8, <2>11, <2>16
    <3>6. more # {} => \E g \in Calling' : /\ g.at = "deliver" /\ g.event = Top.event
                                           /\ g.seq = Top.seq /\ more \subseteq ToSet(g.to)
      BY <2>8, <2>11, <2>15, <3>0
    <3>7. sequences' = sequences
      BY <2>14
    <3>8. Telling(have, gone, more)
      BY ONLY <3>1, <3>2, <3>3, <3>4, <3>5, <3>6, <3>7 DEF Telling
    <3> QED
      BY ONLY DInv, <1>2, <3>8, DeliverHears
  <2>18. ASSUME NEW g \in ToSet(below), g.at = "handle"
         PROVE  LetGoOn(g.connection)'
    <3>1. g \in Calling /\ g # Top /\ stack # <<g>>
      <4>1. g \in ToSet(Below)
        BY <2>8, <2>11, <2>18
      <4>2. g # Top
        BY <1>2, <2>18
      <4> QED
        BY <1>3, <4>1, <4>2 DEF Top
    <3>2. LetGoOn(g.connection) /\ g.connection \in Connections
      BY <1>1, <1>3, <2>18, <3>1 DEF CallInv, Stacked, Calling, FrameOK
    <3>3. PICK c \in Connections : c = g.connection
      BY <3>2
    <3>4. LetGoOn(c)'
      <4>1. Over(c)'
        BY <2>14, <3>2, <3>3 DEF LetGoOn, Over
      <4>2. DemotedWhileSlow(c)'
        BY <2>14, <3>2, <3>3, DemotedStay DEF LetGoOn
      <4> QED
        BY <4>1, <4>2 DEF LetGoOn
    <3> QED
      BY <3>3, <3>4
  <2>19. \A g \in Calling : g.at = "drop" => g \in ToSet(below)
    BY <1>2, <1>3, <2>11
  <2>20. \A g \in ToSet(below) : g.at \in {"drop", "retire"} => g \in Calling
    BY <1>3, <2>8, <2>11
  <2> QED
    BY <2>7, <2>11, <2>12, <2>13, <2>17, <2>18, <2>19, <2>20, Closes
<1> QED
  BY <1>5, <1>6, <1>7

-----------------------------------------------------------------------------
(* What an ended session carried is dropped, one instance after another.   *)

\* A sequence is one of what is in it.
LEMMA OwnSeq ==
  ASSUME NEW S, NEW s \in Seq(S)
  PROVE  s \in Seq(ToSet(s))
<1>1. DOMAIN s = 1 .. Len(s) /\ Len(s) \in Nat /\ s = [n \in 1 .. Len(s) |-> s[n]]
  BY LenProperties
<1>2. \A n \in 1 .. Len(s) : s[n] \in ToSet(s)
  BY <1>1 DEF ToSet
<1>3. s \in [1 .. Len(s) -> ToSet(s)]
  BY <1>1, <1>2
<1> QED
  BY <1>1, <1>3, SeqDef

\* What is left of a retire.
LEMMA RetireLeft ==
  ASSUME NEW f, NEW r,
         f = [at |-> "retire", id |-> f.id, project |-> f.project, rooms |-> f.rooms],
         NEW g, g = [f EXCEPT !.rooms = @ \ {r}]
  PROVE  /\ g.at = "retire" /\ g.id = f.id /\ g.project = f.project
         /\ g.rooms = f.rooms \ {r}
         /\ g = [at |-> "retire", id |-> g.id, project |-> g.project, rooms |-> g.rooms]
<1>1. PICK rooms : rooms = f.rooms \ {r}
  OBVIOUS
<1>2. g = [f EXCEPT !.rooms = rooms]
  BY <1>1
<1>3. g = [at |-> "retire", id |-> f.id, project |-> f.project, rooms |-> rooms]
  BY <1>2
<1> QED
  BY ONLY <1>1, <1>3

LEMMA DropNextStep ==
  ASSUME DInv, DropNext
  PROVE  DInv'
<1>1. DTyped /\ HubInv /\ CallInv /\ DropInv /\ RetireInv /\ HearInv
  BY DInvParts
<1>2. /\ At("drop") /\ stack # <<>> /\ Top.at = "drop" /\ Top.ids # <<>>
      /\ UNCHANGED <<byConnection, sessions, dead, opened, status, hub, topics, operators,
                     sequences, copy>>
  BY DEF DropNext, At, Idle, server
<1>3. /\ Stacked(Below) /\ CallsLast(Below) /\ FrameOK(Top)
      /\ Calling = {Top} \cup ToSet(Below)
  BY <1>2, TopFacts
<1>4. /\ Top = [at |-> "drop", connection |-> Top.connection, ids |-> Top.ids]
      /\ Top.connection \in Connections /\ Top.ids \in Seq(Instances)
  BY <1>2, <1>3 DEF FrameOK
<1>5. PICK c \in Connections, ids \in Seq(Instances) : c = Top.connection /\ ids = Top.ids
  BY <1>4
<1>6. /\ ids # <<>> /\ Head(ids) \in Instances /\ Tail(ids) \in Seq(Instances)
      /\ ToSet(ids) = {Head(ids)} \cup ToSet(Tail(ids))
  <2>1. ids \in Seq(ToSet(ids))
    BY OwnSeq
  <2>2. ids # <<>> /\ Head(ids) \in Instances /\ Tail(ids) \in Seq(Instances)
    BY <1>2, <1>5, HeadTailProperties
  <2> QED
    BY <2>1, <2>2, SeqPop
<1>7. PICK id \in Instances : id = Head(ids)
  BY <1>6
<1>0. PICK g : g = [at |-> "drop", connection |-> Top.connection, ids |-> Tail(Top.ids)]
  OBVIOUS
<1>8. /\ g.at = "drop" /\ g.connection = c /\ g.ids = Tail(ids)
      /\ g = [at |-> "drop", connection |-> g.connection, ids |-> g.ids]
  BY <1>0, <1>5
<1>9. \/ /\ id \in DOMAIN instances /\ instances[id].connection = c
         /\ instances' = MapDelete(instances, {id})
         /\ stack' = <<Retire(id)>> \o (<<g>> \o Below)
      \/ /\ ~(id \in DOMAIN instances /\ instances[id].connection = c)
         /\ instances' = instances /\ stack' = <<g>> \o Below
  BY <1>0, <1>5, <1>7 DEF DropNext
<1>10. FrameOK(g)
  BY <1>6, <1>8 DEF FrameOK
<1>11. PICK below : below = <<g>> \o Below
  OBVIOUS
<1>12. Stacked(below) /\ CallsLast(below) /\ ToSet(below) = {g} \cup ToSet(Below)
  BY <1>3, <1>8, <1>10, <1>11, Pushed
<1>13. /\ Stacked(stack') /\ CallsLast(stack') /\ ToSet(below) \subseteq Calling'
       /\ \A f \in Calling' : f \in ToSet(below) \/ (f.at = "retire" /\ f = Retire(id)
                                                    /\ id \in DOMAIN instances)
  <2>1. CASE stack' = <<g>> \o Below
    <3>1. stack' = below
      BY <1>11, <2>1
    <3> QED
      BY <1>12, <3>1 DEF Calling
  <2>2. CASE stack' = <<Retire(id)>> \o (<<g>> \o Below) /\ id \in DOMAIN instances
    <3>1. PICK f : f = Retire(id)
      OBVIOUS
    <3>2. /\ f.at = "retire" /\ f.id = id /\ f.project = instances[id].project
          /\ f = [at |-> "retire", id |-> f.id, project |-> f.project, rooms |-> f.rooms]
          /\ f.rooms = {r \in DOMAIN sessions : id \in Seated(r)}
      BY <3>1 DEF Retire
    <3>3. f.project \in Projects \cup {NoProject} /\ f.rooms \subseteq Rooms
      BY <1>1, <2>2, <3>2 DEF DTyped, TypeOK, InstanceEntry
    <3>4. FrameOK(f)
      BY <3>2, <3>3 DEF FrameOK
    <3>5. stack' = <<f>> \o below
      BY <1>11, <2>2, <3>1
    <3>6. Stacked(stack') /\ CallsLast(stack') /\ Calling' = {f} \cup ToSet(below)
      BY <1>12, <3>2, <3>4, <3>5, Pushed DEF Calling
    <3> QED
      BY <2>2, <3>1, <3>2, <3>6
  <2> QED
    BY <1>9, <2>1, <2>2
<1>14. /\ DOMAIN instances' \subseteq DOMAIN instances
       /\ \A j \in DOMAIN instances' : instances'[j] = instances[j]
       /\ id \in DOMAIN instances' => instances[id].connection # c
       /\ instances' \in [DOMAIN instances' -> InstanceEntry]
  BY <1>1, <1>9 DEF MapDelete, Restrict, DTyped, TypeOK
<1>15. /\ \A f \in Calling : f.at = "deliver" => f \in Calling'
       /\ \A f \in Calling' : f.at = "deliver" => f \in Calling
       /\ \A f \in Calling' : f.at = "handle" => f \in Calling
  BY <1>2, <1>3, <1>8, <1>12, <1>13
<1>16. DTyped'
  BY <1>1, <1>2, <1>13, <1>14 DEF DTyped, TypeOK, Stacked, Calling
<1>17. HubInv' /\ HearInv'
  BY <1>1, <1>2, <1>15, HubKeeps, HearsKeep
<1>18. CallInv'
  <2>1. ~At("handle") /\ \A d \in Connections : Over(d) => Over(d)'
    BY <1>2 DEF At, Over
  <2> QED
    BY <1>1, <1>2, <1>13, <1>15, <2>1, DInvParts, CallsKeep
<1>19. RetireInv'
  <2> SUFFICES ASSUME NEW f \in Calling', f.at = "retire"
               PROVE  /\ \A r \in DOMAIN sessions : f.id \in Seated(r) => r \in f.rooms
                      /\ f.rooms \subseteq DOMAIN sessions \cup DOMAIN dead
    BY <1>2 DEF RetireInv, Seated
  <2>1. CASE f \in ToSet(below)
    BY <1>1, <1>3, <1>8, <1>12, <2>1 DEF RetireInv
  <2>2. CASE f = Retire(id)
    <3>1. f.id = id /\ f.rooms = {r \in DOMAIN sessions : id \in Seated(r)}
      BY <2>2 DEF Retire
    <3> QED
      BY <3>1
  <2> QED
    BY <1>13, <2>1, <2>2
<1>20. DropInv'
  <2>1. ASSUME NEW f \in Calling', f.at = "drop"
        PROVE  Over(f.connection)'
    <3>1. f \in ToSet(below)
      BY <1>13, <2>1
    <3>2. Over(f.connection)
      BY <1>1, <1>2, <1>3, <1>5, <1>8, <1>12, <2>1, <3>1 DEF DropInv
    <3> QED
      BY <1>2, <3>2 DEF Over
  <2>2. ASSUME NEW j \in DOMAIN instances', NEW d \in Connections,
               d = instances'[j].connection
        PROVE  CarriedOn(j, d)'
    <3>1. d = instances[j].connection /\ CarriedOn(j, d)
      BY <1>1, <1>14, <2>2 DEF DropInv
    <3>2. ASSUME ToDrop(j, d)
          PROVE  ToDrop(j, d)'
      <4>1. PICK f \in Calling : f.at = "drop" /\ f.connection = d /\ j \in ToSet(f.ids)
        BY <3>2 DEF ToDrop
      <4>2. CASE f = Top
        <5>1. d = c /\ j \in ToSet(Tail(ids))
          BY <1>5, <1>6, <1>7, <1>14, <3>1, <4>1, <4>2
        <5>2. g \in Calling'
          BY <1>12, <1>13
        <5> QED
          BY <1>8, <5>1, <5>2 DEF ToDrop
      <4>3. CASE f # Top
        <5>1. f \in Calling'
          BY <1>3, <1>12, <1>13, <4>1, <4>3
        <5> QED
          BY <4>1, <5>1 DEF ToDrop
      <4> QED
        BY <4>2, <4>3
    <3>3. DemotedWhileSlow(d) => DemotedWhileSlow(d)'
      BY <1>2, DemotedStay
    <3> QED
      BY <1>2, <3>1, <3>2, <3>3 DEF CarriedOn, Over
  <2>3. \A d \in Connections : IsInjective(byConnection'[d])
    BY <1>1, <1>2 DEF DropInv
  <2>4. \A j \in DOMAIN instances' : instances'[j].connection \in Connections
    BY <1>14 DEF InstanceEntry
  <2> QED
    BY <2>1, <2>2, <2>3, <2>4 DEF DropInv
<1> QED
  BY <1>16, <1>17, <1>18, <1>19, <1>20 DEF DInv

-----------------------------------------------------------------------------
(* Rooms, in the Map and held on to outside it.                            *)

RoomsTyped ==
  /\ DOMAIN sessions \subseteq Rooms /\ sessions \in [DOMAIN sessions -> LiveEntry]
  /\ DOMAIN dead \subseteq Rooms /\ dead \in [DOMAIN dead -> LiveEntry]

\* What may be said of a room.
SaidOf(r, room) ==
  {Opened(r, room), Changed(r, room), Closed(r, room), Requested(r, room),
   RequestRefused(r, room), Said(r), [at |-> "forget", topic |-> RoomTopic(r)]}

LEMMA RoomFrames ==
  ASSUME NEW r \in Rooms, NEW room, room.project \in Projects, NEW f \in SaidOf(r, room)
  PROVE  FrameOK(f) /\ f.at \in {"publish", "forget"}
<1>1. LiveTopic(room.project) \in Topics /\ RoomTopic(r) \in Topics /\ RoomTopic(r).of = "room"
  BY TopicFacts
<1>2. CASE f \in {Opened(r, room), Changed(r, room), Closed(r, room), Requested(r, room),
                  RequestRefused(r, room), Said(r)}
  <2>1. \E t \in Topics : \E kind, key, value : f = Publish(t, kind, key, value)
    BY <1>1, <1>2 DEF Opened, Changed, Closed, Requested, RequestRefused, Said
  <2> QED
    BY <2>1, PublishOK
<1>3. CASE f = [at |-> "forget", topic |-> RoomTopic(r)]
  <2>1. f.at = "forget" /\ f.topic = RoomTopic(r)
    BY <1>3
  <2> QED
    BY <1>1, <2>1 DEF FrameOK
<1> QED
  BY <1>2, <1>3 DEF SaidOf

\* The Map of rooms and the rooms held on to, when one room of them changes.
RoomLeft(r, room, below) ==
  /\ RoomsTyped'
  /\ DOMAIN sessions' \subseteq DOMAIN sessions
  /\ \A s \in DOMAIN sessions' : s # r => sessions'[s] = sessions[s]
  /\ r \in DOMAIN sessions' => sessions'[r] = room
  /\ \A f \in ToSet(below) :
       f.at = "retire" /\ f.rooms \subseteq DOMAIN sessions \cup DOMAIN dead =>
         f.rooms \subseteq DOMAIN sessions' \cup DOMAIN dead'

\* A room outside the Map stays for as long as a retire has yet to visit it.
LEMMA BuriedFacts ==
  ASSUME RoomsTyped, NEW r \in Rooms, NEW room \in LiveEntry, NEW below
  PROVE  /\ DOMAIN Buried(r, room, below) \subseteq Rooms
         /\ Buried(r, room, below) \in [DOMAIN Buried(r, room, below) -> LiveEntry]
         /\ \A s \in DOMAIN dead : s # r => s \in DOMAIN Buried(r, room, below)
         /\ \A f \in ToSet(below) :
              f.at = "retire" /\ r \in f.rooms => r \in DOMAIN Buried(r, room, below)
<1> DEFINE waited == \E n \in DOMAIN below : below[n].at = "retire" /\ r \in below[n].rooms
<1>1. CASE waited
  <2>1. Buried(r, room, below) = MapSet(dead, r, room)
    BY <1>1 DEF Buried
  <2> QED
    BY <2>1 DEF MapSet, RoomsTyped
<1>2. CASE ~waited
  <2>1. Buried(r, room, below) = MapDelete(dead, {r})
    BY <1>2 DEF Buried
  <2>2. \A f \in ToSet(below) : ~(f.at = "retire" /\ r \in f.rooms)
    BY <1>2 DEF ToSet
  <2> QED
    BY <2>1, <2>2 DEF MapDelete, Restrict, RoomsTyped
<1> QED
  BY <1>1, <1>2

LEMMA KeepFacts ==
  ASSUME RoomsTyped, NEW r \in Rooms, NEW room \in LiveEntry, NEW below, Keep(r, room, below)
  PROVE  RoomLeft(r, room, below)
<1>1. CASE r \in DOMAIN sessions
  <2>1. sessions' = [sessions EXCEPT ![r] = room] /\ dead' = dead
    BY <1>1 DEF Keep
  <2> QED
    BY <2>1 DEF RoomLeft, RoomsTyped
<1>2. CASE r \notin DOMAIN sessions
  <2>1. dead' = Buried(r, room, below) /\ sessions' = sessions
    BY <1>2 DEF Keep
  <2>2. /\ DOMAIN dead' \subseteq Rooms /\ dead' \in [DOMAIN dead' -> LiveEntry]
        /\ \A s \in DOMAIN dead : s # r => s \in DOMAIN dead'
        /\ \A f \in ToSet(below) : f.at = "retire" /\ r \in f.rooms => r \in DOMAIN dead'
    BY <2>1, BuriedFacts
  <2> QED
    BY <1>2, <2>1, <2>2 DEF RoomLeft, RoomsTyped
<1> QED
  BY <1>1, <1>2

LEMMA EndFacts ==
  ASSUME RoomsTyped, NEW r \in Rooms, NEW room \in LiveEntry, NEW below, End(r, room, below)
  PROVE  RoomLeft(r, room, below) /\ r \notin DOMAIN sessions'
<1>1. sessions' = MapDelete(sessions, {r}) /\ dead' = Buried(r, room, below)
  BY DEF End
<1>2. /\ DOMAIN dead' \subseteq Rooms /\ dead' \in [DOMAIN dead' -> LiveEntry]
      /\ \A s \in DOMAIN dead : s # r => s \in DOMAIN dead'
      /\ \A f \in ToSet(below) : f.at = "retire" /\ r \in f.rooms => r \in DOMAIN dead'
  BY <1>1, BuriedFacts
<1>3. /\ DOMAIN sessions' = DOMAIN sessions \ {r}
      /\ \A s \in DOMAIN sessions' : sessions'[s] = sessions[s]
      /\ sessions' \in [DOMAIN sessions' -> LiveEntry]
  BY <1>1 DEF MapDelete, Restrict, RoomsTyped
<1> QED
  BY <1>2, <1>3 DEF RoomLeft, RoomsTyped

\* What is begun is one thing or two, before what had begun.
LEMMA PushedTwo ==
  ASSUME NEW f, NEW g, NEW below, Stacked(below), CallsLast(below), FrameOK(f), FrameOK(g),
         f.at # "handle", g.at # "handle"
  PROVE  /\ Stacked(<<f, g>> \o below) /\ CallsLast(<<f, g>> \o below)
         /\ ToSet(<<f, g>> \o below) = {f, g} \cup ToSet(below)
<1>1. PICK under : under = <<g>> \o below
  OBVIOUS
<1>2. Stacked(under) /\ CallsLast(under) /\ ToSet(under) = {g} \cup ToSet(below)
  BY <1>1, Pushed
<1>3. /\ Stacked(<<f>> \o under) /\ CallsLast(<<f>> \o under)
      /\ ToSet(<<f>> \o under) = {f} \cup ToSet(under)
  BY <1>2, Pushed
<1>4. <<f, g>> \o below = <<f>> \o under
  <2>1. PICK S : S = {f, g} \cup ToSet(below)
    OBVIOUS
  <2>2. below \in Seq(S)
    <3>1. ToSet(below) \subseteq S
      BY <2>1
    <3> QED
      BY <3>1, SeqMonotonic DEF Stacked
  <2>3. <<f>> \in Seq(S) /\ <<g>> \in Seq(S) /\ <<f>> \o <<g>> = <<f, g>>
    <3>1. <<f>> \in Seq(S) /\ <<g>> \in Seq(S) /\ <<f, g>> \in Seq(S)
      BY <2>1
    <3>2. PICK s : s = <<f>> \o <<g>>
      OBVIOUS
    <3>3. /\ s \in Seq(S) /\ Len(s) = Len(<<f>>) + Len(<<g>>)
          /\ \A i \in 1 .. Len(<<f>>) + Len(<<g>>) :
               s[i] = IF i <= Len(<<f>>) THEN <<f>>[i] ELSE <<g>>[i - Len(<<f>>)]
      BY <3>1, <3>2, ConcatProperties
    <3>4. Len(s) = 2 /\ s[1] = f /\ s[2] = g
      BY <3>3
    <3>5. Len(<<f, g>>) = Len(s) /\ \A i \in 1 .. Len(s) : s[i] = <<f, g>>[i]
      BY <3>4
    <3>6. s = <<f, g>>
      BY <3>1, <3>3, <3>5, SeqEqual
    <3> QED
      BY <3>1, <3>2, <3>6
  <2>4. (<<f>> \o <<g>>) \o below = <<f>> \o (<<g>> \o below)
    BY <2>2, <2>3, ConcatAssociative
  <2> QED
    BY ONLY <1>1, <2>3, <2>4
<1> QED
  BY <1>2, <1>3, <1>4

\* A step that changes rooms, and what has begun.
Begun(below) ==
  /\ Stacked(stack') /\ CallsLast(stack') /\ ToSet(below) \subseteq Calling'
  /\ \A f \in Calling' : f \in ToSet(below) \/ f.at \in {"publish", "forget"}

LEMMA EndBegins ==
  ASSUME NEW r \in Rooms, NEW room \in LiveEntry, NEW below, Stacked(below), CallsLast(below),
         End(r, room, below)
  PROVE  Begun(below)
<1>1. PICK f, g : f = Closed(r, room) /\ g = [at |-> "forget", topic |-> RoomTopic(r)]
  OBVIOUS
<1>2. room.project \in Projects
  BY DEF LiveEntry
<1>3. f \in SaidOf(r, room) /\ g \in SaidOf(r, room)
  BY <1>1 DEF SaidOf
<1>6. /\ FrameOK(f) /\ f.at \in {"publish", "forget"}
      /\ FrameOK(g) /\ g.at \in {"publish", "forget"}
  BY <1>2, <1>3, RoomFrames
<1>4. stack' = <<f, g>> \o below
  BY <1>1 DEF End
<1>5. Stacked(stack') /\ CallsLast(stack') /\ Calling' = {f, g} \cup ToSet(below)
  BY <1>4, <1>6, PushedTwo DEF Calling
<1> QED
  BY <1>5, <1>6 DEF Begun

LEMMA SaidBegins ==
  ASSUME NEW below, Stacked(below), CallsLast(below),
         NEW f, FrameOK(f), f.at \in {"publish", "forget"}, stack' = <<f>> \o below
  PROVE  Begun(below)
<1>1. Stacked(stack') /\ CallsLast(stack') /\ Calling' = {f} \cup ToSet(below)
  BY Pushed DEF Calling
<1> QED
  BY <1>1 DEF Begun

LEMMA PartFacts ==
  ASSUME RoomsTyped, NEW r \in Rooms, NEW room \in LiveEntry, NEW id, NEW below,
         Stacked(below), CallsLast(below), Part(r, room, id, below)
  PROVE  Begun(below) /\ RoomLeft(r, [room EXCEPT !.members = @ \ {id}], below)
<1> DEFINE left == [room EXCEPT !.members = @ \ {id}]
<1>1. PICK now : now = left
  OBVIOUS
<1>2. now \in LiveEntry /\ now.project \in Projects
  BY <1>1 DEF LiveEntry
<1>3. CASE End(r, now, below)
  BY <1>1, <1>2, <1>3, EndFacts, EndBegins
<1>4. CASE Keep(r, now, below) /\ stack' = <<Changed(r, now)>> \o below
  <2>1. PICK f : f = Changed(r, now)
    OBVIOUS
  <2>2. f \in SaidOf(r, now)
    BY <2>1 DEF SaidOf
  <2>4. FrameOK(f) /\ f.at \in {"publish", "forget"}
    BY <1>2, <2>2, RoomFrames
  <2>3. Begun(below)
    BY <1>4, <2>1, <2>4, SaidBegins
  <2> QED
    BY <1>1, <1>2, <1>4, <2>3, KeepFacts
<1> QED
  BY <1>1, <1>3, <1>4 DEF Part

\* A step that leaves instances and sessions alone keeps the invariant.
LEMMA RoomsStep ==
  ASSUME DInv, UNCHANGED <<instances, byConnection, status, hub, topics, operators, sequences,
                           copy>>,
         opened' \in Nat, RoomsTyped', Stacked(stack'), CallInv', RetireInv',
         \A f \in Calling : f.at \in {"drop", "deliver"} => f \in Calling',
         \A f \in Calling' : f.at \in {"drop", "deliver"} => f \in Calling
  PROVE  DInv'
<1>1. DTyped'
  BY DInvParts DEF DTyped, TypeOK, Stacked, Calling, RoomsTyped
<1>2. HubInv' /\ DropInv' /\ HearInv'
  BY DInvParts, HubKeeps, DropsKeep, HearsKeep
<1> QED
  BY <1>1, <1>2 DEF DInv

-----------------------------------------------------------------------------
(* A retire visits a room.                                                 *)

LEMMA RetireFromRoomStep ==
  ASSUME DInv, RetireFromRoom
  PROVE  DInv'
<1>1. DTyped /\ CallInv /\ RetireInv /\ RoomsTyped
  BY DInvParts DEF DTyped, TypeOK, RoomsTyped
<1>2. /\ At("retire") /\ stack # <<>> /\ Top.at = "retire" /\ ~At("handle")
      /\ UNCHANGED <<instances, byConnection, opened, status, hub, topics, operators,
                     sequences, copy>>
  BY DEF RetireFromRoom, At, Idle, server
<1>3. /\ Stacked(Below) /\ CallsLast(Below) /\ FrameOK(Top)
      /\ Calling = {Top} \cup ToSet(Below)
  BY <1>2, TopFacts
<1>4. /\ Top = [at |-> "retire", id |-> Top.id, project |-> Top.project, rooms |-> Top.rooms]
      /\ Top.id \in Instances /\ Top.project \in Projects \cup {NoProject}
      /\ Top.rooms \subseteq Rooms
  BY <1>2, <1>3 DEF FrameOK
<1>0. PICK r \in Top.rooms :
        RetireFrom(r, Top.id, <<[Top EXCEPT !.rooms = @ \ {r}]>> \o Below)
  BY DEF RetireFromRoom
<1>5. PICK id \in Instances :
        id = Top.id /\ RetireFrom(r, id, <<[Top EXCEPT !.rooms = @ \ {r}]>> \o Below)
  BY <1>0, <1>4
<1>6. PICK g : g = [Top EXCEPT !.rooms = @ \ {r}]
  OBVIOUS
<1>7. /\ g.at = "retire" /\ g.id = id /\ g.project = Top.project /\ g.rooms = Top.rooms \ {r}
      /\ g = [at |-> "retire", id |-> g.id, project |-> g.project, rooms |-> g.rooms]
  <2>1. PICK top : top = Top
    OBVIOUS
  <2>2. /\ top = [at |-> "retire", id |-> top.id, project |-> top.project, rooms |-> top.rooms]
        /\ g = [top EXCEPT !.rooms = @ \ {r}]
    BY <1>4, <1>6, <2>1
  <2>3. /\ g.at = "retire" /\ g.id = top.id /\ g.project = top.project
        /\ g.rooms = top.rooms \ {r}
        /\ g = [at |-> "retire", id |-> g.id, project |-> g.project, rooms |-> g.rooms]
    BY <2>2, RetireLeft
  <2> QED
    BY <1>5, <2>1, <2>3
<1>8. FrameOK(g)
  BY <1>4, <1>7 DEF FrameOK
<1>9. PICK below : below = <<g>> \o Below
  OBVIOUS
<1>10. Stacked(below) /\ CallsLast(below) /\ ToSet(below) = {g} \cup ToSet(Below)
  BY <1>3, <1>7, <1>8, <1>9, Pushed
<1>11. RetireFrom(r, id, below)
  BY <1>5, <1>6, <1>9
<1>12. PICK held : held = (IF r \in DOMAIN sessions THEN sessions[r] ELSE dead[r])
  OBVIOUS
<1>13. held \in LiveEntry /\ r \in Rooms
  <2>1. r \in DOMAIN sessions \cup DOMAIN dead
    BY <1>1, <1>2, <1>3 DEF RetireInv
  <2> QED
    BY <1>1, <1>12, <2>1 DEF RoomsTyped
<1>14. PICK room : room = [held EXCEPT !.requests = @ \ {id}]
  OBVIOUS
<1>15. /\ room \in LiveEntry /\ room.members = held.members
       /\ room.requests = held.requests \ {id}
  BY <1>13, <1>14 DEF LiveEntry
<1>16. \/ id \in room.members /\ Part(r, room, id, below)
       \/ id \notin room.members /\ Keep(r, room, below) /\ stack' = below
  BY <1>11, <1>12, <1>14 DEF RetireFrom
<1>17. PICK now : /\ Begun(below) /\ RoomLeft(r, now, below)
                  /\ now.members = room.members \ {id} /\ now.requests = room.requests
  <2>1. CASE Part(r, room, id, below)
    <3>1. PICK left : left = [room EXCEPT !.members = @ \ {id}]
      OBVIOUS
    <3>2. left.members = room.members \ {id} /\ left.requests = room.requests
      BY <1>15, <3>1 DEF LiveEntry
    <3>3. Begun(below) /\ RoomLeft(r, left, below)
      BY <1>1, <1>10, <1>13, <1>15, <2>1, <3>1, PartFacts
    <3> QED
      BY <3>2, <3>3
  <2>2. CASE id \notin room.members /\ Keep(r, room, below) /\ stack' = below
    <3>1. Begun(below)
      BY <1>10, <2>2 DEF Begun, Calling
    <3>2. RoomLeft(r, room, below)
      BY <1>1, <1>13, <1>15, <2>2, KeepFacts
    <3>3. room.members = room.members \ {id}
      BY <2>2
    <3> QED
      BY <3>1, <3>2, <3>3
  <2> QED
    BY <1>16, <2>1, <2>2
<1>18. \A s \in DOMAIN sessions' :
         /\ s \in DOMAIN sessions /\ Seated(s)' \subseteq Seated(s)
         /\ s = r => id \notin Seated(s)'
  <2> SUFFICES ASSUME NEW s \in DOMAIN sessions'
               PROVE  /\ s \in DOMAIN sessions /\ Seated(s)' \subseteq Seated(s)
                      /\ s = r => id \notin Seated(s)'
    OBVIOUS
  <2>1. s \in DOMAIN sessions
    BY <1>17 DEF RoomLeft
  <2>2. CASE s = r
    BY <1>12, <1>15, <1>17, <2>1, <2>2 DEF RoomLeft, Seated
  <2>3. CASE s # r
    BY <1>17, <2>1, <2>3 DEF RoomLeft, Seated
  <2> QED
    BY <2>1, <2>2, <2>3
<1>19. RetireInv'
  <2> SUFFICES ASSUME NEW f \in Calling', f.at = "retire"
               PROVE  /\ \A s \in DOMAIN sessions' : f.id \in Seated(s)' => s \in f.rooms
                      /\ f.rooms \subseteq DOMAIN sessions' \cup DOMAIN dead'
    BY DEF RetireInv
  <2>1. f \in ToSet(below)
    BY <1>17 DEF Begun
  <2>2. CASE f = g
    <3>1. /\ \A s \in DOMAIN sessions : id \in Seated(s) => s \in Top.rooms
          /\ Top.rooms \subseteq DOMAIN sessions \cup DOMAIN dead
      BY <1>1, <1>2, <1>3, <1>5 DEF RetireInv
    <3>2. f.rooms \subseteq DOMAIN sessions \cup DOMAIN dead
      BY <1>7, <2>2, <3>1
    <3>3. f.rooms \subseteq DOMAIN sessions' \cup DOMAIN dead'
      BY <1>17, <2>1, <3>2 DEF RoomLeft
    <3> QED
      BY <1>7, <1>18, <2>2, <3>1, <3>3
  <2>3. CASE f # g
    <3>1. f \in Calling
      BY <1>3, <1>10, <2>1, <2>3
    <3>2. /\ \A s \in DOMAIN sessions : f.id \in Seated(s) => s \in f.rooms
          /\ f.rooms \subseteq DOMAIN sessions \cup DOMAIN dead
      BY <1>1, <3>1 DEF RetireInv
    <3>3. f.rooms \subseteq DOMAIN sessions' \cup DOMAIN dead'
      BY <1>17, <2>1, <3>2 DEF RoomLeft
    <3> QED
      BY <1>18, <3>2, <3>3
  <2> QED
    BY <2>2, <2>3
<1>20. /\ \A f \in Calling : f.at \in {"drop", "deliver"} => f \in Calling'
       /\ \A f \in Calling' : f.at \in {"drop", "deliver"} => f \in Calling
       /\ \A f \in Calling' : f.at = "handle" => f \in Calling
  BY <1>2, <1>3, <1>7, <1>10, <1>17 DEF Begun
<1>21. CallInv'
  <2>1. \A d \in Connections : Over(d) => Over(d)'
    BY <1>2 DEF Over
  <2> QED
    BY <1>1, <1>2, <1>17, <1>20, <2>1, DInvParts, CallsKeep DEF Begun
<1>22. opened' \in Nat /\ RoomsTyped' /\ Stacked(stack')
  BY <1>1, <1>2, <1>17 DEF DTyped, RoomLeft, Begun
<1> QED
  BY <1>2, <1>19, <1>20, <1>21, <1>22, RoomsStep

-----------------------------------------------------------------------------
(* Calls about rooms.                                                      *)

\* A call changes rooms, says so, and returns.
LEMMA CallAboutRooms ==
  ASSUME DInv, At("handle"), Begun(Below), opened' \in Nat, RoomsTyped',
         UNCHANGED <<instances, byConnection, server, sequences, copy>>
  PROVE  DInv'
<1>1. stack # <<>> /\ Top.at = "handle" /\ UNCHANGED <<status, hub, topics, operators>>
  BY DEF At, Idle, server
<1>2. Calling = {Top} /\ ToSet(Below) = {}
  BY <1>1, TopFacts, NothingStacked
<1>3. Stacked(stack') /\ CallsLast(stack') /\ \A f \in Calling' : f.at \in {"publish", "forget"}
  BY <1>2 DEF Begun
<1>4. CallInv' /\ RetireInv'
  BY <1>3 DEF CallInv, RetireInv, CallsLast
<1> QED
  BY <1>1, <1>2, <1>3, <1>4, RoomsStep

\* Who calls, and what a call leaves under it.
LEMMA CallingFacts ==
  ASSUME DInv, At("handle")
  PROVE  /\ Top.connection \in Connections /\ Top.call \in Calls
         /\ Stacked(Below) /\ CallsLast(Below) /\ RoomsTyped /\ opened \in Nat
         /\ byConnection \in [Connections -> Seq(Instances)]
         /\ DOMAIN instances \subseteq Instances
         /\ instances \in [DOMAIN instances -> InstanceEntry]
         /\ \A c \in Connections : ToSet(byConnection[c]) \subseteq Instances
<1>1. stack # <<>> /\ Top.at = "handle"
  BY DEF At, Idle
<1>2. DTyped /\ FrameOK(Top) /\ Stacked(Below) /\ CallsLast(Below)
  BY <1>1, DInvParts, TopFacts
<1>3. \A c \in Connections : ToSet(byConnection[c]) \subseteq Instances
  BY <1>2 DEF DTyped, TypeOK, ToSet
<1> QED
  BY <1>1, <1>2, <1>3 DEF DTyped, TypeOK, RoomsTyped, FrameOK

\* One room is changed and it is said, or it is not.
LEMMA RoomEdited ==
  ASSUME DInv, At("handle"), NEW r \in DOMAIN sessions, NEW room \in LiveEntry,
         sessions' = [sessions EXCEPT ![r] = room], UNCHANGED <<dead, opened>>,
         NEW said \in LiveEntry, NEW f \in SaidOf(r, said),
         stack' = Below \/ stack' = <<f>> \o Below,
         UNCHANGED <<instances, byConnection, server, sequences, copy>>
  PROVE  DInv'
<1>1. RoomsTyped /\ opened \in Nat /\ Stacked(Below) /\ CallsLast(Below)
  BY CallingFacts
<1>2. r \in Rooms /\ said.project \in Projects
  BY <1>1 DEF RoomsTyped, LiveEntry
<1>3. RoomsTyped'
  BY <1>1 DEF RoomsTyped
<1>4. FrameOK(f) /\ f.at \in {"publish", "forget"}
  BY <1>2, RoomFrames
<1>5. Begun(Below)
  <2>1. CASE stack' = Below
    BY <1>1, <2>1 DEF Begun, Calling
  <2>2. CASE stack' = <<f>> \o Below
    BY <1>1, <1>4, <2>2, SaidBegins
  <2> QED
    BY <2>1, <2>2
<1> QED
  BY <1>1, <1>3, <1>5, CallAboutRooms

LEMMA HandleOpenStep ==
  ASSUME DInv, At("handle"), NEW c \in Connections, NEW p \in Projects, NEW rule \in Rules,
         HandleOpen(c, p, rule), UNCHANGED <<server, sequences, copy>>
  PROVE  DInv'
<1>1. /\ RoomsTyped /\ opened \in Nat /\ Stacked(Below) /\ CallsLast(Below)
      /\ instances \in [DOMAIN instances -> InstanceEntry]
      /\ ToSet(byConnection[c]) \subseteq Instances
  BY CallingFacts
<1>2. PICK id \in Instances, code \in Codes :
        /\ opened + 1 \in Rooms /\ LiveOpen(c, id, p, opened + 1, rule, code)
        /\ opened' = opened + 1 /\ dead' = dead
        /\ stack' = <<Opened(opened', sessions'[opened'])>> \o Below
  BY <1>1 DEF HandleOpen
<1>3. PICK r \in Rooms : r = opened + 1
  BY <1>2
<1>4. PICK account \in Accounts : account = instances[id].account
  BY <1>1, <1>2 DEF LiveOpen, IsInstanceOn, OnProject, InstanceEntry
<1>5. PICK room : room = [project |-> p, openedBy |-> account, openedByInstance |-> id,
                          members |-> {id}, rule |-> rule, requests |-> {}, code |-> code]
  OBVIOUS
<1>6. room \in LiveEntry /\ room.project \in Projects
  BY <1>5 DEF LiveEntry
<1>7. sessions' = MapSet(sessions, r, room) /\ UNCHANGED <<instances, byConnection>>
  BY <1>2, <1>3, <1>4, <1>5 DEF LiveOpen
<1>8. sessions'[r] = room /\ RoomsTyped'
  BY <1>1, <1>2, <1>6, <1>7 DEF MapSet, RoomsTyped
<1>9. PICK f : f = Opened(r, room)
  OBVIOUS
<1>10. f \in SaidOf(r, room) /\ stack' = <<f>> \o Below
  BY <1>2, <1>3, <1>8, <1>9 DEF SaidOf
<1>11. Begun(Below)
  BY <1>1, <1>6, <1>10, RoomFrames, SaidBegins
<1> QED
  BY <1>1, <1>2, <1>7, <1>8, <1>11, CallAboutRooms

LEMMA HandleRuleStep ==
  ASSUME DInv, At("handle"), NEW c \in Connections, NEW r \in Rooms, NEW rule \in Rules,
         HandleRule(c, r, rule), UNCHANGED <<server, sequences, copy>>
  PROVE  DInv'
<1>1. PICK id : /\ LiveRule(c, id, r, rule) /\ UNCHANGED <<dead, opened>>
                /\ \/ stack' = <<>> \o Below
                   \/ stack' = <<Changed(r, sessions'[r])>> \o Below
  BY DEF HandleRule
<1>2. PICK before : before = sessions[r]
  OBVIOUS
<1>3. before \in LiveEntry /\ r \in DOMAIN sessions
  BY <1>1, <1>2, CallingFacts DEF LiveRule, CallerFor, RoomsTyped
<1>4. PICK room : room = [before EXCEPT !.rule = rule]
  OBVIOUS
<1>5. room \in LiveEntry
  BY <1>3, <1>4 DEF LiveEntry
<1>6. sessions' = [sessions EXCEPT ![r] = room] /\ UNCHANGED <<instances, byConnection>>
  BY <1>1, <1>2, <1>4 DEF LiveRule
<1>7. PICK f : f = Changed(r, room)
  OBVIOUS
<1>8. f \in SaidOf(r, room) /\ sessions'[r] = room
  BY <1>3, <1>6, <1>7 DEF SaidOf
<1>9. <<>> \o Below = Below
  BY CallingFacts, ConcatEmptySeq DEF Stacked
<1>10. stack' = Below \/ stack' = <<f>> \o Below
  BY <1>1, <1>7, <1>8, <1>9
<1> QED
  BY <1>1, <1>3, <1>5, <1>6, <1>8, <1>10, RoomEdited

LEMMA HandleJoinStep ==
  ASSUME DInv, At("handle"), NEW c \in Connections, NEW r \in Rooms, NEW byCode,
         HandleJoin(c, r, byCode), UNCHANGED <<server, sequences, copy>>
  PROVE  DInv'
<1>1. PICK id \in Instances : /\ LiveJoin(c, id, r, byCode) /\ UNCHANGED <<dead, opened>>
                              /\ stack' = <<Changed(r, sessions'[r])>> \o Below
  BY CallingFacts DEF HandleJoin
<1>2. PICK before : before = sessions[r]
  OBVIOUS
<1>3. before \in LiveEntry /\ r \in DOMAIN sessions
  BY <1>1, <1>2, CallingFacts DEF LiveJoin, CallerFor, RoomsTyped
<1>4. PICK room : room = [before EXCEPT !.members = @ \cup {id}]
  OBVIOUS
<1>5. room \in LiveEntry
  BY <1>3, <1>4 DEF LiveEntry
<1>6. sessions' = [sessions EXCEPT ![r] = room] /\ UNCHANGED <<instances, byConnection>>
  BY <1>1, <1>2, <1>4 DEF LiveJoin
<1>7. PICK f : f = Changed(r, room)
  OBVIOUS
<1>8. f \in SaidOf(r, room) /\ stack' = <<f>> \o Below
  BY <1>1, <1>3, <1>6, <1>7 DEF SaidOf
<1> QED
  BY <1>1, <1>3, <1>5, <1>6, <1>8, RoomEdited

LEMMA HandleRequestJoinStep ==
  ASSUME DInv, At("handle"), NEW c \in Connections, NEW r \in Rooms,
         HandleRequestJoin(c, r), UNCHANGED <<server, sequences, copy>>
  PROVE  DInv'
<1>1. PICK id \in Instances : /\ LiveRequestJoin(c, id, r) /\ UNCHANGED <<dead, opened>>
                              /\ stack' = <<Requested(r, sessions[r])>> \o Below
  BY CallingFacts DEF HandleRequestJoin
<1>2. PICK before : before = sessions[r]
  OBVIOUS
<1>3. before \in LiveEntry /\ r \in DOMAIN sessions
  BY <1>1, <1>2, CallingFacts DEF LiveRequestJoin, CallerFor, RoomsTyped
<1>4. PICK room : room = [before EXCEPT !.requests = @ \cup {id}]
  OBVIOUS
<1>5. room \in LiveEntry
  BY <1>3, <1>4 DEF LiveEntry
<1>6. sessions' = [sessions EXCEPT ![r] = room] /\ UNCHANGED <<instances, byConnection>>
  BY <1>1, <1>2, <1>4 DEF LiveRequestJoin
<1>7. PICK f : f = Requested(r, before)
  OBVIOUS
<1>8. f \in SaidOf(r, before) /\ stack' = <<f>> \o Below
  BY <1>1, <1>2, <1>7 DEF SaidOf
<1> QED
  BY <1>1, <1>3, <1>5, <1>6, <1>8, RoomEdited

LEMMA HandleAnswerJoinStep ==
  ASSUME DInv, At("handle"), NEW c \in Connections, NEW r \in Rooms, NEW asked \in Instances,
         NEW admit \in BOOLEAN,
         HandleAnswerJoin(c, r, asked, admit), UNCHANGED <<server, sequences, copy>>
  PROVE  DInv'
<1>1. PICK id : /\ LiveAnswerJoin(c, id, r, asked, admit) /\ UNCHANGED <<dead, opened>>
                /\ \/ stack' = <<Changed(r, sessions'[r])>> \o Below
                   \/ stack' = <<RequestRefused(r, sessions[r])>> \o Below
  BY DEF HandleAnswerJoin
<1>2. PICK before : before = sessions[r]
  OBVIOUS
<1>3. before \in LiveEntry /\ r \in DOMAIN sessions
  BY <1>1, <1>2, CallingFacts DEF LiveAnswerJoin, CallerFor, RoomsTyped
<1>4. PICK room : room = [before EXCEPT !.requests = @ \ {asked},
                                        !.members = IF admit THEN @ \cup {asked} ELSE @]
  OBVIOUS
<1>5. room \in LiveEntry
  BY <1>3, <1>4 DEF LiveEntry
<1>6. sessions' = [sessions EXCEPT ![r] = room] /\ UNCHANGED <<instances, byConnection>>
  BY <1>1, <1>2, <1>4 DEF LiveAnswerJoin
<1>7. CASE stack' = <<Changed(r, sessions'[r])>> \o Below
  <2>1. PICK f : f = Changed(r, room)
    OBVIOUS
  <2>2. f \in SaidOf(r, room) /\ stack' = <<f>> \o Below
    BY <1>3, <1>6, <1>7, <2>1 DEF SaidOf
  <2> QED
    BY <1>1, <1>3, <1>5, <1>6, <2>2, RoomEdited
<1>8. CASE stack' = <<RequestRefused(r, sessions[r])>> \o Below
  <2>1. PICK f : f = RequestRefused(r, before)
    OBVIOUS
  <2>2. f \in SaidOf(r, before) /\ stack' = <<f>> \o Below
    BY <1>2, <1>8, <2>1 DEF SaidOf
  <2> QED
    BY <1>1, <1>3, <1>5, <1>6, <2>2, RoomEdited
<1> QED
  BY <1>1, <1>7, <1>8

LEMMA HandleLeaveStep ==
  ASSUME DInv, At("handle"), NEW c \in Connections, NEW r \in Rooms,
         HandleLeave(c, r), UNCHANGED <<server, sequences, copy>>
  PROVE  DInv'
<1>1. /\ RoomsTyped /\ opened \in Nat /\ Stacked(Below) /\ CallsLast(Below)
  BY CallingFacts
<1>2. PICK id : /\ CallerFor(id, c, r) /\ Part(r, sessions[r], id, Below)
                /\ UNCHANGED <<instances, byConnection, opened>>
  BY DEF HandleLeave
<1>3. PICK room \in LiveEntry : room = sessions[r]
  BY <1>1, <1>2 DEF CallerFor, RoomsTyped
<1>4. Begun(Below) /\ RoomsTyped'
  BY <1>1, <1>2, <1>3, PartFacts DEF RoomLeft
<1> QED
  BY <1>1, <1>2, <1>4, CallAboutRooms

LEMMA HandleCloseStep ==
  ASSUME DInv, At("handle"), NEW c \in Connections, NEW r \in Rooms,
         HandleClose(c, r), UNCHANGED <<server, sequences, copy>>
  PROVE  DInv'
<1>1. /\ RoomsTyped /\ opened \in Nat /\ Stacked(Below) /\ CallsLast(Below)
  BY CallingFacts
<1>2. PICK id : /\ CallerFor(id, c, r) /\ End(r, sessions[r], Below)
                /\ UNCHANGED <<instances, byConnection, opened>>
  BY DEF HandleClose
<1>3. PICK room \in LiveEntry : room = sessions[r]
  BY <1>1, <1>2 DEF CallerFor, RoomsTyped
<1>4. Begun(Below) /\ RoomsTyped'
  BY <1>1, <1>2, <1>3, EndFacts, EndBegins DEF RoomLeft
<1> QED
  BY <1>1, <1>2, <1>4, CallAboutRooms

LEMMA HandleSayStep ==
  ASSUME DInv, At("handle"), NEW c \in Connections, NEW r \in Rooms,
         HandleSay(c, r), UNCHANGED <<server, sequences, copy>>
  PROVE  DInv'
<1>1. /\ RoomsTyped /\ opened \in Nat /\ Stacked(Below) /\ CallsLast(Below)
  BY CallingFacts
<1>2. /\ \E id : CallerFor(id, c, r)
      /\ stack' = <<Said(r)>> \o Below
      /\ UNCHANGED <<instances, byConnection, sessions, dead, opened>>
  BY DEF HandleSay, presence
<1>3. PICK room \in LiveEntry : room = sessions[r]
  BY <1>1, <1>2 DEF CallerFor, RoomsTyped
<1>4. PICK f : f = Said(r)
  OBVIOUS
<1>5. f \in SaidOf(r, room) /\ room.project \in Projects
  BY <1>4 DEF SaidOf, LiveEntry
<1>6. Begun(Below)
  BY <1>1, <1>2, <1>4, <1>5, RoomFrames, SaidBegins
<1>7. RoomsTyped'
  BY <1>1, <1>2 DEF RoomsTyped
<1> QED
  BY <1>1, <1>2, <1>6, <1>7, CallAboutRooms

-----------------------------------------------------------------------------
(* Calls about instances.                                                  *)

\* A call changes who is announced where, and returns.
LEMMA CallAboutInstances ==
  ASSUME DInv, At("handle"), Stacked(stack'), CallsLast(stack'),
         \A f \in Calling' : f.at \in {"publish", "forget", "retire"}, RetireInv',
         UNCHANGED <<sessions, dead, opened, server, sequences, copy>>,
         DOMAIN instances' \subseteq Instances,
         instances' \in [DOMAIN instances' -> InstanceEntry],
         byConnection' \in [Connections -> Seq(Instances)],
         \A d \in Connections : IsInjective(byConnection'[d]),
         \A j \in DOMAIN instances' : \A d \in Connections : d = instances'[j].connection =>
           \/ d = Top.connection /\ j \in ToSet(byConnection'[d])
           \/ /\ j \in DOMAIN instances /\ d = instances[j].connection
              /\ j \in ToSet(byConnection[d]) => j \in ToSet(byConnection'[d])
  PROVE  DInv'
<1>1. DTyped /\ HubInv /\ CallInv /\ DropInv /\ HearInv
  BY DInvParts
<1>2. /\ stack # <<>> /\ Top.at = "handle" /\ Top \in Calling /\ Calling = {Top}
      /\ UNCHANGED <<status, hub, topics, operators>>
  BY TopFacts DEF At, Idle, server
<1>3. DTyped'
  BY <1>1, <1>2 DEF DTyped, TypeOK, Stacked, Calling
<1>4. HubInv' /\ HearInv'
  BY <1>1, <1>2, HubKeeps, HearsKeep
<1>5. CallInv'
  BY DEF CallInv, CallsLast
<1>6. ASSUME NEW j \in DOMAIN instances', NEW d \in Connections, d = instances'[j].connection
      PROVE  CarriedOn(j, d)'
  <2>1. CASE d = Top.connection /\ j \in ToSet(byConnection'[d])
    <3>1. status[d] = "open" \/ LetGoOn(d)
      BY <1>1, <1>2, <2>1 DEF CallInv
    <3>2. status'[d] = status[d] /\ (LetGoOn(d) => Over(d)' /\ DemotedWhileSlow(d)')
      BY <1>2 DEF LetGoOn, Over, DemotedWhileSlow
    <3> QED
      BY <2>1, <3>1, <3>2 DEF CarriedOn
  <2>2. CASE /\ j \in DOMAIN instances /\ d = instances[j].connection
             /\ j \in ToSet(byConnection[d]) => j \in ToSet(byConnection'[d])
    <3>1. CarriedOn(j, d) /\ ~ToDrop(j, d)
      BY <1>1, <1>2, <2>2 DEF DropInv, ToDrop
    <3>2. status'[d] = status[d] /\ (DemotedWhileSlow(d) => DemotedWhileSlow(d)')
      BY <1>2 DEF DemotedWhileSlow
    <3> QED
      BY <2>2, <3>1, <3>2 DEF CarriedOn, Over
  <2> QED
    BY <1>6, <2>1, <2>2
<1>7. DropInv'
  <2>1. \A j \in DOMAIN instances' : instances'[j].connection \in Connections
    BY DEF InstanceEntry
  <2> QED
    BY <1>6, <2>1 DEF DropInv
<1> QED
  BY <1>3, <1>4, <1>5, <1>7 DEF DInv

LEMMA HandleWithdrawStep ==
  ASSUME DInv, At("handle"), NEW c \in Connections, NEW p \in Projects,
         HandleWithdraw(c, p), UNCHANGED <<server, sequences, copy>>
  PROVE  DInv'
<1>1. /\ DTyped /\ DropInv /\ RoomsTyped /\ Stacked(Below) /\ CallsLast(Below)
      /\ byConnection \in [Connections -> Seq(Instances)]
      /\ DOMAIN instances \subseteq Instances
      /\ instances \in [DOMAIN instances -> InstanceEntry]
      /\ ToSet(byConnection[c]) \subseteq Instances
  BY CallingFacts, DInvParts
<1>2. PICK id \in Instances :
        /\ IsInstanceOn(id, c, p)
        /\ byConnection' = [byConnection EXCEPT ![c] = SetDelete(@, id)]
        /\ instances' = MapDelete(instances, {id})
        /\ stack' = <<Retire(id)>> \o Below
        /\ UNCHANGED <<sessions, dead, opened>>
  BY <1>1 DEF HandleWithdraw
<1>3. id \in DOMAIN instances
  BY <1>2 DEF IsInstanceOn, OnProject
<1>4. PICK f : f = Retire(id)
  OBVIOUS
<1>5. /\ f.at = "retire" /\ f.id = id /\ f.project = instances[id].project
      /\ f = [at |-> "retire", id |-> f.id, project |-> f.project, rooms |-> f.rooms]
      /\ f.rooms = {r \in DOMAIN sessions : id \in Seated(r)}
  BY <1>4 DEF Retire
<1>6. FrameOK(f)
  <2>1. f.project \in Projects \cup {NoProject} /\ f.rooms \subseteq Rooms
    BY <1>1, <1>3, <1>5 DEF InstanceEntry, RoomsTyped
  <2> QED
    BY <1>5, <2>1 DEF FrameOK
<1>7. ToSet(Below) = {}
  BY TopFacts, NothingStacked DEF At, Idle
<1>8. Stacked(stack') /\ CallsLast(stack') /\ Calling' = {f}
  <2>1. /\ Stacked(<<f>> \o Below) /\ CallsLast(<<f>> \o Below)
        /\ ToSet(<<f>> \o Below) = {f} \cup ToSet(Below)
    BY <1>1, <1>5, <1>6, Pushed
  <2>2. stack' = <<f>> \o Below
    BY <1>2, <1>4
  <2> QED
    BY <1>7, <2>1, <2>2 DEF Calling
<1>9. RetireInv'
  BY <1>2, <1>5, <1>8 DEF RetireInv, Seated
<1>10. /\ DOMAIN instances' = DOMAIN instances \ {id}
       /\ \A j \in DOMAIN instances' : instances'[j] = instances[j]
       /\ instances' \in [DOMAIN instances' -> InstanceEntry]
  BY <1>1, <1>2 DEF MapDelete, Restrict
<1>11. PICK carried \in Seq(Instances) : carried = byConnection[c] /\ IsInjective(carried)
  BY <1>1 DEF DropInv
<1>12. PICK kept : kept = SetDelete(carried, id)
  OBVIOUS
<1>13. /\ kept \in Seq(Instances) /\ IsInjective(kept)
       /\ ToSet(kept) = ToSet(carried) \ {id}
  BY <1>11, <1>12, SetDeleteFacts
<1>14. byConnection' = [byConnection EXCEPT ![c] = kept]
  BY <1>2, <1>11, <1>12
<1>15. /\ byConnection' \in [Connections -> Seq(Instances)] /\ byConnection'[c] = kept
       /\ \A d \in Connections : d # c => byConnection'[d] = byConnection[d]
  BY <1>1, <1>13, <1>14
<1>16. \A d \in Connections : IsInjective(byConnection'[d])
  BY <1>1, <1>13, <1>15 DEF DropInv
<1>17. ASSUME NEW j \in DOMAIN instances', NEW d \in Connections, d = instances'[j].connection
       PROVE  /\ j \in DOMAIN instances /\ d = instances[j].connection
              /\ j \in ToSet(byConnection[d]) => j \in ToSet(byConnection'[d])
  BY <1>10, <1>11, <1>13, <1>15, <1>17
<1>18. /\ \A g \in Calling' : g.at \in {"publish", "forget", "retire"}
       /\ UNCHANGED <<sessions, dead, opened>> /\ DOMAIN instances' \subseteq Instances
  BY <1>1, <1>2, <1>5, <1>8, <1>10
<1> QED
  BY <1>8, <1>9, <1>10, <1>15, <1>16, <1>17, <1>18, CallAboutInstances

\* What is begun is nothing, one thing or two.
LEMMA UpToTwo ==
  ASSUME NEW below, Stacked(below), CallsLast(below),
         NEW f, FrameOK(f), f.at \in {"publish", "forget"},
         NEW g, FrameOK(g), g.at \in {"publish", "forget"},
         NEW front \in {<<>>, <<f>>}, NEW back \in {<<>>, <<g>>},
         stack' = front \o back \o below
  PROVE  Begun(below)
<1>1. PICK S : S = {f, g} \cup ToSet(below)
  OBVIOUS
<1>2. below \in Seq(S)
  <2>1. ToSet(below) \subseteq S
    BY <1>1
  <2> QED
    BY <2>1, SeqMonotonic DEF Stacked
<1>3. <<>> \in Seq(S) /\ <<f>> \in Seq(S) /\ <<g>> \in Seq(S)
  BY <1>1
<1>4. <<>> \o below = below /\ <<>> \o <<g>> = <<g>> /\ <<f>> \o <<>> = <<f>> /\ <<>> \o <<>> = <<>>
  BY <1>2, <1>3, ConcatEmptySeq
<1>5. CASE front = <<>> /\ back = <<>>
  <2>1. stack' = below
    BY <1>4, <1>5
  <2> QED
    BY <2>1 DEF Begun, Calling
<1>6. CASE front = <<f>> /\ back = <<>>
  <2>1. stack' = <<f>> \o below
    BY <1>4, <1>6
  <2> QED
    BY <2>1, SaidBegins
<1>7. CASE front = <<>> /\ back = <<g>>
  <2>1. stack' = <<g>> \o below
    BY <1>4, <1>7
  <2> QED
    BY <2>1, SaidBegins
<1>8. CASE front = <<f>> /\ back = <<g>>
  <2>1. PICK under : under = <<g>> \o below
    OBVIOUS
  <2>2. Stacked(under) /\ CallsLast(under) /\ ToSet(under) = {g} \cup ToSet(below)
    BY <2>1, Pushed
  <2>3. (<<f>> \o <<g>>) \o below = <<f>> \o (<<g>> \o below)
    BY <1>2, <1>3, ConcatAssociative
  <2>4. stack' = <<f>> \o under
    BY ONLY <1>8, <2>1, <2>3, stack' = front \o back \o below
  <2>5. Begun(under)
    BY <2>2, <2>4, SaidBegins
  <2> QED
    BY <2>2, <2>5 DEF Begun
<1> QED
  BY <1>5, <1>6, <1>7, <1>8

LEMMA HandleAnnounceStep ==
  ASSUME DInv, At("handle"), NEW c \in Connections, c = Top.connection,
         NEW id \in Instances, NEW p \in Projects \cup {NoProject},
         HandleAnnounce(c, id, p), UNCHANGED <<server, sequences, copy>>
  PROVE  DInv'
<1>1. /\ DTyped /\ DropInv /\ Stacked(Below) /\ CallsLast(Below)
      /\ byConnection \in [Connections -> Seq(Instances)]
      /\ DOMAIN instances \subseteq Instances
      /\ instances \in [DOMAIN instances -> InstanceEntry]
  BY CallingFacts, DInvParts
<1>2. PICK before : before = (IF id \in DOMAIN instances THEN instances[id].project ELSE NoProject)
  OBVIOUS
<1>3. before \in Projects \cup {NoProject}
  BY <1>1, <1>2 DEF InstanceEntry
<1>4. /\ Announce(c, id, p) /\ UNCHANGED <<dead, opened>>
      /\ stack' = (IF before \in {NoProject, p} THEN <<>> ELSE <<ClientGone(id, before)>>)
                    \o (IF p = NoProject THEN <<>> ELSE <<ClientHere(id, p)>>) \o Below
  BY <1>2 DEF HandleAnnounce
<1>5. PICK f : /\ FrameOK(f) /\ f.at = "publish"
               /\ before \in {NoProject, p} \/ f = ClientGone(id, before)
  <2>1. CASE before \in {NoProject, p}
    BY <2>1, PublishOK, TopicFacts
  <2>2. CASE before \notin {NoProject, p}
    BY <1>3, <2>2, PublishOK, TopicFacts DEF ClientGone
  <2> QED
    BY <2>1, <2>2
<1>6. PICK g : FrameOK(g) /\ g.at = "publish" /\ (p = NoProject \/ g = ClientHere(id, p))
  <2>1. CASE p = NoProject
    BY <2>1, PublishOK, TopicFacts
  <2>2. CASE p # NoProject
    BY <2>2, PublishOK, TopicFacts DEF ClientHere
  <2> QED
    BY <2>1, <2>2
<1>7. PICK front, back :
        /\ front = (IF before \in {NoProject, p} THEN <<>> ELSE <<ClientGone(id, before)>>)
        /\ back = (IF p = NoProject THEN <<>> ELSE <<ClientHere(id, p)>>)
  OBVIOUS
<1>8. Begun(Below)
  <2>1. front \in {<<>>, <<f>>} /\ back \in {<<>>, <<g>>} /\ stack' = front \o back \o Below
    BY <1>4, <1>5, <1>6, <1>7
  <2> QED
    BY <1>1, <1>5, <1>6, <2>1, UpToTwo
<1>9. ToSet(Below) = {}
  BY TopFacts, NothingStacked DEF At, Idle
<1>10. Stacked(stack') /\ CallsLast(stack') /\ \A h \in Calling' : h.at \in {"publish", "forget"}
  BY <1>8, <1>9 DEF Begun
<1>11. RetireInv'
  BY <1>10 DEF RetireInv
<1>12. PICK entry : entry = Entry(c, p)
  OBVIOUS
<1>13. entry \in InstanceEntry /\ entry.connection = c
  BY <1>12, PresenceAssumption DEF Entry, InstanceEntry
<1>14. /\ instances' = MapSet(instances, id, entry) /\ UNCHANGED sessions
       /\ byConnection' =
            [d \in Connections |->
               IF d = c THEN SetAdd(byConnection[c], id)
               ELSE IF id \in DOMAIN instances /\ instances[id].connection = d
                    THEN SetDelete(byConnection[d], id)
                    ELSE byConnection[d]]
  BY <1>4, <1>12 DEF Announce, Hold
<1>15. /\ DOMAIN instances' = DOMAIN instances \cup {id} /\ instances'[id] = entry
       /\ \A j \in DOMAIN instances : j # id => instances'[j] = instances[j]
       /\ instances' \in [DOMAIN instances' -> InstanceEntry]
  BY <1>1, <1>13, <1>14 DEF MapSet
<1>16. ASSUME NEW d \in Connections
       PROVE  /\ byConnection'[d] \in Seq(Instances) /\ IsInjective(byConnection'[d])
              /\ \A j \in ToSet(byConnection[d]) : j # id => j \in ToSet(byConnection'[d])
              /\ d = c => id \in ToSet(byConnection'[d])
  <2>1. PICK held \in Seq(Instances) : held = byConnection[d] /\ IsInjective(held)
    BY <1>1 DEF DropInv
  <2>2. /\ SetAdd(held, id) \in Seq(Instances) /\ IsInjective(SetAdd(held, id))
        /\ ToSet(SetAdd(held, id)) = ToSet(held) \cup {id}
    BY <2>1, SetAddFacts
  <2>3. /\ SetDelete(held, id) \in Seq(Instances) /\ IsInjective(SetDelete(held, id))
        /\ ToSet(SetDelete(held, id)) = ToSet(held) \ {id}
    BY <2>1, SetDeleteFacts
  <2>4. \/ d = c /\ byConnection'[d] = SetAdd(held, id)
        \/ d # c /\ byConnection'[d] = SetDelete(held, id)
        \/ d # c /\ byConnection'[d] = held
    BY <1>14, <2>1
  <2> QED
    BY <2>1, <2>2, <2>3, <2>4
<1>17. /\ byConnection' \in [Connections -> Seq(Instances)]
       /\ \A d \in Connections : IsInjective(byConnection'[d])
  BY <1>14, <1>16
<1>18. ASSUME NEW j \in DOMAIN instances', NEW d \in Connections, d = instances'[j].connection
       PROVE  \/ d = Top.connection /\ j \in ToSet(byConnection'[d])
              \/ /\ j \in DOMAIN instances /\ d = instances[j].connection
                 /\ j \in ToSet(byConnection[d]) => j \in ToSet(byConnection'[d])
  BY <1>13, <1>15, <1>16, <1>18
<1>19. /\ \A h \in Calling' : h.at \in {"publish", "forget", "retire"}
       /\ UNCHANGED <<sessions, dead, opened>> /\ DOMAIN instances' \subseteq Instances
  BY <1>1, <1>4, <1>10, <1>14, <1>15
<1> QED
  BY <1>10, <1>11, <1>15, <1>17, <1>18, <1>19, CallAboutInstances

LEMMA HandleCallStep ==
  ASSUME DInv, HandleCall
  PROVE  DInv'
<1>1. At("handle") /\ UNCHANGED <<server, sequences, copy>>
  BY DEF HandleCall
<1>2. PICK c \in Connections, call \in Calls : c = Top.connection /\ call = Top.call
  BY <1>1, CallingFacts
<1>3. \/ call.method = "clients.announce" /\ HandleAnnounce(c, call.id, call.project)
      \/ call.method = "clients.withdraw" /\ HandleWithdraw(c, call.project)
      \/ call.method = "live.open"        /\ HandleOpen(c, call.project, call.rule)
      \/ call.method = "live.rule"        /\ HandleRule(c, call.room, call.rule)
      \/ call.method = "live.join"        /\ HandleJoin(c, call.room, call.byCode)
      \/ call.method = "live.requestJoin" /\ HandleRequestJoin(c, call.room)
      \/ call.method = "live.answerJoin"
           /\ HandleAnswerJoin(c, call.room, call.asked, call.admit)
      \/ call.method = "live.leave"       /\ HandleLeave(c, call.room)
      \/ call.method = "live.close"       /\ HandleClose(c, call.room)
      \/ call.method = "live.say"         /\ HandleSay(c, call.room)
  BY <1>2 DEF HandleCall
<1>4. CASE call.method = "clients.announce" /\ HandleAnnounce(c, call.id, call.project)
  BY <1>1, <1>2, <1>4, CallFacts, HandleAnnounceStep
<1>5. CASE call.method = "clients.withdraw" /\ HandleWithdraw(c, call.project)
  BY <1>1, <1>5, CallFacts, HandleWithdrawStep
<1>6. CASE call.method = "live.open" /\ HandleOpen(c, call.project, call.rule)
  BY <1>1, <1>6, CallFacts, HandleOpenStep
<1>7. CASE call.method = "live.rule" /\ HandleRule(c, call.room, call.rule)
  BY <1>1, <1>7, CallFacts, HandleRuleStep
<1>8. CASE call.method = "live.join" /\ HandleJoin(c, call.room, call.byCode)
  BY <1>1, <1>8, CallFacts, HandleJoinStep
<1>9. CASE call.method = "live.requestJoin" /\ HandleRequestJoin(c, call.room)
  BY <1>1, <1>9, CallFacts, HandleRequestJoinStep
<1>10. CASE call.method = "live.answerJoin"
              /\ HandleAnswerJoin(c, call.room, call.asked, call.admit)
  BY <1>1, <1>10, CallFacts, HandleAnswerJoinStep
<1>11. CASE call.method = "live.leave" /\ HandleLeave(c, call.room)
  BY <1>1, <1>11, CallFacts, HandleLeaveStep
<1>12. CASE call.method = "live.close" /\ HandleClose(c, call.room)
  BY <1>1, <1>12, CallFacts, HandleCloseStep
<1>13. CASE call.method = "live.say" /\ HandleSay(c, call.room)
  BY <1>1, <1>13, CallFacts, HandleSayStep
<1> QED
  BY <1>3, <1>4, <1>5, <1>6, <1>7, <1>8, <1>9, <1>10, <1>11, <1>12, <1>13

-----------------------------------------------------------------------------
(* The invariant of Delivery, and what follows from it.                    *)

LEMMA DInvInit == DInit => DInv
<1> SUFFICES ASSUME DInit
             PROVE  DInv
  OBVIOUS
<1> USE DEF DInit, Init
<1>1. Stacked(stack) /\ CallsLast(stack) /\ Calling = {}
  BY NothingStacked DEF Calling
<1>2. DTyped
  <2>1. TypeOK
    BY EmptySeq DEF TypeOK
  <2>2. hub \in Seq(Connections)
    BY EmptySeq
  <2>3. sequences \in [Topics -> Nat] /\ topics \in [Connections -> SUBSET Topics]
    OBVIOUS
  <2>4. dead \in [DOMAIN dead -> LiveEntry] /\ DOMAIN dead \subseteq Rooms
    OBVIOUS
  <2> QED
    BY <1>1, <2>1, <2>2, <2>3, <2>4 DEF DTyped, Stacked, Calling
<1>3. HubInv
  BY DEF HubInv, ToSet, IsInjective
<1>4. CallInv /\ RetireInv
  BY <1>1 DEF CallInv, CallsLast, RetireInv
<1>5. DropInv
  BY <1>1 DEF DropInv, IsInjective
<1>6. HearInv
  BY <1>1 DEF HearInv
<1> QED
  BY <1>2, <1>3, <1>4, <1>5, <1>6 DEF DInv

LEMMA DInvStep == DInv /\ [DNext]_dvars => DInv'
<1> SUFFICES ASSUME DInv, [DNext]_dvars
             PROVE  DInv'
  OBVIOUS
<1>1. CASE HandleCall
  BY <1>1, HandleCallStep
<1>2. CASE HandleSubscribe
  BY <1>2, HandleSubscribeStep
<1>3. CASE HandleUnsubscribe
  BY <1>3, HandleUnsubscribeStep
<1>4. CASE Refuse
  BY <1>4, RefuseStep
<1>5. CASE BeginPublish
  BY <1>5, BeginPublishStep
<1>6. CASE Deliver
  BY <1>6, DeliverStep
<1>7. CASE DropNext
  BY <1>7, DropNextStep
<1>8. CASE RetireFromRoom
  BY <1>8, RetireFromRoomStep
<1>9. CASE RetireDone
  BY <1>9, RetireDoneStep
<1>10. CASE Forget
  BY <1>10, ForgetStep
<1>11. CASE DropDone
  BY <1>11, DropDoneStep
<1>12. CASE CloseAll
  BY <1>12, CloseAllStep
<1>13. ASSUME NEW c \in Connections, Open(c)
       PROVE  DInv'
  BY <1>13, OpenStep
<1>14. ASSUME NEW c \in Connections, Close(c)
       PROVE  DInv'
  BY <1>14, CloseStep
<1>15. ASSUME NEW c \in Connections, NEW call \in Sends[c], Receive(c, call)
       PROVE  DInv'
  BY <1>15, ReceiveStep
<1>16. ASSUME NEW c \in Connections, Revalidate(c)
       PROVE  DInv'
  BY <1>16, RevalidateStep
<1>17. ASSUME NEW c \in Connections, NEW t \in Topics, ReadAgain(c, t)
       PROVE  DInv'
  BY <1>17, ReadAgainStep
<1>18. ASSUME NEW a \in Accounts, Demote(a)
       PROVE  DInv'
  BY <1>18, DemoteStep
<1>19. CASE PublishElsewhere
  BY <1>19, PublishElsewhereStep
<1>20. CASE Stop
  BY <1>20, StopStep
<1>21. CASE UNCHANGED dvars
  <2>1. /\ UNCHANGED <<presence, status, hub, topics, sequences, copy>>
        /\ stack' = stack /\ operators' = operators
    BY <1>21 DEF dvars, server
  <2>2. Calling' = Calling /\ Stacked(stack')
    BY <2>1, DInvParts DEF Calling
  <2>3. CallInv'
    BY <2>1, <2>2, DInvParts DEF CallInv, LetGoOn, Over, DemotedWhileSlow
  <2> QED
    BY <2>1, <2>2, <2>3, OnlyTheStack
<1> QED
  BY <1>1, <1>2, <1>3, <1>4, <1>5, <1>6, <1>7, <1>8, <1>9, <1>10, <1>11, <1>12, <1>13, <1>14,
     <1>15, <1>16, <1>17, <1>18, <1>19, <1>20, <1>21 DEF DNext, Run, Arrive

(* What is on the stack, in the hub, in rooms and at the clients fits      *)
(* together between any two steps, however the calls of hub.ts, session.ts *)
(* and presence.ts nest.                                                   *)
THEOREM CallsNest == DSpec => []DInv
<1>1. DInit => DInv
  BY DInvInit
<1>2. DInv /\ [DNext]_dvars => DInv'
  BY DInvStep
<1> QED
  BY <1>1, <1>2, PTL DEF DSpec

(* No event is lost without its subscriber being able to tell: publish in  *)
(* src/src/team/hub.ts numbers an event before it walks the sessions, and  *)
(* what the walk has yet to reach is on the stack.                         *)
THEOREM EventsAreNumbered == DSpec => []NothingMissedUnnoticed
<1>1. DInv => NothingMissedUnnoticed
  <2> SUFFICES ASSUME DInv, Idle, NEW c \in Connections, NEW t \in DOMAIN copy[c], t.of # "room"
               PROVE  copy[c][t].last = sequences[t]
    BY DEF NothingMissedUnnoticed
  <2>1. \A f \in Calling : f.at # "deliver"
    BY IdleFacts
  <2> QED
    BY <2>1, InStep
<1> QED
  BY <1>1, CallsNest, PTL

(* Nothing outlives the connection it came on: closed in                   *)
(* src/src/team/session.ts drops all of it, and nothing is announced on a  *)
(* session that is over but by a call its own identify has let go on.      *)
THEOREM NobodyStaysBehind == DSpec => []NobodyLeftBehind
<1>1. DInv => NobodyLeftBehind
  <2> SUFFICES ASSUME DInv, Idle, NEW id \in DOMAIN instances
               PROVE  \/ status[instances[id].connection] = "open"
                      \/ DemotedWhileSlow(instances[id].connection)
    BY DEF NobodyLeftBehind
  <2>1. Calling = {}
    BY IdleFacts
  <2>2. CarriedOn(id, instances[id].connection)
    BY DInvParts DEF DropInv
  <2>3. ~ToDrop(id, instances[id].connection)
    BY <2>1 DEF ToDrop
  <2> QED
    BY <2>2, <2>3 DEF CarriedOn
<1> QED
  BY <1>1, CallsNest, PTL

=============================================================================
