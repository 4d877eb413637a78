----------------------------- MODULE KeysProofs -----------------------------
(***************************************************************************)
(* What Keys promises of the directory of keys, for any number of calls,   *)
(* commands and pairs.                                                     *)
(***************************************************************************)
EXTENDS Keys, TLAPS

-----------------------------------------------------------------------------
(* Maps and sequences.                                                     *)

\* Map.set.
LEMMA MapSetIs ==
  ASSUME NEW map, NEW key, NEW value
  PROVE  /\ DOMAIN MapSet(map, key, value) = DOMAIN map \cup {key}
         /\ MapSet(map, key, value)[key] = value
         /\ \A k \in DOMAIN map : k # key => MapSet(map, key, value)[k] = map[k]
  BY DEF MapSet

\* Map.delete.
LEMMA MapDeleteIs ==
  ASSUME NEW map, NEW keys
  PROVE  /\ DOMAIN MapDelete(map, keys) = DOMAIN map \ keys
         /\ \A k \in DOMAIN map \ keys : MapDelete(map, keys)[k] = map[k]
  BY DEF MapDelete, Restrict

\* A key put before others.
LEMMA PutBefore ==
  ASSUME NEW S, NEW k \in S, NEW keys \in Seq(S)
  PROVE  /\ <<k>> \o keys \in Seq(S)
         /\ DOMAIN (<<k>> \o keys) = 1 .. Len(keys) + 1
         /\ (<<k>> \o keys)[1] = k
         /\ \A i \in DOMAIN keys : (<<k>> \o keys)[i + 1] = keys[i]
         /\ \A i \in DOMAIN (<<k>> \o keys) : i # 1 =>
              i - 1 \in DOMAIN keys /\ (<<k>> \o keys)[i] = keys[i - 1]
  OBVIOUS

-----------------------------------------------------------------------------
(* What a caller goes on with.                                             *)

\* A caller that goes on is at rest, or generates, or renames a key it may retire.
LEMMA GoOnGoes ==
  ASSUME NEW c \in Callers, NEW ask, NEW keys, GoOn(c, ask, keys)
  PROVE  /\ reading' = MapDelete(reading, {c})
         /\ \/ /\ \E place \in {Rest(c), "down"} : stage' = [stage EXCEPT ![c] = place]
               /\ asked' = MapDelete(asked, {c}) /\ making' = MapDelete(making, {c})
            \/ /\ stage' = [stage EXCEPT ![c] = "generating"]
               /\ asked' = MapSet(asked, c, ask) /\ making' = MapDelete(making, {c})
            \/ /\ stage' = [stage EXCEPT ![c] = "renaming"]
               /\ asked' = MapSet(asked, c, ask)
               /\ \E i \in DOMAIN keys :
                    /\ MayRetire(keys, i)
                    /\ making' = MapSet(making, c, keys[i])
         /\ signed' \in {signed, signed \cup SigningKey(keys)}
  BY DEF GoOn, Ends, Leaves, Becomes, GoesTo
\* Every caller has a store.
LEMMA StoreOfIs ==
  ASSUME NEW c \in Callers
  PROVE  StoreOf(c) \in Openers /\ Rest(c) \in {"up", "over"}
  BY DEF StoreOf, Openers, Callers, Rest

-----------------------------------------------------------------------------
(* Type correctness.                                                       *)

\* A caller has something asked, to read or in hand where its stage says so.
Places ==
  /\ stage \in [Callers -> {"unrun", "over", "down", "up"} \cup Working]
  /\ DOMAIN asked = {c \in Callers : stage[c] \in Working}
  /\ \A c \in DOMAIN asked : asked[c] \in Asks \cup {Serve}
  /\ DOMAIN reading = {c \in Callers : stage[c] = "reading"}
  /\ \A c \in DOMAIN reading : reading[c] \in [left : SUBSET Paths, got : Seq(Key)]
  /\ DOMAIN making = {c \in Callers : stage[c] \in Making \cup Retiring}
  /\ \A c \in DOMAIN making : making[c] \in Key /\ ~making[c].retired

\* The rest of the type invariant.
Stores ==
  /\ DOMAIN files \subseteq Paths
  /\ \A p \in DOMAIN files : files[p] \in [kid : 1..MaxKeys, whole : BOOLEAN]
  /\ held \in [Openers -> Seq(Key)]
  /\ looked \in BOOLEAN
  /\ made \in 0..MaxKeys
  /\ signed \subseteq 1..MaxKeys
  /\ overtaken \in BOOLEAN

LEMMA TypeParts == KTypeOK <=> Places /\ Stores
  BY DEF KTypeOK, Places, Stores

LEMMA TypePartsNext == KTypeOK' <=> Places' /\ Stores'
  BY DEF KTypeOK, Places, Stores

Stages == {"unrun", "over", "down", "up"} \cup Working

\* A map that has something of exactly the callers in some stages, when one moves.
LEMMA MovedMap ==
  ASSUME stage \in [Callers -> Stages], NEW c \in Callers, NEW place,
         stage' = [stage EXCEPT ![c] = place],
         NEW S, NEW map, NEW now, DOMAIN map = {d \in Callers : stage[d] \in S},
         DOMAIN now = IF place \in S THEN DOMAIN map \cup {c} ELSE DOMAIN map \ {c}
  PROVE  DOMAIN now = {d \in Callers : stage'[d] \in S}
<1>1. \A d \in Callers : stage'[d] = IF d = c THEN place ELSE stage[d]
  OBVIOUS
<1>2. CASE place \in S
  BY <1>1, <1>2
<1>3. CASE place \notin S
  BY <1>1, <1>3
<1> QED
  BY <1>2, <1>3

\* One caller moves, and what it was asked, reads and has in hand moves with it.
LEMMA Moved ==
  ASSUME KTypeOK, NEW c \in Callers, NEW place \in Stages,
         stage' = [stage EXCEPT ![c] = place],
         DOMAIN asked' = IF place \in Working THEN DOMAIN asked \cup {c} ELSE DOMAIN asked \ {c},
         \A d \in DOMAIN asked \ {c} : asked'[d] = asked[d],
         place \in Working => asked'[c] \in Asks \cup {Serve},
         DOMAIN reading' = IF place = "reading" THEN DOMAIN reading \cup {c}
                           ELSE DOMAIN reading \ {c},
         \A d \in DOMAIN reading \ {c} : reading'[d] = reading[d],
         place = "reading" => reading'[c] \in [left : SUBSET Paths, got : Seq(Key)],
         DOMAIN making' = IF place \in Making \cup Retiring THEN DOMAIN making \cup {c}
                          ELSE DOMAIN making \ {c},
         \A d \in DOMAIN making \ {c} : making'[d] = making[d],
         place \in Making \cup Retiring => making'[c] \in Key /\ ~making'[c].retired
  PROVE  Places'
<1>1. stage \in [Callers -> Stages] /\ stage' \in [Callers -> Stages]
  BY DEF KTypeOK, Stages
<1>2. DOMAIN asked' = {d \in Callers : stage'[d] \in Working}
  BY <1>1, MovedMap DEF KTypeOK
<1>3. DOMAIN reading' = {d \in Callers : stage'[d] = "reading"}
  <2>1. /\ DOMAIN reading = {d \in Callers : stage[d] \in {"reading"}}
        /\ DOMAIN reading' = IF place \in {"reading"} THEN DOMAIN reading \cup {c}
                             ELSE DOMAIN reading \ {c}
    BY DEF KTypeOK
  <2>2. DOMAIN reading' = {d \in Callers : stage'[d] \in {"reading"}}
    BY <1>1, <2>1, MovedMap
  <2> QED
    BY <2>2
<1>4. DOMAIN making' = {d \in Callers : stage'[d] \in Making \cup Retiring}
  BY <1>1, MovedMap DEF KTypeOK
<1>5. \A d \in DOMAIN asked' : asked'[d] \in Asks \cup {Serve}
  BY DEF KTypeOK
<1>6. \A d \in DOMAIN reading' : reading'[d] \in [left : SUBSET Paths, got : Seq(Key)]
  BY DEF KTypeOK
<1>7. \A d \in DOMAIN making' : making'[d] \in Key /\ ~making'[d].retired
  BY DEF KTypeOK
<1> QED
  BY <1>1, <1>2, <1>3, <1>4, <1>5, <1>6, <1>7 DEF Places, Stages

\* Whatever ends leaves nothing behind.
LEMMA EndsPlaces ==
  ASSUME KTypeOK, NEW c \in Callers, NEW place \in {"unrun", "over", "down", "up"},
         stage' = [stage EXCEPT ![c] = place],
         asked' = MapDelete(asked, {c}), reading' = MapDelete(reading, {c}),
         making' = MapDelete(making, {c})
  PROVE  Places'
<1>1. place \in Stages /\ place \notin Working /\ place # "reading"
      /\ place \notin Making \cup Retiring
  BY DEF Stages, Working, Loading, Making, Retiring
<1>2. /\ DOMAIN asked' = DOMAIN asked \ {c} /\ \A d \in DOMAIN asked \ {c} : asked'[d] = asked[d]
      /\ DOMAIN reading' = DOMAIN reading \ {c}
      /\ \A d \in DOMAIN reading \ {c} : reading'[d] = reading[d]
      /\ DOMAIN making' = DOMAIN making \ {c}
      /\ \A d \in DOMAIN making \ {c} : making'[d] = making[d]
  BY MapDeleteIs
<1> QED
  BY <1>1, <1>2, Moved

LEMMA FailsType ==
  ASSUME KTypeOK, looked' = looked, NEW c \in Callers, Fails(c)
  PROVE  KTypeOK'
<1>1. Places'
  <2>1. (IF c = Server THEN "down" ELSE Rest(c)) \in {"unrun", "over", "down", "up"}
    BY StoreOfIs
  <2> QED
    BY <2>1, EndsPlaces DEF Fails, Leaves, GoesTo
<1> QED
  BY <1>1, TypePartsNext DEF Fails, Leaves, KTypeOK, Stores

\* Going on with well-formed keys.
LEMMA GoOnType ==
  ASSUME KTypeOK, NEW c \in Callers, NEW ask \in Asks \cup {Serve}, NEW keys \in Seq(Key),
         GoOn(c, ask, keys)
  PROVE  Places' /\ signed' \subseteq 1..MaxKeys
<1>0. /\ reading' = MapDelete(reading, {c})
      /\ \/ /\ \E place \in {Rest(c), "down"} : stage' = [stage EXCEPT ![c] = place]
            /\ asked' = MapDelete(asked, {c}) /\ making' = MapDelete(making, {c})
         \/ /\ stage' = [stage EXCEPT ![c] = "generating"]
            /\ asked' = MapSet(asked, c, ask) /\ making' = MapDelete(making, {c})
         \/ /\ stage' = [stage EXCEPT ![c] = "renaming"]
            /\ asked' = MapSet(asked, c, ask)
            /\ \E i \in DOMAIN keys :
                 MayRetire(keys, i) /\ making' = MapSet(making, c, keys[i])
      /\ signed' \in {signed, signed \cup SigningKey(keys)}
  BY GoOnGoes, Zenon
<1>1. signed' \subseteq 1..MaxKeys
  <2>1. SigningKey(keys) \subseteq 1..MaxKeys
    <3>1. \A i \in DOMAIN keys : keys[i] \in Key
      OBVIOUS
    <3>2. \A k \in Key : k.kid \in 1..MaxKeys
      BY DEF Key
    <3> QED
      BY <3>1, <3>2 DEF SigningKey
  <2> QED
    BY <1>0, <2>1 DEF KTypeOK
<1>2. /\ DOMAIN reading' = DOMAIN reading \ {c}
      /\ \A d \in DOMAIN reading \ {c} : reading'[d] = reading[d]
  BY <1>0, MapDeleteIs
<1>3. ASSUME NEW place \in {Rest(c), "down"}, stage' = [stage EXCEPT ![c] = place],
             asked' = MapDelete(asked, {c}), making' = MapDelete(making, {c})
      PROVE  Places'
  <2>1. place \in {"unrun", "over", "down", "up"}
    BY StoreOfIs
  <2> QED
    BY <1>0, <1>1, <1>3, <2>1, EndsPlaces
<1>4. CASE /\ stage' = [stage EXCEPT ![c] = "generating"]
           /\ asked' = MapSet(asked, c, ask) /\ making' = MapDelete(making, {c})
  <2>1. /\ DOMAIN asked' = DOMAIN asked \cup {c} /\ asked'[c] = ask
        /\ \A d \in DOMAIN asked \ {c} : asked'[d] = asked[d]
        /\ DOMAIN making' = DOMAIN making \ {c}
        /\ \A d \in DOMAIN making \ {c} : making'[d] = making[d]
    BY <1>4 DEF MapSet, MapDelete, Restrict
  <2>2. "generating" \in Stages /\ "generating" \in Working
        /\ "generating" \notin Making \cup Retiring
    BY DEF Stages, Working, Making, Retiring
  <2> QED
    BY <1>1, <1>2, <1>4, <2>1, <2>2, Moved
<1>5. ASSUME stage' = [stage EXCEPT ![c] = "renaming"], asked' = MapSet(asked, c, ask),
             NEW i \in DOMAIN keys, MayRetire(keys, i), making' = MapSet(making, c, keys[i])
      PROVE  Places'
  <2>1. /\ DOMAIN asked' = DOMAIN asked \cup {c} /\ asked'[c] = ask
        /\ \A d \in DOMAIN asked \ {c} : asked'[d] = asked[d]
        /\ DOMAIN making' = DOMAIN making \cup {c} /\ making'[c] = keys[i]
        /\ \A d \in DOMAIN making \ {c} : making'[d] = making[d]
    BY <1>5 DEF MapSet
  <2>2. "renaming" \in Stages /\ "renaming" \in Working /\ "renaming" \in Making \cup Retiring
    BY DEF Stages, Working, Retiring
  <2>3. keys[i] \in Key /\ ~keys[i].retired
    BY <1>5 DEF MayRetire, IsPublished
  <2> QED
    BY <1>2, <1>5, <2>1, <2>2, <2>3, Moved
<1> QED
  BY <1>0, <1>1, <1>3, <1>4, <1>5

\* A caller that moves on with its key, or without any.
LEMMA GoesOn ==
  ASSUME KTypeOK, NEW c \in Callers, NEW place \in Stages,
         stage[c] \in Working, place \in Working,
         stage' = [stage EXCEPT ![c] = place],
         UNCHANGED <<asked, reading, making>>,
         stage[c] # "reading", place # "reading",
         stage[c] \in Making \cup Retiring <=> place \in Making \cup Retiring
  PROVE  Places'
<1>1. DOMAIN asked' = DOMAIN asked \cup {c} /\ DOMAIN reading' = DOMAIN reading \ {c}
  BY DEF KTypeOK
<1>2. asked'[c] \in Asks \cup {Serve}
  BY DEF KTypeOK
<1>3. CASE place \in Making \cup Retiring
  <2>1. DOMAIN making' = DOMAIN making \cup {c} /\ making'[c] \in Key /\ ~making'[c].retired
    BY <1>3 DEF KTypeOK
  <2> QED
    BY <1>1, <1>2, <1>3, <2>1, Moved
<1>4. CASE place \notin Making \cup Retiring
  <2>1. DOMAIN making' = DOMAIN making \ {c}
    BY <1>4 DEF KTypeOK
  <2> QED
    BY <1>1, <1>2, <1>4, <2>1, Moved
<1> QED
  BY <1>3, <1>4

LEMMA OpenType ==
  ASSUME KTypeOK, NEW c \in Openers, NEW ask \in Asking(c), Open(c, ask)
  PROVE  KTypeOK'
<1>1. c \in Callers /\ ask \in Asks \cup {Serve}
  BY KeysAssumption DEF Callers, Openers, Asking
<1>2. /\ DOMAIN asked' = DOMAIN asked \cup {c} /\ asked'[c] = ask
      /\ \A d \in DOMAIN asked \ {c} : asked'[d] = asked[d]
  BY DEF Open, MapSet
<1>3. "listing" \in Stages /\ "listing" \in Working /\ "listing" \notin Making \cup Retiring
  BY DEF Stages, Working, Loading, Making, Retiring
<1>4. stage[c] \in {"down", "unrun"} /\ stage' = [stage EXCEPT ![c] = "listing"]
      /\ reading' = reading /\ making' = making
  BY DEF Open, GoesTo
<1>5. stage[c] # "reading" /\ stage[c] \notin Making \cup Retiring
  BY <1>4 DEF Making, Retiring
<1>6. DOMAIN reading' = DOMAIN reading \ {c} /\ DOMAIN making' = DOMAIN making \ {c}
  BY <1>4, <1>5 DEF KTypeOK
<1>7. Places'
  BY <1>1, <1>2, <1>3, <1>4, <1>6, Moved
<1> QED
  BY <1>7, TypePartsNext DEF Open, KTypeOK, Stores

LEMMA CallType ==
  ASSUME KTypeOK, NEW h \in Handlers, NEW ask \in Does[h], Call(h, ask)
  PROVE  KTypeOK'
<1>1. h \in Callers /\ ask \in Asks \cup {Serve} /\ Server \in Openers
  BY KeysAssumption DEF Callers, Openers
<1>2. CASE ask.does = "sign" \/ looked
  <2>1. GoOn(h, ask, held[Server]) /\ looked' = looked
    BY <1>2 DEF Call
  <2>2. held[Server] \in Seq(Key)
    BY <1>1 DEF KTypeOK
  <2>3. Places' /\ signed' \subseteq 1..MaxKeys
    BY <1>1, <2>1, <2>2, GoOnType
  <2> QED
    BY <2>1, <2>3, TypePartsNext DEF Call, KTypeOK, Stores
<1>3. CASE ~(ask.does = "sign" \/ looked)
  <2>1. /\ stage[h] = "unrun" /\ stage' = [stage EXCEPT ![h] = "listing"]
        /\ asked' = MapSet(asked, h, ask) /\ reading' = reading /\ making' = making
        /\ signed' = signed /\ looked' = TRUE
    BY <1>3 DEF Call, GoesTo
  <2>2. /\ DOMAIN asked' = DOMAIN asked \cup {h} /\ asked'[h] = ask
        /\ \A d \in DOMAIN asked \ {h} : asked'[d] = asked[d]
    BY <2>1 DEF MapSet
  <2>3. "listing" \in Stages /\ "listing" \in Working /\ "listing" \notin Making \cup Retiring
    BY DEF Stages, Working, Loading, Making, Retiring
  <2>4. stage[h] # "reading" /\ stage[h] \notin Making \cup Retiring
    BY <2>1 DEF Making, Retiring
  <2>5. DOMAIN reading' = DOMAIN reading \ {h} /\ DOMAIN making' = DOMAIN making \ {h}
    BY <2>1, <2>4 DEF KTypeOK
  <2>6. Places'
    BY <1>1, <2>1, <2>2, <2>3, <2>5, Moved
  <2> QED
    BY <2>1, <2>6, TypePartsNext DEF Call, KTypeOK, Stores
<1> QED
  BY <1>2, <1>3

LEMMA ListType ==
  ASSUME KTypeOK, NEW c \in Callers, List(c)
  PROVE  KTypeOK'
<1>1. /\ stage[c] = "listing" /\ stage' = [stage EXCEPT ![c] = "reading"]
      /\ asked' = asked /\ making' = making
      /\ reading' = MapSet(reading, c, [left |-> DOMAIN files, got |-> <<>>])
  BY DEF List, GoesTo
<1>2. /\ DOMAIN reading' = DOMAIN reading \cup {c}
      /\ reading'[c] = [left |-> DOMAIN files, got |-> <<>>]
      /\ \A d \in DOMAIN reading \ {c} : reading'[d] = reading[d]
  BY <1>1 DEF MapSet
<1>3. reading'[c] \in [left : SUBSET Paths, got : Seq(Key)]
  BY <1>2 DEF KTypeOK
<1>4. /\ "reading" \in Stages /\ "reading" \in Working /\ "reading" \notin Making \cup Retiring
      /\ "listing" \in Working /\ "listing" \notin Making \cup Retiring
  BY DEF Stages, Working, Loading, Making, Retiring
<1>5. DOMAIN asked' = DOMAIN asked \cup {c} /\ DOMAIN making' = DOMAIN making \ {c}
      /\ asked'[c] \in Asks \cup {Serve}
  BY <1>1, <1>4 DEF KTypeOK
<1>6. Places'
  BY <1>1, <1>2, <1>3, <1>4, <1>5, Moved
<1> QED
  BY <1>6, TypePartsNext DEF List, KTypeOK, Stores

\* A file that is whole is a key.
LEMMA KeyInFile ==
  ASSUME KTypeOK, NEW p \in DOMAIN files
  PROVE  KeyIn(p) \in Key
  BY DEF KeyIn, Key, KTypeOK, Paths

LEMMA ReadKeyType ==
  ASSUME KTypeOK, NEW c \in Callers, ReadKey(c)
  PROVE  KTypeOK'
<1>1. PICK p \in reading[c].left :
        \/ /\ p \in DOMAIN files
           /\ reading' = [reading EXCEPT ![c] = [left |-> @.left \ {p},
                                                 got |-> <<KeyIn(p)>> \o @.got]]
           /\ UNCHANGED <<files, held, looked, stage, asked, making, made, signed, overtaken>>
        \/ Fails(c) /\ looked' = looked
  BY DEF ReadKey
<1>2. CASE Fails(c) /\ looked' = looked
  BY <1>2, FailsType
<1>3. CASE /\ p \in DOMAIN files
           /\ reading' = [reading EXCEPT ![c] = [left |-> @.left \ {p},
                                                 got |-> <<KeyIn(p)>> \o @.got]]
           /\ UNCHANGED <<files, held, looked, stage, asked, making, made, signed, overtaken>>
  <2>1. c \in DOMAIN reading /\ reading[c].left \subseteq Paths /\ reading[c].got \in Seq(Key)
    BY DEF ReadKey, KTypeOK
  <2>2. <<KeyIn(p)>> \o reading[c].got \in Seq(Key)
    BY <1>3, <2>1, KeyInFile, PutBefore
  <2>3. /\ DOMAIN reading' = DOMAIN reading
        /\ reading'[c] = [left |-> reading[c].left \ {p}, got |-> <<KeyIn(p)>> \o reading[c].got]
        /\ \A d \in DOMAIN reading \ {c} : reading'[d] = reading[d]
    BY <1>3, <2>1
  <2>4. \A d \in DOMAIN reading' : reading'[d] \in [left : SUBSET Paths, got : Seq(Key)]
    <3>1. reading'[c] \in [left : SUBSET Paths, got : Seq(Key)]
      BY <2>1, <2>2, <2>3
    <3>2. \A d \in DOMAIN reading : reading[d] \in [left : SUBSET Paths, got : Seq(Key)]
      BY DEF KTypeOK
    <3> QED
      BY <2>3, <3>1, <3>2
  <2> QED
    BY <1>3, <2>3, <2>4 DEF KTypeOK
<1> QED
  BY <1>1, <1>2, <1>3

LEMMA LoadedType ==
  ASSUME KTypeOK, NEW c \in Callers, Loaded(c)
  PROVE  KTypeOK'
<1>1. c \in DOMAIN reading /\ reading[c].got \in Seq(Key) /\ asked[c] \in Asks \cup {Serve}
  BY DEF Loaded, KTypeOK, Working, Loading
<1>2. held' \in [Openers -> Seq(Key)]
  BY <1>1, StoreOfIs DEF Loaded, Hold, KTypeOK
<1>3. CASE GoOn(c, asked[c], reading[c].got)
  <2>1. Places' /\ signed' \subseteq 1..MaxKeys
    BY <1>1, <1>3, GoOnType
  <2> QED
    BY <1>2, <2>1, TypePartsNext DEF Loaded, KTypeOK, Stores
<1>4. CASE Becomes(c, asked[c], "generating") /\ UNCHANGED <<making, signed>>
  <2>1. /\ DOMAIN asked' = DOMAIN asked \cup {c} /\ asked'[c] = asked[c]
        /\ \A d \in DOMAIN asked \ {c} : asked'[d] = asked[d]
        /\ DOMAIN reading' = DOMAIN reading \ {c}
        /\ \A d \in DOMAIN reading \ {c} : reading'[d] = reading[d]
        /\ stage' = [stage EXCEPT ![c] = "generating"] /\ making' = making
    BY <1>4 DEF Becomes, GoesTo, MapSet, MapDelete, Restrict
  <2>2. "generating" \in Stages /\ "generating" \in Working
        /\ "generating" \notin Making \cup Retiring
        /\ "reading" \notin Making \cup Retiring
    BY DEF Stages, Working, Making, Retiring
  <2>3. DOMAIN making' = DOMAIN making \ {c}
    BY <2>1, <2>2 DEF Loaded, KTypeOK
  <2>4. Places'
    BY <1>1, <2>1, <2>2, <2>3, Moved
  <2> QED
    BY <1>2, <1>4, <2>4, TypePartsNext DEF Loaded, KTypeOK, Stores
<1> QED
  BY <1>3, <1>4 DEF Loaded

LEMMA GenerateType ==
  ASSUME KTypeOK, NEW c \in Callers, Generate(c)
  PROVE  KTypeOK' /\ made' = made + 1 /\ c \in DOMAIN making'
         /\ made' \in 1..MaxKeys /\ making'[c].kid = made'
         /\ \A d \in DOMAIN making : making'[d] = making[d]
<1> DEFINE keys == held[StoreOf(c)]
           serial == IF keys = <<>> THEN 1 ELSE Head(keys).serial + 1
           new == [serial |-> serial, kid |-> made + 1, retired |-> FALSE]
<1>1. /\ stage[c] = "generating" /\ stage' = [stage EXCEPT ![c] = "creating"]
      /\ made' = made + 1 /\ made < MaxKeys /\ making' = MapSet(making, c, new)
      /\ asked' = asked /\ reading' = reading
  BY DEF Generate, GoesTo
<1>2. keys \in Seq(Key)
  BY StoreOfIs DEF KTypeOK
<1>3. serial \in Nat
  <2>1. CASE keys = <<>>
    BY <2>1
  <2>2. CASE keys # <<>>
    <3>1. Head(keys) \in Key
      BY <1>2, <2>2
    <3> QED
      BY <2>2, <3>1 DEF Key
  <2> QED
    BY <2>1, <2>2
<1>4. made + 1 \in 1..MaxKeys
  BY <1>1, KeysAssumption DEF KTypeOK
<1>5. new \in Key /\ ~new.retired /\ new.kid = made + 1
  BY <1>3, <1>4 DEF Key
<1>6. "creating" \in Stages /\ "creating" \in Working /\ "creating" \in Making \cup Retiring
      /\ "generating" \in Working /\ "generating" \notin Making \cup Retiring
  BY DEF Stages, Working, Making, Retiring
<1> HIDE DEF new
<1>7. /\ DOMAIN making' = DOMAIN making \cup {c} /\ making'[c] = new
      /\ \A d \in DOMAIN making \ {c} : making'[d] = making[d]
  BY <1>1 DEF MapSet
<1>8. c \in DOMAIN asked /\ c \notin DOMAIN reading /\ c \notin DOMAIN making
  BY <1>1, <1>6 DEF KTypeOK
<1>9. DOMAIN asked' = DOMAIN asked \cup {c} /\ DOMAIN reading' = DOMAIN reading \ {c}
      /\ asked'[c] \in Asks \cup {Serve}
  BY <1>1, <1>8 DEF KTypeOK
<1>10. Places'
  BY <1>1, <1>5, <1>6, <1>7, <1>9, Moved
<1>11. KTypeOK'
  <2>1. /\ files' = files /\ held' = held /\ looked' = looked /\ signed' = signed
        /\ overtaken' = overtaken
    BY DEF Generate
  <2>2. made' \in 0..MaxKeys
    BY <1>1, <1>4 DEF KTypeOK
  <2>3. Stores'
    BY <2>1, <2>2 DEF KTypeOK, Stores
  <2> QED
    BY <1>10, <2>3, TypePartsNext
<1> QED
  BY <1>1, <1>4, <1>5, <1>7, <1>8, <1>11

\* What is in hand has a path of its own.
LEMMA InHand ==
  ASSUME KTypeOK, NEW c \in Callers, stage[c] \in Making \cup Retiring
  PROVE  /\ c \in DOMAIN making /\ making[c] \in Key /\ ~making[c].retired
         /\ c \in DOMAIN asked
         /\ PathOf(making[c]) = <<making[c].serial, FALSE>> /\ PathOf(making[c]) \in Paths
         /\ PathOf(Retired(making[c])) = <<making[c].serial, TRUE>>
         /\ PathOf(Retired(making[c])) \in Paths
         /\ Retired(making[c]) \in Key /\ Retired(making[c]).retired
         /\ Retired(making[c]).serial = making[c].serial
         /\ Retired(making[c]).kid = making[c].kid
<1>1. c \in DOMAIN making /\ making[c] \in Key /\ ~making[c].retired
  BY DEF KTypeOK
<1>2. c \in DOMAIN asked
  BY DEF KTypeOK, Working
<1> QED
  BY <1>1, <1>2 DEF Key, PathOf, Retired, Paths

LEMMA CreateFileType ==
  ASSUME KTypeOK, NEW c \in Callers, CreateFile(c)
  PROVE  KTypeOK'
<1>1. CASE Fails(c)
  BY <1>1, FailsType DEF CreateFile
<1>2. CASE /\ files' = MapSet(files, PathOf(making[c]), [kid |-> making[c].kid, whole |-> FALSE])
           /\ GoesTo(c, "writing")
           /\ UNCHANGED <<held, asked, reading, making, made, signed, overtaken>>
  <2>1. "creating" \in Making /\ "writing" \in Making /\ stage[c] = "creating"
        /\ "creating" \in Working /\ "writing" \in Working /\ "writing" \in Stages
    BY DEF Making, Working, Stages, CreateFile
  <2>2. Places'
    BY <1>2, <2>1, GoesOn DEF GoesTo
  <2>3. making[c].kid \in 1..MaxKeys /\ PathOf(making[c]) \in Paths
    BY <2>1, InHand DEF Key
  <2>4. /\ DOMAIN files' = DOMAIN files \cup {PathOf(making[c])}
        /\ files'[PathOf(making[c])] = [kid |-> making[c].kid, whole |-> FALSE]
        /\ \A p \in DOMAIN files : p # PathOf(making[c]) => files'[p] = files[p]
    BY <1>2 DEF MapSet
  <2> QED
    <3>1. DOMAIN files' \subseteq Paths
      BY <2>3, <2>4 DEF KTypeOK
    <3>2. \A p \in DOMAIN files' : files'[p] \in [kid : 1..MaxKeys, whole : BOOLEAN]
      <4>1. [kid |-> making[c].kid, whole |-> FALSE] \in [kid : 1..MaxKeys, whole : BOOLEAN]
        BY <2>3
      <4>2. \A p \in DOMAIN files : files[p] \in [kid : 1..MaxKeys, whole : BOOLEAN]
        BY DEF KTypeOK
      <4> QED
        BY <2>4, <4>1, <4>2
    <3>3. looked' = looked
      BY DEF CreateFile
    <3>4. Stores'
      <4>1. Stores
        BY TypeParts
      <4>2. held' = held /\ made' = made /\ signed' = signed /\ overtaken' = overtaken
        BY <1>2
      <4> QED
        BY <3>1, <3>2, <3>3, <4>1, <4>2 DEF Stores
    <3> QED
      BY <2>2, <3>4, TypePartsNext
<1> QED
  BY <1>1, <1>2 DEF CreateFile

LEMMA WriteFileType ==
  ASSUME KTypeOK, NEW c \in Callers, WriteFile(c)
  PROVE  /\ KTypeOK' /\ DOMAIN files' = DOMAIN files
         /\ \A p \in DOMAIN files : files'[p].kid = files[p].kid
<1>1. "holding" \in Making /\ "writing" \in Making /\ stage[c] = "writing"
      /\ "holding" \in Working /\ "writing" \in Working /\ "holding" \in Stages
  BY DEF Making, Working, Stages, WriteFile
<1>2. Places'
  BY <1>1, GoesOn DEF GoesTo, WriteFile
<1>3. DOMAIN files' = DOMAIN files
      /\ \A p \in DOMAIN files : files'[p] = IF files[p].kid = making[c].kid
                                             THEN [files[p] EXCEPT !.whole = TRUE] ELSE files[p]
  BY DEF WriteFile
<1>4. \A p \in DOMAIN files : /\ files'[p] \in [kid : 1..MaxKeys, whole : BOOLEAN]
                              /\ files'[p].kid = files[p].kid
  BY <1>3 DEF KTypeOK
<1>5. KTypeOK'
  BY <1>2, <1>3, <1>4, TypePartsNext DEF WriteFile, KTypeOK, Stores
<1> QED
  BY <1>3, <1>4, <1>5

LEMMA HoldKeyType ==
  ASSUME KTypeOK, NEW c \in Callers, HoldKey(c)
  PROVE  KTypeOK'
<1> DEFINE p == PathOf(making[c])
           keys == held[StoreOf(c)]
<1>1. CASE ~(p \in DOMAIN files /\ files[p].whole)
  BY <1>1, FailsType DEF HoldKey
<1>2. CASE p \in DOMAIN files /\ files[p].whole
  <2>1. keys \in Seq(Key)
    BY StoreOfIs DEF KTypeOK
  <2>2. <<KeyIn(p)>> \o keys \in Seq(Key)
    BY <1>2, <2>1, KeyInFile, PutBefore
  <2>3. held' = [held EXCEPT ![StoreOf(c)] = <<KeyIn(p)>> \o keys]
        /\ overtaken' \in BOOLEAN
    BY <1>2 DEF HoldKey, Hold
  <2>4. held' \in [Openers -> Seq(Key)]
    BY <2>2, <2>3 DEF KTypeOK
  <2>5. c \in DOMAIN asked /\ asked[c] \in Asks \cup {Serve}
    BY DEF HoldKey, KTypeOK, Working, Making
  <2>6. Places' /\ signed' \subseteq 1..MaxKeys
    <3>1. CASE asked[c].does = "rotate"
      <4>1. Ends(c) /\ signed' = signed
        BY <1>2, <3>1 DEF HoldKey
      <4>2. Rest(c) \in {"unrun", "over", "down", "up"}
        BY StoreOfIs
      <4>3. Places'
        BY <4>1, <4>2, EndsPlaces DEF Ends, Leaves, GoesTo
      <4> QED
        BY <4>1, <4>3 DEF KTypeOK
    <3>2. CASE asked[c].does # "rotate"
      <4>1. GoOn(c, asked[c], <<KeyIn(p)>> \o keys)
        BY <1>2, <3>2 DEF HoldKey
      <4> QED
        BY <2>2, <2>5, <4>1, GoOnType
    <3> QED
      BY <3>1, <3>2
  <2>7. files' = files /\ looked' = looked /\ made' = made
    BY <1>2 DEF HoldKey
  <2> QED
    BY <2>3, <2>4, <2>6, <2>7, TypePartsNext DEF KTypeOK, Stores
<1> QED
  BY <1>1, <1>2

LEMMA RenameFileType ==
  ASSUME KTypeOK, NEW c \in Callers, RenameFile(c)
  PROVE  KTypeOK'
<1> DEFINE k == making[c]
<1>1. CASE Fails(c)
  BY <1>1, FailsType DEF RenameFile
<1>2. CASE /\ PathOf(k) \in DOMAIN files
           /\ files' = MapDelete(MapSet(files, PathOf(Retired(k)), files[PathOf(k)]), {PathOf(k)})
           /\ GoesTo(c, "renamed")
           /\ UNCHANGED <<held, asked, reading, making, made, signed, overtaken>>
  <2>1. "renaming" \in Retiring /\ "renamed" \in Retiring /\ stage[c] = "renaming"
        /\ "renaming" \in Working /\ "renamed" \in Working /\ "renamed" \in Stages
    BY DEF Retiring, Working, Stages, RenameFile
  <2>2. "renaming" # "reading" /\ "renamed" # "reading"
    OBVIOUS
  <2>3. Places'
    BY <1>2, <2>1, <2>2, GoesOn DEF GoesTo
  <2>4. PathOf(Retired(k)) \in Paths
    BY <2>1, InHand
  <2>5. /\ DOMAIN files' \subseteq DOMAIN files \cup {PathOf(Retired(k))}
        /\ \A p \in DOMAIN files' : files'[p] \in {files[p], files[PathOf(k)]}
                                  /\ (p = PathOf(Retired(k)) => files'[p] = files[PathOf(k)])
                                  /\ (p # PathOf(Retired(k)) => files'[p] = files[p])
    BY <1>2 DEF MapSet, MapDelete, Restrict
  <2> QED
    BY <1>2, <2>3, <2>4, <2>5, TypePartsNext DEF RenameFile, KTypeOK, Stores
<1> QED
  BY <1>1, <1>2 DEF RenameFile

LEMMA HoldRetiredType ==
  ASSUME KTypeOK, NEW c \in Callers, HoldRetired(c)
  PROVE  KTypeOK'
<1> DEFINE keys == held[StoreOf(c)]
           now == [i \in DOMAIN keys |->
                     IF keys[i].kid = making[c].kid THEN Retired(making[c]) ELSE keys[i]]
<1>1. keys \in Seq(Key) /\ Retired(making[c]) \in Key
  <2>1. stage[c] \in Retiring
    BY DEF HoldRetired, Retiring
  <2> QED
    BY <2>1, InHand, StoreOfIs DEF KTypeOK
<1>2. now \in Seq(Key)
  BY <1>1
<1>3. held' \in [Openers -> Seq(Key)]
  <2>1. held' = [held EXCEPT ![StoreOf(c)] = now]
    BY DEF HoldRetired, Hold
  <2> QED
    BY <1>2, <2>1 DEF KTypeOK
<1>4. Places'
  <2>1. Rest(c) \in {"unrun", "over", "down", "up"}
    BY StoreOfIs
  <2> QED
    BY <2>1, EndsPlaces DEF HoldRetired, Ends, Leaves, GoesTo
<1> QED
  BY <1>3, <1>4, TypePartsNext DEF HoldRetired, KTypeOK, Stores

LEMMA CrashType ==
  ASSUME KTypeOK, NEW s \in Openers, Crash(s)
  PROVE  KTypeOK'
<1> DEFINE dead == {c \in Callers : StoreOf(c) = s}
<1>1. /\ stage' \in [Callers -> Stages]
      /\ \A c \in dead : stage'[c] \in {"down", "unrun", "over"}
      /\ \A c \in Callers \ dead : stage'[c] = stage[c]
  <2>1. \A c \in Callers : stage'[c] = IF c \notin dead THEN stage[c]
                                     ELSE IF c = Server THEN "down"
                                     ELSE IF stage[c] = "unrun" THEN "unrun" ELSE "over"
    BY DEF Crash
  <2>2. stage \in [Callers -> Stages] /\ {"down", "unrun", "over"} \subseteq Stages
    BY DEF KTypeOK, Stages
  <2>3. DOMAIN stage' = Callers /\ stage' = [c \in Callers |-> stage'[c]]
    BY DEF Crash
  <2>4. \A c \in Callers : stage'[c] \in Stages
    BY <2>1, <2>2
  <2> QED
    BY <2>1, <2>3, <2>4
<1>2. /\ DOMAIN asked' = DOMAIN asked \ dead /\ \A c \in DOMAIN asked' : asked'[c] = asked[c]
      /\ DOMAIN reading' = DOMAIN reading \ dead
      /\ \A c \in DOMAIN reading' : reading'[c] = reading[c]
      /\ DOMAIN making' = DOMAIN making \ dead
      /\ \A c \in DOMAIN making' : making'[c] = making[c]
  BY DEF Crash, MapDelete, Restrict
<1>3. \A place \in {"down", "unrun", "over"} :
        place \notin Working /\ place # "reading" /\ place \notin Making \cup Retiring
  BY DEF Working, Loading, Making, Retiring
<1>4. /\ DOMAIN asked' = {c \in Callers : stage'[c] \in Working}
      /\ DOMAIN reading' = {c \in Callers : stage'[c] = "reading"}
      /\ DOMAIN making' = {c \in Callers : stage'[c] \in Making \cup Retiring}
  <2>1. /\ DOMAIN asked = {c \in Callers : stage[c] \in Working}
        /\ DOMAIN reading = {c \in Callers : stage[c] = "reading"}
        /\ DOMAIN making = {c \in Callers : stage[c] \in Making \cup Retiring}
    BY DEF KTypeOK
  <2> HIDE DEF dead
  <2> QED
    BY <1>1, <1>2, <1>3, <2>1
<1>5. Places'
  <2>1. \A c \in DOMAIN asked' : asked'[c] \in Asks \cup {Serve}
    BY <1>2 DEF KTypeOK
  <2>2. \A c \in DOMAIN reading' : reading'[c] \in [left : SUBSET Paths, got : Seq(Key)]
    BY <1>2 DEF KTypeOK
  <2>3. \A c \in DOMAIN making' : making'[c] \in Key /\ ~making'[c].retired
    BY <1>2 DEF KTypeOK
  <2> QED
    BY <1>1, <1>4, <2>1, <2>2, <2>3 DEF Places, Stages
<1>6. Stores'
  <2>1. held' = [held EXCEPT ![s] = <<>>] /\ looked' \in BOOLEAN
        /\ UNCHANGED <<files, made, signed, overtaken>>
    BY DEF Crash, KTypeOK
  <2>2. held' \in [Openers -> Seq(Key)]
    BY <2>1 DEF KTypeOK
  <2> QED
    BY <2>1, <2>2 DEF KTypeOK, Stores
<1> QED
  BY <1>5, <1>6, TypePartsNext

LEMMA TypeStep == KTypeOK /\ [KNext]_kvars => KTypeOK'
<1> SUFFICES ASSUME KTypeOK, [KNext]_kvars
             PROVE  KTypeOK'
  OBVIOUS
<1>1. ASSUME NEW c \in Openers, Crash(c)
      PROVE  KTypeOK'
  BY <1>1, CrashType
<1>2. ASSUME NEW c \in Openers, NEW ask \in Asking(c), Open(c, ask)
      PROVE  KTypeOK'
  BY <1>2, OpenType
<1>3. ASSUME NEW h \in Handlers, NEW ask \in Does[h], Call(h, ask)
      PROVE  KTypeOK'
  BY <1>3, CallType
<1>4. ASSUME NEW c \in Callers,
             \/ List(c) \/ ReadKey(c) \/ Loaded(c)
             \/ Generate(c) \/ CreateFile(c) \/ WriteFile(c) \/ HoldKey(c)
             \/ RenameFile(c) \/ HoldRetired(c)
      PROVE  KTypeOK'
  BY <1>4, ListType, ReadKeyType, LoadedType, GenerateType, CreateFileType, WriteFileType,
     HoldKeyType, RenameFileType, HoldRetiredType, Zenon
<1>5. CASE Elapse
  BY <1>5 DEF Elapse, bound, KTypeOK
<1>6. CASE UNCHANGED kvars
  BY <1>6 DEF kvars, bound, KTypeOK
<1> QED
  BY <1>1, <1>2, <1>3, <1>4, <1>5, <1>6 DEF KNext

LEMMA KTypeInit == KInit => KTypeOK
<1> SUFFICES ASSUME KInit
             PROVE  KTypeOK
  OBVIOUS
<1>1. stage \in [Callers -> {"unrun", "down"}]
  BY DEF KInit
<1>2. \A c \in Callers :
        stage[c] \notin Working /\ stage[c] # "reading" /\ stage[c] \notin Making \cup Retiring
  BY <1>1 DEF Working, Loading, Making, Retiring
<1>3. DOMAIN files = {} /\ DOMAIN asked = {} /\ DOMAIN reading = {} /\ DOMAIN making = {}
  BY DEF KInit
<1>4. held \in [Openers -> Seq(Key)] /\ made \in 0..MaxKeys
  BY KeysAssumption DEF KInit
<1> QED
  BY <1>1, <1>2, <1>3, <1>4 DEF KInit, KTypeOK

\* What every process holds, reads and has in hand is well formed.
THEOREM KTypeCorrect == KSpec => []KTypeOK
  BY KTypeInit, TypeStep, PTL DEF KSpec

-----------------------------------------------------------------------------
(* Published keys are kept.                                                *)

\* A file is made where there is none, and renamed by the serial it has.
THEOREM KeysAreNotReplaced == KSpec => PublishedAreKept
<1> DEFINE Kept == \A p \in DOMAIN files : ~p[2] =>
                     \/ p \in DOMAIN files' /\ files'[p].kid = files[p].kid
                     \/ <<p[1], TRUE>> \in DOMAIN files' /\ files'[<<p[1], TRUE>>].kid = files[p].kid
<1>1. ASSUME KTypeOK, [KNext]_kvars
      PROVE  [Kept]_files
  <2>1. ASSUME NEW c \in Callers, CreateFile(c)
        PROVE  [Kept]_files
    BY <2>1 DEF CreateFile, Fails, Leaves, MapSet
  <2>2. ASSUME NEW c \in Callers, WriteFile(c)
        PROVE  [Kept]_files
    BY <1>1, <2>2, WriteFileType
  <2>3. ASSUME NEW c \in Callers, RenameFile(c)
        PROVE  [Kept]_files
    <3> DEFINE k == making[c]
    <3>1. CASE Fails(c)
      BY <3>1 DEF Fails, Leaves
    <3>2. CASE files' = MapDelete(MapSet(files, PathOf(Retired(k)), files[PathOf(k)]), {PathOf(k)})
               /\ PathOf(k) \in DOMAIN files
      <4>1. stage[c] \in Making \cup Retiring
        BY <2>3 DEF RenameFile, Retiring
      <4>2. PathOf(k) = <<k.serial, FALSE>> /\ PathOf(Retired(k)) = <<k.serial, TRUE>>
        BY <1>1, <4>1, InHand
      <4> DEFINE path == <<k.serial, FALSE>>
                 other == <<k.serial, TRUE>>
      <4>3. path # other /\ path[2] = FALSE /\ other[2] = TRUE /\ path[1] = k.serial
        OBVIOUS
      <4> HIDE DEF path, other
      <4>4. files' = MapDelete(MapSet(files, other, files[path]), {path}) /\ path \in DOMAIN files
        BY <3>2, <4>2 DEF path, other
      <4>5. /\ DOMAIN files' = (DOMAIN files \cup {other}) \ {path}
            /\ files'[other] = files[path]
            /\ \A p \in DOMAIN files : p # other /\ p # path => files'[p] = files[p]
        BY <4>3, <4>4 DEF MapSet, MapDelete, Restrict
      <4>6. ASSUME NEW p \in DOMAIN files, ~p[2], p # path
            PROVE  p \in DOMAIN files' /\ files'[p].kid = files[p].kid
        BY <4>3, <4>5, <4>6
      <4>7. <<path[1], TRUE>> \in DOMAIN files' /\ files'[<<path[1], TRUE>>].kid = files[path].kid
        BY <4>3, <4>5 DEF other
      <4> QED
        BY <4>6, <4>7
    <3> QED
      BY <2>3, <3>1, <3>2 DEF RenameFile
  <2>4. CASE UNCHANGED files
    BY <2>4
  <2> QED
    BY <1>1, <2>1, <2>2, <2>3, <2>4
    DEF KNext, kvars, Open, Call, List, ReadKey, Fails, Leaves, Loaded, Generate, HoldKey, HoldRetired,
        Crash, Elapse
<1> QED
  BY <1>1, KTypeCorrect, PTL DEF KSpec, PublishedAreKept

-----------------------------------------------------------------------------
(* The inductive invariant of what may be retired.                         *)

\* A file of a higher serial is there.
Newer(fs, serial) == \E q \in DOMAIN fs : q[1] > serial

\* What is known of a key is outdated, or is so.
Known(fs, k) ==
  \/ Newer(fs, k.serial)
  \/ /\ ~k.retired /\ <<k.serial, FALSE>> \in DOMAIN fs
     /\ fs[<<k.serial, FALSE>>].kid = k.kid

\* Keys that are known, the newest first.
InOrder(fs, keys) ==
  /\ \A i \in DOMAIN keys : Known(fs, keys[i])
  /\ \A i, j \in DOMAIN keys : i < j => keys[i].serial >= keys[j].serial

\* So are the keys of a load, and none that is left to read is older.
LoadInOrder(fs, load) ==
  /\ InOrder(fs, load.got)
  /\ \A p \in load.left : \A i \in DOMAIN load.got : p[1] >= load.got[i].serial

\* A kid and its serial, wherever the two are written down.
NamesOf(keys) == {<<keys[i].kid, keys[i].serial>> : i \in DOMAIN keys}
FileNames == {<<files[p].kid, p[1]>> : p \in DOMAIN files}
HeldNames == UNION {NamesOf(held[s]) : s \in Openers}
ReadNames == UNION {NamesOf(reading[c].got) : c \in DOMAIN reading}
MadeNames == {<<making[c].kid, making[c].serial>> : c \in DOMAIN making}
Names == FileNames \cup HeldNames \cup ReadNames \cup MadeNames

\* A kid has been given out, and goes with one serial.
OneSerial == \A m, n \in Names : m[1] <= made /\ (m[1] = n[1] => m[2] = n[2])

\* Stores and loads are in order; what is being retired is not the newest.
StoresAreRight ==
  /\ \A s \in Openers : InOrder(files, held[s])
  /\ \A c \in DOMAIN reading : LoadInOrder(files, reading[c])
  /\ \A c \in DOMAIN making : stage[c] \in Retiring => Newer(files, making[c].serial)

IInv == KTypeOK /\ OneSerial /\ NewestIsPublished /\ (~overtaken => StoresAreRight)

-----------------------------------------------------------------------------
(* A kid goes with one serial.                                             *)

\* Every place a name is written down is one of Names, and there is no other.
LEMMA NamesHas ==
  /\ \A p \in DOMAIN files : <<files[p].kid, p[1]>> \in Names
  /\ \A s \in Openers : NamesOf(held[s]) \subseteq Names
  /\ \A c \in DOMAIN reading : NamesOf(reading[c].got) \subseteq Names
  /\ \A c \in DOMAIN making : <<making[c].kid, making[c].serial>> \in Names
<1>1. \A p \in DOMAIN files : <<files[p].kid, p[1]>> \in FileNames
  BY DEF FileNames
<1>2. ASSUME NEW s \in Openers
      PROVE  NamesOf(held[s]) \subseteq HeldNames
  <2>1. NamesOf(held[s]) \in {NamesOf(held[t]) : t \in Openers}
    OBVIOUS
  <2> QED
    BY <2>1 DEF HeldNames
<1>3. ASSUME NEW c \in DOMAIN reading
      PROVE  NamesOf(reading[c].got) \subseteq ReadNames
  <2>1. NamesOf(reading[c].got) \in {NamesOf(reading[d].got) : d \in DOMAIN reading}
    OBVIOUS
  <2> QED
    BY <2>1 DEF ReadNames
<1>4. \A c \in DOMAIN making : <<making[c].kid, making[c].serial>> \in MadeNames
  BY DEF MadeNames
<1> QED
  BY <1>1, <1>2, <1>3, <1>4 DEF Names

LEMMA NamesWithin ==
  ASSUME NEW N,
         \A p \in DOMAIN files' : <<files'[p].kid, p[1]>> \in N,
         \A s \in Openers : NamesOf(held'[s]) \subseteq N,
         \A c \in DOMAIN reading' : NamesOf(reading'[c].got) \subseteq N,
         \A c \in DOMAIN making' : <<making'[c].kid, making'[c].serial>> \in N
  PROVE  Names' \subseteq N
<1>1. FileNames' \subseteq N
  BY DEF FileNames
<1>2. HeldNames' \subseteq N
  <2>1. ASSUME NEW s \in Openers
        PROVE  NamesOf(held[s])' \subseteq N
    BY DEF NamesOf
  <2> QED
    BY <2>1 DEF HeldNames
<1>3. ReadNames' \subseteq N
  <2>1. ASSUME NEW c \in DOMAIN reading'
        PROVE  NamesOf(reading[c].got)' \subseteq N
    BY DEF NamesOf
  <2> QED
    BY <2>1 DEF ReadNames
<1>4. MadeNames' \subseteq N
  BY DEF MadeNames
<1> QED
  BY <1>1, <1>2, <1>3, <1>4 DEF Names

\* The names of a key put before others.
LEMMA NamesBefore ==
  ASSUME NEW k \in Key, NEW keys \in Seq(Key), NEW N,
         <<k.kid, k.serial>> \in N, NamesOf(keys) \subseteq N
  PROVE  NamesOf(<<k>> \o keys) \subseteq N
<1>1. ASSUME NEW i \in DOMAIN (<<k>> \o keys)
      PROVE  <<(<<k>> \o keys)[i].kid, (<<k>> \o keys)[i].serial>> \in N
  <2>1. CASE i = 1
    BY <2>1, PutBefore
  <2>2. CASE i # 1
    <3>1. i - 1 \in DOMAIN keys /\ (<<k>> \o keys)[i] = keys[i - 1]
      BY <2>2, PutBefore
    <3> QED
      BY <3>1 DEF NamesOf
  <2> QED
    BY <2>1, <2>2
<1> QED
  BY <1>1 DEF NamesOf

\* A kid is a number.
LEMMA NamesTyped ==
  ASSUME KTypeOK
  PROVE  \A m \in Names : m[1] \in Nat
<1>1. \A m \in FileNames : m[1] \in Nat
  BY DEF FileNames, KTypeOK
<1>2. ASSUME NEW keys \in Seq(Key)
      PROVE  \A m \in NamesOf(keys) : m[1] \in Nat
  <2>1. \A i \in DOMAIN keys : keys[i] \in Key
    OBVIOUS
  <2>2. \A k \in Key : k.kid \in Nat
    BY DEF Key
  <2> QED
    BY <2>1, <2>2 DEF NamesOf
<1>3. \A m \in HeldNames : m[1] \in Nat
  <2>1. \A s \in Openers : \A m \in NamesOf(held[s]) : m[1] \in Nat
    BY <1>2 DEF KTypeOK
  <2> QED
    BY <2>1 DEF HeldNames
<1>4. \A m \in ReadNames : m[1] \in Nat
  <2>1. \A c \in DOMAIN reading : \A m \in NamesOf(reading[c].got) : m[1] \in Nat
    BY <1>2 DEF KTypeOK
  <2> QED
    BY <2>1 DEF ReadNames
<1>5. \A m \in MadeNames : m[1] \in Nat
  BY DEF MadeNames, KTypeOK, Key
<1> QED
  BY <1>1, <1>3, <1>4, <1>5 DEF Names

\* What a caller goes on with has a name already.
LEMMA GoOnNames ==
  ASSUME KTypeOK, NEW c \in Callers, NEW ask, NEW keys \in Seq(Key), GoOn(c, ask, keys),
         NamesOf(keys) \subseteq Names
  PROVE  /\ \A d \in DOMAIN reading' : d \in DOMAIN reading /\ reading'[d] = reading[d]
         /\ \A d \in DOMAIN making' : <<making'[d].kid, making'[d].serial>> \in Names
<1>1. /\ reading' = MapDelete(reading, {c})
      /\ \/ making' = MapDelete(making, {c})
         \/ \E i \in DOMAIN keys : making' = MapSet(making, c, keys[i])
  BY DEF GoOn, Ends, Leaves, Becomes
<1>2. \A d \in DOMAIN reading' : d \in DOMAIN reading /\ reading'[d] = reading[d]
  BY <1>1 DEF MapDelete, Restrict
<1>3. CASE making' = MapDelete(making, {c})
  <2>1. \A d \in DOMAIN making' : d \in DOMAIN making /\ making'[d] = making[d]
    BY <1>3 DEF MapDelete, Restrict
  <2> QED
    BY <1>2, <2>1, NamesHas
<1>4. ASSUME NEW i \in DOMAIN keys, making' = MapSet(making, c, keys[i])
      PROVE  \A d \in DOMAIN making' : <<making'[d].kid, making'[d].serial>> \in Names
  <2>1. \A d \in DOMAIN making' : \/ d = c /\ making'[d] = keys[i]
                                  \/ d \in DOMAIN making /\ making'[d] = making[d]
    BY <1>4 DEF MapSet
  <2>2. <<keys[i].kid, keys[i].serial>> \in Names
    BY DEF NamesOf
  <2> QED
    BY <2>1, <2>2, NamesHas
<1> QED
  BY <1>1, <1>2, <1>3, <1>4

LEMMA LoadedNames ==
  ASSUME KTypeOK, NEW c \in Callers, Loaded(c)
  PROVE  Names' \subseteq Names
<1>1. c \in DOMAIN reading /\ reading[c].got \in Seq(Key)
  BY DEF Loaded, KTypeOK
<1>2. NamesOf(reading[c].got) \subseteq Names
  BY <1>1, NamesHas
<1>3. \A s \in Openers : NamesOf(held'[s]) \subseteq Names
  <2>1. \A s \in Openers : held'[s] \in {held[s], reading[c].got}
    BY StoreOfIs DEF Loaded, Hold, KTypeOK
  <2> QED
    BY <1>2, <2>1, NamesHas
<1>4. /\ \A d \in DOMAIN reading' : d \in DOMAIN reading /\ reading'[d] = reading[d]
      /\ \A d \in DOMAIN making' : <<making'[d].kid, making'[d].serial>> \in Names
  <2>1. CASE GoOn(c, asked[c], reading[c].got)
    BY <1>1, <1>2, <2>1, GoOnNames
  <2>2. CASE Becomes(c, asked[c], "generating") /\ UNCHANGED <<making, signed>>
    BY <2>2, NamesHas DEF Becomes, MapDelete, Restrict
  <2> QED
    BY <2>1, <2>2 DEF Loaded
<1>5. \A d \in DOMAIN reading' : NamesOf(reading'[d].got) \subseteq Names
  BY <1>4, NamesHas
<1>6. \A p \in DOMAIN files' : <<files'[p].kid, p[1]>> \in Names
  BY NamesHas DEF Loaded
<1> QED
  BY <1>3, <1>4, <1>5, <1>6, NamesWithin

LEMMA CallNames ==
  ASSUME KTypeOK, NEW h \in Handlers, NEW ask \in Does[h], Call(h, ask)
  PROVE  Names' \subseteq Names
<1>1. h \in Callers /\ Server \in Openers
  BY DEF Callers, Openers
<1>2. files' = files /\ held' = held
  BY DEF Call
<1>3. /\ \A d \in DOMAIN reading' : d \in DOMAIN reading /\ reading'[d] = reading[d]
      /\ \A d \in DOMAIN making' : <<making'[d].kid, making'[d].serial>> \in Names
  <2>1. CASE GoOn(h, ask, held[Server])
    <3>1. held[Server] \in Seq(Key) /\ NamesOf(held[Server]) \subseteq Names
      BY <1>1, NamesHas DEF KTypeOK
    <3> QED
      BY <1>1, <2>1, <3>1, GoOnNames
  <2>2. CASE UNCHANGED <<reading, making, signed>>
    BY <2>2, NamesHas
  <2> QED
    BY <2>1, <2>2 DEF Call
<1>4. \A d \in DOMAIN reading' : NamesOf(reading'[d].got) \subseteq Names
  BY <1>3, NamesHas
<1> QED
  BY <1>2, <1>3, <1>4, NamesHas, NamesWithin

LEMMA HoldKeyNames ==
  ASSUME KTypeOK, NEW c \in Callers, HoldKey(c)
  PROVE  Names' \subseteq Names
<1> DEFINE p == PathOf(making[c])
           keys == held[StoreOf(c)]
<1>1. CASE Fails(c)
  <2>1. /\ files' = files /\ held' = held
        /\ \A d \in DOMAIN reading' : d \in DOMAIN reading /\ reading'[d] = reading[d]
        /\ \A d \in DOMAIN making' : d \in DOMAIN making /\ making'[d] = making[d]
    BY <1>1 DEF Fails, Leaves, MapDelete, Restrict
  <2> QED
    BY <2>1, NamesHas, NamesWithin
<1>2. CASE p \in DOMAIN files /\ files[p].whole
  <2>1. keys \in Seq(Key) /\ KeyIn(p) \in Key /\ <<KeyIn(p)>> \o keys \in Seq(Key)
    BY <1>2, StoreOfIs, KeyInFile, PutBefore DEF KTypeOK
  <2>2. NamesOf(<<KeyIn(p)>> \o keys) \subseteq Names
    <3>1. <<KeyIn(p).kid, KeyIn(p).serial>> \in Names
      BY <1>2, NamesHas DEF KeyIn
    <3>2. NamesOf(keys) \subseteq Names
      BY StoreOfIs, NamesHas
    <3> QED
      BY <2>1, <3>1, <3>2, NamesBefore
  <2>3. held' = [held EXCEPT ![StoreOf(c)] = <<KeyIn(p)>> \o keys] /\ files' = files
    BY <1>2 DEF HoldKey, Hold
  <2>4. \A s \in Openers : NamesOf(held'[s]) \subseteq Names
    <3>1. \A s \in Openers : held'[s] \in {held[s], <<KeyIn(p)>> \o keys}
      BY <2>3 DEF KTypeOK
    <3> QED
      BY <2>2, <3>1, NamesHas
  <2>5. /\ \A d \in DOMAIN reading' : d \in DOMAIN reading /\ reading'[d] = reading[d]
        /\ \A d \in DOMAIN making' : <<making'[d].kid, making'[d].serial>> \in Names
    <3>1. CASE Ends(c)
      <4>1. /\ \A d \in DOMAIN reading' : d \in DOMAIN reading /\ reading'[d] = reading[d]
            /\ \A d \in DOMAIN making' : d \in DOMAIN making /\ making'[d] = making[d]
        BY <3>1 DEF Ends, Leaves, MapDelete, Restrict
      <4> QED
        BY <4>1, NamesHas
    <3>2. CASE GoOn(c, asked[c], <<KeyIn(p)>> \o keys)
      BY <2>1, <2>2, <3>2, GoOnNames
    <3> QED
      BY <1>2, <3>1, <3>2 DEF HoldKey
  <2>6. \A d \in DOMAIN reading' : NamesOf(reading'[d].got) \subseteq Names
    BY <2>5, NamesHas
  <2> QED
    BY <2>3, <2>4, <2>5, <2>6, NamesHas, NamesWithin
<1> QED
  BY <1>1, <1>2 DEF HoldKey

\* What stays as it was, or goes.
LEMMA LessNames ==
  ASSUME \A p \in DOMAIN files' : <<files'[p].kid, p[1]>> \in Names,
         \A s \in Openers : NamesOf(held'[s]) \subseteq Names,
         \A d \in DOMAIN reading' : d \in DOMAIN reading /\ reading'[d] = reading[d],
         \A d \in DOMAIN making' : d \in DOMAIN making /\ making'[d] = making[d]
  PROVE  Names' \subseteq Names
<1>1. \A d \in DOMAIN reading' : NamesOf(reading'[d].got) \subseteq Names
  BY NamesHas
<1>2. \A d \in DOMAIN making' : <<making'[d].kid, making'[d].serial>> \in Names
  BY NamesHas
<1> QED
  BY <1>1, <1>2, NamesWithin

LEMMA FailsNames ==
  ASSUME NEW c \in Callers, Fails(c)
  PROVE  Names' \subseteq Names
<1>1. /\ files' = files /\ held' = held
      /\ \A d \in DOMAIN reading' : d \in DOMAIN reading /\ reading'[d] = reading[d]
      /\ \A d \in DOMAIN making' : d \in DOMAIN making /\ making'[d] = making[d]
  BY DEF Fails, Leaves, MapDelete, Restrict
<1> QED
  BY <1>1, NamesHas, LessNames

LEMMA ReadingNames ==
  ASSUME KTypeOK, NEW c \in Callers, List(c) \/ ReadKey(c)
  PROVE  Names' \subseteq Names
<1>1. CASE List(c)
  <2>1. /\ files' = files /\ held' = held /\ making' = making
        /\ \A d \in DOMAIN reading' : \/ d \in DOMAIN reading /\ reading'[d] = reading[d]
                                      \/ reading'[d].got = <<>>
    BY <1>1 DEF List, MapSet
  <2>2. NamesOf(<<>>) = {}
    BY DEF NamesOf
  <2>3. \A d \in DOMAIN reading' : NamesOf(reading'[d].got) \subseteq Names
    BY <2>1, <2>2, NamesHas
  <2> QED
    BY <2>1, <2>3, NamesHas, NamesWithin
<1>2. CASE ReadKey(c)
  <2>1. CASE Fails(c)
    BY <2>1, FailsNames
  <2>2. ASSUME NEW p \in reading[c].left, p \in DOMAIN files, c \in DOMAIN reading,
               reading' = [reading EXCEPT ![c] = [left |-> @.left \ {p},
                                                 got |-> <<KeyIn(p)>> \o @.got]],
               UNCHANGED <<files, held, making>>
        PROVE  Names' \subseteq Names
    <3>1. reading[c].got \in Seq(Key) /\ KeyIn(p) \in Key
      BY <2>2, KeyInFile DEF KTypeOK
    <3>2. <<KeyIn(p).kid, KeyIn(p).serial>> \in Names
      BY <2>2, NamesHas DEF KeyIn
    <3>3. NamesOf(reading[c].got) \subseteq Names
      BY <2>2, NamesHas
    <3>4. NamesOf(<<KeyIn(p)>> \o reading[c].got) \subseteq Names
      BY <3>1, <3>2, <3>3, NamesBefore
    <3>5. \A d \in DOMAIN reading' : \/ d \in DOMAIN reading /\ reading'[d] = reading[d]
                                    \/ reading'[d].got = <<KeyIn(p)>> \o reading[c].got
      BY <2>2
    <3>6. \A d \in DOMAIN reading' : NamesOf(reading'[d].got) \subseteq Names
      BY <3>4, <3>5, NamesHas
    <3> QED
      BY <2>2, <3>6, NamesHas, NamesWithin
  <2>3. c \in DOMAIN reading
    BY <1>2 DEF ReadKey, KTypeOK
  <2> QED
    BY <1>2, <2>1, <2>2, <2>3 DEF ReadKey
<1> QED
  BY <1>1, <1>2

LEMMA MakingNames ==
  ASSUME KTypeOK, NEW c \in Callers, CreateFile(c) \/ WriteFile(c)
  PROVE  Names' \subseteq Names
<1>1. CASE CreateFile(c)
  <2>1. CASE Fails(c)
    BY <2>1, FailsNames
  <2>2. CASE /\ files' = MapSet(files, PathOf(making[c]), [kid |-> making[c].kid, whole |-> FALSE])
             /\ UNCHANGED <<held, reading, making>>
    <3>1. stage[c] \in Making \cup Retiring
      BY <1>1 DEF CreateFile, Making
    <3>2. c \in DOMAIN making /\ PathOf(making[c]) = <<making[c].serial, FALSE>>
      BY <3>1, InHand
    <3> DEFINE path == <<making[c].serial, FALSE>>
               key == [kid |-> making[c].kid, whole |-> FALSE]
    <3>3. path[1] = making[c].serial /\ key.kid = making[c].kid
      OBVIOUS
    <3> HIDE DEF path, key
    <3>4. files' = MapSet(files, path, key)
      BY <2>2, <3>2 DEF path, key
    <3>5. \A p \in DOMAIN files' : (p \in DOMAIN files /\ files'[p] = files[p])
                                  \/ (p = path /\ files'[p] = key)
      BY <3>4 DEF MapSet
    <3>6. <<key.kid, path[1]>> \in Names
      BY <3>2, <3>3, NamesHas
    <3>7. \A p \in DOMAIN files' : <<files'[p].kid, p[1]>> \in Names
      BY <3>5, <3>6, NamesHas
    <3> QED
      BY <2>2, <3>7, NamesHas, LessNames
  <2> QED
    BY <1>1, <2>1, <2>2 DEF CreateFile
<1>2. CASE WriteFile(c)
  <2>1. \A p \in DOMAIN files' : p \in DOMAIN files /\ files'[p].kid = files[p].kid
    BY <1>2, WriteFileType
  <2>2. held' = held /\ reading' = reading /\ making' = making
    BY <1>2 DEF WriteFile
  <2> QED
    BY <2>1, <2>2, NamesHas, LessNames
<1> QED
  BY <1>1, <1>2

\* What is renamed is the same key under another name of its serial.
LEMMA RenamedFiles ==
  ASSUME KTypeOK, NEW c \in Callers, RenameFile(c), ~Fails(c)
  PROVE  /\ stage[c] = "renaming" /\ c \in DOMAIN making
         /\ <<making[c].serial, FALSE>> \in DOMAIN files
         /\ DOMAIN files' = (DOMAIN files \cup {<<making[c].serial, TRUE>>})
                             \ {<<making[c].serial, FALSE>>}
         /\ files'[<<making[c].serial, TRUE>>] = files[<<making[c].serial, FALSE>>]
         /\ \A p \in DOMAIN files : p # <<making[c].serial, TRUE>> /\ p # <<making[c].serial, FALSE>>
                                   => files'[p] = files[p]
         /\ stage' = [stage EXCEPT ![c] = "renamed"]
         /\ UNCHANGED <<held, reading, making, made, overtaken>>
<1> DEFINE k == making[c]
<1>1. /\ stage[c] = "renaming" /\ PathOf(k) \in DOMAIN files
      /\ files' = MapDelete(MapSet(files, PathOf(Retired(k)), files[PathOf(k)]), {PathOf(k)})
      /\ GoesTo(c, "renamed")
      /\ UNCHANGED <<held, asked, reading, making, made, signed, overtaken>>
  BY DEF RenameFile
<1>2. c \in DOMAIN making /\ PathOf(k) = <<k.serial, FALSE>> /\ PathOf(Retired(k)) = <<k.serial, TRUE>>
  BY <1>1, InHand DEF Retiring
<1> DEFINE path == <<k.serial, FALSE>>
           other == <<k.serial, TRUE>>
<1>3. path # other
  OBVIOUS
<1> HIDE DEF path, other
<1>4. files' = MapDelete(MapSet(files, other, files[path]), {path}) /\ path \in DOMAIN files
  BY <1>1, <1>2 DEF path, other
<1>5. /\ DOMAIN files' = (DOMAIN files \cup {other}) \ {path}
      /\ files'[other] = files[path]
      /\ \A p \in DOMAIN files : p # other /\ p # path => files'[p] = files[p]
  BY <1>3, <1>4 DEF MapSet, MapDelete, Restrict
<1> QED
  BY <1>1, <1>2, <1>4, <1>5 DEF path, other, GoesTo

LEMMA RetiringNames ==
  ASSUME KTypeOK, NEW c \in Callers, RenameFile(c) \/ HoldRetired(c)
  PROVE  Names' \subseteq Names
<1>1. CASE RenameFile(c) /\ Fails(c)
  BY <1>1, FailsNames
<1>2. CASE RenameFile(c) /\ ~Fails(c)
  <2>1. \A p \in DOMAIN files' :
          \/ p \in DOMAIN files /\ files'[p] = files[p]
          \/ /\ p = <<making[c].serial, TRUE>> /\ <<making[c].serial, FALSE>> \in DOMAIN files
             /\ files'[p] = files[<<making[c].serial, FALSE>>]
    BY <1>2, RenamedFiles
  <2>2. \A p \in DOMAIN files' : <<files'[p].kid, p[1]>> \in Names
    <3>1. ASSUME NEW p \in DOMAIN files', p = <<making[c].serial, TRUE>>,
                 <<making[c].serial, FALSE>> \in DOMAIN files,
                 files'[p] = files[<<making[c].serial, FALSE>>]
          PROVE  <<files'[p].kid, p[1]>> \in Names
      <4>1. p[1] = making[c].serial /\ <<making[c].serial, FALSE>>[1] = making[c].serial
        BY <3>1
      <4>2. <<files[<<making[c].serial, FALSE>>].kid, <<making[c].serial, FALSE>>[1]>> \in Names
        BY <3>1, NamesHas
      <4> QED
        BY <3>1, <4>1, <4>2
    <3> QED
      BY <2>1, <3>1, NamesHas
  <2>3. held' = held /\ reading' = reading /\ making' = making
    BY <1>2, RenamedFiles
  <2> QED
    BY <2>2, <2>3, NamesHas, LessNames
<1>3. CASE HoldRetired(c)
  <2> DEFINE keys == held[StoreOf(c)]
             now == [i \in DOMAIN keys |->
                       IF keys[i].kid = making[c].kid THEN Retired(making[c]) ELSE keys[i]]
  <2>1. stage[c] \in Making \cup Retiring
    BY <1>3 DEF HoldRetired, Retiring
  <2>2. /\ c \in DOMAIN making /\ Retired(making[c]).serial = making[c].serial
        /\ Retired(making[c]).kid = making[c].kid
    BY <2>1, InHand
  <2>3. \A i \in DOMAIN now : <<now[i].kid, now[i].serial>> \in Names
    <3>1. \A i \in DOMAIN keys : <<keys[i].kid, keys[i].serial>> \in Names
      BY StoreOfIs, NamesHas DEF NamesOf
    <3> QED
      BY <2>2, <3>1, NamesHas
  <2>4. NamesOf(now) \subseteq Names
    BY <2>3 DEF NamesOf
  <2>5. held' = [held EXCEPT ![StoreOf(c)] = now] /\ files' = files
    BY <1>3 DEF HoldRetired, Hold
  <2> HIDE DEF now
  <2>6. \A s \in Openers : held'[s] \in {held[s], now}
    BY <2>5 DEF KTypeOK
  <2>7. \A s \in Openers : NamesOf(held'[s]) \subseteq Names
    BY <2>4, <2>6, NamesHas
  <2>8. /\ \A d \in DOMAIN reading' : d \in DOMAIN reading /\ reading'[d] = reading[d]
        /\ \A d \in DOMAIN making' : d \in DOMAIN making /\ making'[d] = making[d]
    BY <1>3 DEF HoldRetired, Ends, Leaves, MapDelete, Restrict
  <2> QED
    BY <2>5, <2>7, <2>8, NamesHas, LessNames
<1> QED
  BY <1>1, <1>2, <1>3

\* No step but Generate gives out a name.
LEMMA NamesStay ==
  ASSUME KTypeOK, [KNext]_kvars, \A c \in Callers : ~Generate(c)
  PROVE  Names' \subseteq Names /\ made' = made
<1>1. ASSUME NEW c \in Openers, Crash(c)
      PROVE  Names' \subseteq Names
  <2>1. /\ files' = files /\ held' = [held EXCEPT ![c] = <<>>]
        /\ \A d \in DOMAIN reading' : d \in DOMAIN reading /\ reading'[d] = reading[d]
        /\ \A d \in DOMAIN making' : d \in DOMAIN making /\ making'[d] = making[d]
    BY <1>1 DEF Crash, MapDelete, Restrict
  <2>2. NamesOf(<<>>) = {}
    BY DEF NamesOf
  <2>3. \A s \in Openers : held'[s] \in {held[s], <<>>}
    BY <2>1 DEF KTypeOK
  <2>4. \A s \in Openers : NamesOf(held'[s]) \subseteq Names
    BY <2>2, <2>3, NamesHas
  <2> QED
    BY <2>1, <2>4, NamesHas, LessNames
<1>2. ASSUME NEW c \in Callers,
             \/ List(c) \/ ReadKey(c) \/ Loaded(c) \/ CreateFile(c) \/ WriteFile(c)
             \/ HoldKey(c) \/ RenameFile(c) \/ HoldRetired(c)
      PROVE  Names' \subseteq Names
  BY <1>2, ReadingNames, LoadedNames, MakingNames, HoldKeyNames, RetiringNames, Zenon
<1>3. ASSUME NEW h \in Handlers, NEW ask \in Does[h], Call(h, ask)
      PROVE  Names' \subseteq Names
  BY <1>3, CallNames
<1>4. ASSUME UNCHANGED <<files, held, reading, making>>
      PROVE  Names' \subseteq Names
  <2>1. files' = files /\ held' = held /\ reading' = reading /\ making' = making
    BY <1>4
  <2>2. /\ \A p \in DOMAIN files' : <<files'[p].kid, p[1]>> \in Names
        /\ \A s \in Openers : NamesOf(held'[s]) \subseteq Names
    BY <2>1, NamesHas
  <2>3. /\ \A d \in DOMAIN reading' : d \in DOMAIN reading /\ reading'[d] = reading[d]
        /\ \A d \in DOMAIN making' : d \in DOMAIN making /\ making'[d] = making[d]
    BY <2>1
  <2> QED
    BY <2>2, <2>3, LessNames
<1>5. Names' \subseteq Names
  BY <1>1, <1>2, <1>3, <1>4 DEF KNext, kvars, bound, Open, Elapse
<1>6. made' = made
  BY DEF KNext, kvars, Open, Call, List, ReadKey, Fails, Leaves, Loaded, CreateFile, WriteFile, HoldKey,
         RenameFile, HoldRetired, Crash, Elapse
<1> QED
  BY <1>5, <1>6

LEMMA OneSerialStep == KTypeOK /\ OneSerial /\ [KNext]_kvars => OneSerial'
<1> SUFFICES ASSUME KTypeOK, OneSerial, [KNext]_kvars
             PROVE  OneSerial'
  OBVIOUS
<1>1. CASE \A c \in Callers : ~Generate(c)
  BY <1>1, NamesStay DEF OneSerial
<1>2. ASSUME NEW c \in Callers, Generate(c)
      PROVE  OneSerial'
  <2> DEFINE new == <<made', making'[c].serial>>
  <2>1. /\ made' = made + 1 /\ made \in Nat /\ made' \in Nat /\ making'[c].kid = made'
        /\ \A d \in DOMAIN making' : d = c \/ (d \in DOMAIN making /\ making'[d] = making[d])
    <3>1. DOMAIN making' = DOMAIN making \cup {c}
      BY <1>2 DEF Generate, MapSet
    <3>2. /\ made' = made + 1 /\ made' \in 1..MaxKeys /\ making'[c].kid = made'
          /\ \A d \in DOMAIN making : making'[d] = making[d]
      BY <1>2, GenerateType
    <3>3. made \in Nat
      BY KeysAssumption DEF KTypeOK
    <3> QED
      BY <3>1, <3>2, <3>3
  <2>2. files' = files /\ held' = held /\ reading' = reading
    BY <1>2 DEF Generate
  <2>3. \A d \in DOMAIN making' : <<making'[d].kid, making'[d].serial>> \in Names \cup {new}
    BY <2>1, NamesHas
  <2> HIDE DEF new
  <2>4. Names' \subseteq Names \cup {new}
    <3>1. \A p \in DOMAIN files' : <<files'[p].kid, p[1]>> \in Names \cup {new}
      BY <2>2, NamesHas
    <3>2. \A s \in Openers : NamesOf(held'[s]) \subseteq Names \cup {new}
      BY <2>2, NamesHas
    <3>3. \A d \in DOMAIN reading' : NamesOf(reading'[d].got) \subseteq Names \cup {new}
      BY <2>2, NamesHas
    <3> QED
      BY <2>3, <3>1, <3>2, <3>3, NamesWithin
  <2>5. new[1] = made + 1
    BY <2>1 DEF new
  <2>6. \A m \in Names : m[1] \in Nat /\ m[1] <= made
    BY NamesTyped DEF OneSerial
  <2>7. \A m \in Names : m[1] <= made' /\ m[1] # new[1]
    BY <2>1, <2>5, <2>6
  <2> QED
    BY <2>1, <2>4, <2>5, <2>7 DEF OneSerial
<1> QED
  BY <1>1, <1>2

-----------------------------------------------------------------------------
(* The files.                                                              *)

\* A step renames a file, or leaves those there are and may make one that is published.
LEMMA FilesStep ==
  ASSUME KTypeOK, [KNext]_kvars
  PROVE  \/ /\ DOMAIN files \subseteq DOMAIN files'
            /\ \A p \in DOMAIN files : files'[p].kid = files[p].kid
            /\ \A p \in DOMAIN files' : p \in DOMAIN files \/ ~p[2]
         \/ \E c \in Callers : RenameFile(c) /\ ~Fails(c)
<1> DEFINE Goal == /\ DOMAIN files \subseteq DOMAIN files'
                   /\ \A p \in DOMAIN files : files'[p].kid = files[p].kid
                   /\ \A p \in DOMAIN files' : p \in DOMAIN files \/ ~p[2]
<1>1. ASSUME NEW c \in Callers, CreateFile(c)
      PROVE  Goal
  <2>1. CASE Fails(c)
    BY <2>1 DEF Fails, Leaves
  <2>2. CASE /\ PathOf(making[c]) \notin DOMAIN files
             /\ files' = MapSet(files, PathOf(making[c]), [kid |-> making[c].kid, whole |-> FALSE])
    <3>1. PathOf(making[c]) = <<making[c].serial, FALSE>>
      BY <1>1, InHand DEF CreateFile, Making
    <3> DEFINE path == PathOf(making[c])
    <3>2. ~path[2]
      BY <3>1
    <3> HIDE DEF path
    <3>3. path \notin DOMAIN files /\ files' = MapSet(files, path, [kid |-> making[c].kid, whole |-> FALSE])
      BY <2>2 DEF path
    <3> QED
      BY <3>2, <3>3 DEF MapSet
  <2> QED
    BY <1>1, <2>1, <2>2 DEF CreateFile
<1>2. ASSUME NEW c \in Callers, WriteFile(c)
      PROVE  Goal
  BY <1>2, WriteFileType
<1>3. CASE UNCHANGED files
  BY <1>3
<1>4. ASSUME NEW c \in Callers, RenameFile(c), Fails(c)
      PROVE  Goal
  BY <1>4 DEF Fails, Leaves
<1> QED
  BY <1>1, <1>2, <1>3, <1>4
  DEF KNext, kvars, Open, Call, List, ReadKey, Fails, Leaves, Loaded, Generate, HoldKey, HoldRetired,
      Crash, Elapse

LEMMA NewerStays ==
  ASSUME KTypeOK, [KNext]_kvars, NEW serial, Newer(files, serial)
  PROVE  Newer(files', serial)
<1>1. CASE DOMAIN files \subseteq DOMAIN files'
  BY <1>1 DEF Newer
<1>2. ASSUME NEW c \in Callers, RenameFile(c), ~Fails(c)
      PROVE  Newer(files', serial)
  <2> DEFINE path == <<making[c].serial, FALSE>>
             other == <<making[c].serial, TRUE>>
  <2>1. path[1] = other[1] /\ path # other
    OBVIOUS
  <2>2. DOMAIN files' = (DOMAIN files \cup {other}) \ {path}
    BY <1>2, RenamedFiles
  <2> HIDE DEF path, other
  <2> QED
    BY <2>1, <2>2 DEF Newer
<1> QED
  BY <1>1, <1>2, FilesStep

LEMMA KnownStays ==
  ASSUME KTypeOK, StoresAreRight, [KNext]_kvars, NEW k, Known(files, k)
  PROVE  Known(files', k)
<1>1. CASE Newer(files, k.serial)
  BY <1>1, NewerStays DEF Known
<1> DEFINE path == <<k.serial, FALSE>>
<1>2. CASE ~k.retired /\ path \in DOMAIN files /\ files[path].kid = k.kid
  <2> HIDE DEF path
  <2>1. CASE /\ DOMAIN files \subseteq DOMAIN files'
             /\ \A p \in DOMAIN files : files'[p].kid = files[p].kid
    BY <1>2, <2>1 DEF Known, path
  <2>2. ASSUME NEW c \in Callers, RenameFile(c), ~Fails(c)
        PROVE  Known(files', k)
    <3>1. Newer(files, making[c].serial)
      BY <2>2, RenamedFiles DEF StoresAreRight, Retiring
    <3>2. CASE k.serial = making[c].serial
      BY <3>1, <3>2, NewerStays DEF Known
    <3>3. CASE k.serial # making[c].serial
      <4>1. path # <<making[c].serial, FALSE>> /\ path # <<making[c].serial, TRUE>>
        BY <3>3 DEF path
      <4>2. path \in DOMAIN files' /\ files'[path] = files[path]
        BY <1>2, <2>2, <4>1, RenamedFiles
      <4> QED
        BY <1>2, <4>2 DEF Known, path
    <3> QED
      BY <3>2, <3>3
  <2> QED
    BY <2>1, <2>2, FilesStep
<1> QED
  BY <1>1, <1>2 DEF Known

\* The newest file stays one of a published key.
LEMMA NewestStep ==
  ASSUME KTypeOK, StoresAreRight, NewestIsPublished, ~overtaken, [KNext]_kvars
  PROVE  NewestIsPublished'
<1> SUFFICES ASSUME NEW p \in DOMAIN files', p[2]
             PROVE  \E q \in DOMAIN files' : ~q[2] /\ q[1] > p[1]
  BY DEF NewestIsPublished
<1>1. \A q \in DOMAIN files : q[1] \in Nat
  BY DEF KTypeOK, Paths
<1>2. \A q \in DOMAIN files : q[2] => \E r \in DOMAIN files : ~r[2] /\ r[1] > q[1]
  BY DEF NewestIsPublished
<1>3. CASE /\ DOMAIN files \subseteq DOMAIN files'
           /\ \A q \in DOMAIN files' : q \in DOMAIN files \/ ~q[2]
  BY <1>2, <1>3
<1>4. ASSUME NEW c \in Callers, RenameFile(c), ~Fails(c)
      PROVE  \E q \in DOMAIN files' : ~q[2] /\ q[1] > p[1]
  <2> DEFINE path == <<making[c].serial, FALSE>>
             other == <<making[c].serial, TRUE>>
  <2>1. /\ path[1] = making[c].serial /\ other[1] = making[c].serial
        /\ path # other /\ path[2] = FALSE /\ other[2] = TRUE
    OBVIOUS
  <2>2. /\ DOMAIN files' = (DOMAIN files \cup {other}) \ {path} /\ path \in DOMAIN files
        /\ Newer(files, making[c].serial)
    BY <1>4, RenamedFiles DEF StoresAreRight, Retiring
  <2> HIDE DEF path, other
  <2>3. PICK r \in DOMAIN files : r[1] > making[c].serial
    BY <2>2 DEF Newer
  <2>4. PICK q \in DOMAIN files : ~q[2] /\ q[1] > making[c].serial
    BY <1>1, <1>2, <2>1, <2>2, <2>3
  <2>5. q # path /\ q # other /\ q \in DOMAIN files'
    BY <1>1, <2>1, <2>2, <2>4
  <2>6. CASE p = other
    BY <2>1, <2>4, <2>5, <2>6
  <2>7. CASE p \in DOMAIN files
    <3>1. PICK t \in DOMAIN files : ~t[2] /\ t[1] > p[1]
      BY <1>2, <2>7
    <3>2. CASE t = path
      <4>1. q[1] > p[1]
        BY <1>1, <2>1, <2>2, <2>4, <2>7, <3>1, <3>2
      <4> QED
        BY <2>4, <2>5, <4>1
    <3>3. CASE t # path
      BY <2>1, <2>2, <3>1, <3>3
    <3> QED
      BY <3>2, <3>3
  <2> QED
    BY <2>2, <2>6, <2>7
<1> QED
  BY <1>3, <1>4, FilesStep

-----------------------------------------------------------------------------
(* The stores and the loads.                                               *)

LEMMA InOrderStays ==
  ASSUME KTypeOK, StoresAreRight, [KNext]_kvars, NEW keys, InOrder(files, keys)
  PROVE  InOrder(files', keys)
<1>1. ASSUME NEW i \in DOMAIN keys
      PROVE  Known(files', keys[i])
  <2>1. Known(files, keys[i])
    BY DEF InOrder
  <2> QED
    BY <2>1, KnownStays
<1> QED
  BY <1>1 DEF InOrder

\* A file that is there is known.
LEMMA KnownFile ==
  ASSUME KTypeOK, NewestIsPublished, ~overtaken, NEW p \in DOMAIN files
  PROVE  Known(files, KeyIn(p)) /\ KeyIn(p).serial = p[1] /\ KeyIn(p).kid = files[p].kid
<1>1. KeyIn(p).serial = p[1] /\ KeyIn(p).kid = files[p].kid /\ KeyIn(p).retired = p[2]
  BY DEF KeyIn
<1>2. Known(files, KeyIn(p))
  <2>1. CASE p[2]
    <3>1. \E q \in DOMAIN files : q[1] > p[1]
      BY <2>1 DEF NewestIsPublished
    <3>2. Newer(files, KeyIn(p).serial)
      BY <1>1, <3>1 DEF Newer
    <3> QED
      BY <3>2 DEF Known
  <2>2. CASE ~p[2]
    <3>1. p = <<p[1], FALSE>>
      <4>1. p \in Nat \X BOOLEAN
        BY DEF KTypeOK, Paths
      <4>2. p = <<p[1], p[2]>> /\ p[2] = FALSE
        BY <2>2, <4>1
      <4> QED
        BY <4>2
    <3> QED
      BY <1>1, <2>2, <3>1 DEF Known
  <2> QED
    BY <2>1, <2>2
<1> QED
  BY <1>1, <1>2

\* A known key goes before those that are no newer.
LEMMA InOrderBefore ==
  ASSUME NEW fs, NEW k \in Key, NEW keys \in Seq(Key), InOrder(fs, keys), Known(fs, k),
         \A i \in DOMAIN keys : k.serial >= keys[i].serial
  PROVE  InOrder(fs, <<k>> \o keys)
<1> DEFINE now == <<k>> \o keys
<1>1. /\ DOMAIN now = 1 .. Len(keys) + 1 /\ now[1] = k
      /\ \A i \in DOMAIN now : i # 1 => i - 1 \in DOMAIN keys /\ now[i] = keys[i - 1]
  BY PutBefore
<1> HIDE DEF now
<1>2. \A i \in DOMAIN now : Known(fs, now[i])
  BY <1>1 DEF InOrder
<1>3. ASSUME NEW i \in DOMAIN now, NEW j \in DOMAIN now, i < j
      PROVE  now[i].serial >= now[j].serial
  <2>1. j # 1 /\ j - 1 \in DOMAIN keys /\ now[j] = keys[j - 1]
    BY <1>1, <1>3
  <2>2. CASE i = 1
    BY <1>1, <2>1, <2>2
  <2>3. CASE i # 1
    <3>1. i - 1 \in DOMAIN keys /\ now[i] = keys[i - 1] /\ i - 1 < j - 1
      BY <1>1, <1>3, <2>3
    <3> QED
      BY <2>1, <3>1 DEF InOrder
  <2> QED
    BY <2>2, <2>3
<1> QED
  BY <1>2, <1>3 DEF InOrder, now

\* A key that may be retired is not the newest.
LEMMA MayRetireOld ==
  ASSUME KTypeOK, NEW keys \in Seq(Key), InOrder(files, keys), NEW i, MayRetire(keys, i)
  PROVE  Newer(files, keys[i].serial)
<1>1. i \in DOMAIN keys /\ ~keys[i].retired
  BY DEF MayRetire, IsPublished
<1>2. PICK j \in DOMAIN keys : Signs(keys, j) /\ keys[j].kid # keys[i].kid
  BY DEF MayRetire
<1>3. j < i
  BY <1>1, <1>2 DEF Signs
<1>4. keys[j].serial >= keys[i].serial /\ keys[j].serial \in Nat /\ keys[i].serial \in Nat
  <2>1. keys[i] \in Key /\ keys[j] \in Key
    BY <1>1
  <2> QED
    BY <1>1, <1>3, <2>1 DEF InOrder, Key
<1>5. \A q \in DOMAIN files : q[1] \in Nat
  BY DEF KTypeOK, Paths
<1> QED
  <2>1. CASE Newer(files, keys[i].serial)
    BY <2>1
  <2>2. CASE Newer(files, keys[j].serial)
    BY <1>4, <1>5, <2>2 DEF Newer
  <2>3. CASE /\ <<keys[i].serial, FALSE>> \in DOMAIN files
             /\ files[<<keys[i].serial, FALSE>>].kid = keys[i].kid
             /\ <<keys[j].serial, FALSE>> \in DOMAIN files
             /\ files[<<keys[j].serial, FALSE>>].kid = keys[j].kid
    <3>1. keys[j].serial # keys[i].serial
      BY <1>2, <2>3
    <3>2. keys[j].serial > keys[i].serial
      BY <1>4, <3>1
    <3> QED
      BY <2>3, <3>2 DEF Newer
  <2> QED
    BY <1>1, <2>1, <2>2, <2>3 DEF InOrder, Known

\* It is enough to look at the store, the load and the key that a step changes.
LEMMA RightWithin ==
  ASSUME KTypeOK, StoresAreRight, [KNext]_kvars,
         \A s \in Openers : held'[s] = held[s] \/ InOrder(files', held'[s]),
         \A d \in DOMAIN reading' : \/ d \in DOMAIN reading /\ reading'[d] = reading[d]
                                   \/ LoadInOrder(files', reading'[d]),
         \A d \in DOMAIN making' : stage'[d] \in Retiring =>
           \/ d \in DOMAIN making /\ stage[d] \in Retiring /\ making'[d] = making[d]
           \/ Newer(files', making'[d].serial)
  PROVE  StoresAreRight'
<1>1. ASSUME NEW t \in Openers
      PROVE  InOrder(files', held'[t])
  <2>1. InOrder(files, held[t])
    BY DEF StoresAreRight
  <2>2. InOrder(files', held[t])
    BY <2>1, InOrderStays
  <2> QED
    BY <2>2
<1>2. ASSUME NEW d \in DOMAIN reading'
      PROVE  LoadInOrder(files', reading'[d])
  <2>1. ASSUME d \in DOMAIN reading, reading'[d] = reading[d]
        PROVE  LoadInOrder(files', reading[d])
    <3>1. LoadInOrder(files, reading[d])
      BY <2>1 DEF StoresAreRight
    <3>2. InOrder(files', reading[d].got)
      BY <3>1, InOrderStays DEF LoadInOrder
    <3> QED
      BY <3>1, <3>2 DEF LoadInOrder
  <2> QED
    BY <2>1
<1>3. ASSUME NEW d \in DOMAIN making', stage'[d] \in Retiring
      PROVE  Newer(files', making'[d].serial)
  <2>1. ASSUME d \in DOMAIN making, stage[d] \in Retiring, making'[d] = making[d]
        PROVE  Newer(files', making[d].serial)
    <3>1. Newer(files, making[d].serial)
      BY <2>1 DEF StoresAreRight
    <3> QED
      BY <3>1, NewerStays
  <2> QED
    BY <1>3, <2>1
<1> QED
  BY <1>1, <1>2, <1>3 DEF StoresAreRight

\* What a caller goes on with, in a store that is in order.
LEMMA GoOnRight ==
  ASSUME KTypeOK, NEW c \in Callers, NEW ask, NEW keys \in Seq(Key), InOrder(files, keys),
         files' = files, GoOn(c, ask, keys)
  PROVE  /\ \A d \in DOMAIN reading' : d \in DOMAIN reading /\ reading'[d] = reading[d]
         /\ \A d \in DOMAIN making' : stage'[d] \in Retiring =>
              \/ d \in DOMAIN making /\ stage[d] \in Retiring /\ making'[d] = making[d]
              \/ Newer(files', making'[d].serial)
<1>1. \A d \in DOMAIN reading' : d \in DOMAIN reading /\ reading'[d] = reading[d]
  BY GoOnGoes DEF MapDelete, Restrict
<1>2. DOMAIN making \subseteq Callers /\ stage \in [Callers -> Stages]
  BY DEF KTypeOK, Stages
<1>3. ASSUME NEW place, place \notin Retiring, stage' = [stage EXCEPT ![c] = place],
             making' = MapDelete(making, {c}), NEW d \in DOMAIN making', stage'[d] \in Retiring
      PROVE  d \in DOMAIN making /\ stage[d] \in Retiring /\ making'[d] = making[d]
  BY <1>2, <1>3 DEF MapDelete, Restrict
<1>4. ASSUME NEW i \in DOMAIN keys, MayRetire(keys, i), stage' = [stage EXCEPT ![c] = "renaming"],
             making' = MapSet(making, c, keys[i]), NEW d \in DOMAIN making', stage'[d] \in Retiring
      PROVE  \/ d \in DOMAIN making /\ stage[d] \in Retiring /\ making'[d] = making[d]
             \/ Newer(files', making'[d].serial)
  <2> DEFINE k == keys[i]
  <2>1. making' = MapSet(making, c, k)
    BY <1>4
  <2> HIDE DEF k
  <2>2. making'[c] = k /\ \A e \in DOMAIN making' : e # c => e \in DOMAIN making /\ making'[e] = making[e]
    BY <2>1, MapSetIs DEF MapSet
  <2>3. CASE d = c
    <3>1. making'[d] = keys[i]
      BY <2>2, <2>3 DEF k
    <3>2. Newer(files, keys[i].serial)
      BY <1>4, MayRetireOld
    <3> QED
      BY <3>1, <3>2
  <2>4. CASE d # c
    <3>1. d \in DOMAIN making /\ making'[d] = making[d]
      BY <1>4, <2>2, <2>4
    <3>2. stage'[d] = stage[d]
      BY <1>2, <1>4, <2>4, <3>1
    <3> QED
      BY <1>4, <3>1, <3>2
  <2> QED
    BY <2>3, <2>4
<1>5. Rest(c) \notin Retiring /\ "down" \notin Retiring /\ "generating" \notin Retiring
  BY DEF Rest, Retiring
<1>6. CASE /\ \E place \in {Rest(c), "down"} : stage' = [stage EXCEPT ![c] = place]
           /\ making' = MapDelete(making, {c})
  BY <1>1, <1>3, <1>5, <1>6
<1>7. CASE stage' = [stage EXCEPT ![c] = "generating"] /\ making' = MapDelete(making, {c})
  BY <1>1, <1>3, <1>5, <1>7
<1>8. CASE /\ stage' = [stage EXCEPT ![c] = "renaming"]
           /\ \E i \in DOMAIN keys : MayRetire(keys, i) /\ making' = MapSet(making, c, keys[i])
  BY <1>1, <1>4, <1>8
<1>9. \/ /\ \E place \in {Rest(c), "down"} : stage' = [stage EXCEPT ![c] = place]
         /\ making' = MapDelete(making, {c})
      \/ stage' = [stage EXCEPT ![c] = "generating"] /\ making' = MapDelete(making, {c})
      \/ /\ stage' = [stage EXCEPT ![c] = "renaming"]
         /\ \E i \in DOMAIN keys : MayRetire(keys, i) /\ making' = MapSet(making, c, keys[i])
  BY DEF GoOn, Ends, Leaves, Becomes, GoesTo
<1> QED
  BY <1>6, <1>7, <1>8, <1>9

\* A step that has nobody rename.
LEMMA NobodyRenames ==
  ASSUME KTypeOK, NEW c \in Callers, NEW place, stage' = [stage EXCEPT ![c] = place],
         place \in Retiring => stage[c] \in Retiring,
         \A d \in DOMAIN making' : d = c \/ d \in DOMAIN making,
         \A d \in DOMAIN making' : d # c \/ place \in Retiring =>
           d \in DOMAIN making /\ making'[d] = making[d]
  PROVE  \A d \in DOMAIN making' : stage'[d] \in Retiring =>
           d \in DOMAIN making /\ stage[d] \in Retiring /\ making'[d] = making[d]
<1>1. DOMAIN making \subseteq Callers /\ stage \in [Callers -> Stages]
  BY DEF KTypeOK, Stages
<1> QED
  BY <1>1

LEMMA FailsRight ==
  ASSUME KTypeOK, StoresAreRight, [KNext]_kvars, NEW c \in Callers, Fails(c)
  PROVE  StoresAreRight'
<1> DEFINE place == IF c = Server THEN "down" ELSE Rest(c)
<1>1. place \notin Retiring
  BY DEF Rest, Retiring
<1> HIDE DEF place
<1>2. /\ stage' = [stage EXCEPT ![c] = place] /\ held' = held
      /\ \A d \in DOMAIN reading' : d \in DOMAIN reading /\ reading'[d] = reading[d]
      /\ \A d \in DOMAIN making' : d \in DOMAIN making /\ making'[d] = making[d]
  BY DEF Fails, Leaves, GoesTo, MapDelete, Restrict, place
<1>3. \A d \in DOMAIN making' : stage'[d] \in Retiring =>
        d \in DOMAIN making /\ stage[d] \in Retiring /\ making'[d] = making[d]
  BY <1>1, <1>2, NobodyRenames
<1> QED
  BY <1>2, <1>3, RightWithin

LEMMA OpenRight ==
  ASSUME KTypeOK, StoresAreRight, [KNext]_kvars, NEW c \in Openers, NEW ask, Open(c, ask)
  PROVE  StoresAreRight'
<1>1. c \in Callers /\ "listing" \notin Retiring
  BY DEF Callers, Retiring
<1>2. stage' = [stage EXCEPT ![c] = "listing"] /\ UNCHANGED <<held, reading, making>>
  BY DEF Open, GoesTo
<1>3. c \notin DOMAIN making
  BY DEF Open, KTypeOK, Making, Retiring
<1>4. \A d \in DOMAIN making' : stage'[d] \in Retiring =>
        d \in DOMAIN making /\ stage[d] \in Retiring /\ making'[d] = making[d]
  BY <1>1, <1>2, <1>3, NobodyRenames
<1> QED
  BY <1>2, <1>4, RightWithin

LEMMA CallRight ==
  ASSUME KTypeOK, StoresAreRight, [KNext]_kvars, NEW h \in Handlers, NEW ask \in Does[h],
         Call(h, ask)
  PROVE  StoresAreRight'
<1>1. h \in Callers /\ Server \in Openers
  BY DEF Callers, Openers
<1>2. files' = files /\ held' = held
  BY DEF Call
<1>3. CASE GoOn(h, ask, held[Server])
  <2>1. held[Server] \in Seq(Key) /\ InOrder(files, held[Server])
    BY <1>1 DEF KTypeOK, StoresAreRight
  <2>2. /\ \A d \in DOMAIN reading' : d \in DOMAIN reading /\ reading'[d] = reading[d]
        /\ \A d \in DOMAIN making' : stage'[d] \in Retiring =>
             \/ d \in DOMAIN making /\ stage[d] \in Retiring /\ making'[d] = making[d]
             \/ Newer(files', making'[d].serial)
    BY <1>1, <1>2, <1>3, <2>1, GoOnRight
  <2> QED
    BY <1>2, <2>2, RightWithin
<1>4. CASE GoesTo(h, "listing") /\ UNCHANGED <<reading, making, signed>>
  <2>1. "listing" \notin Retiring /\ stage[h] \notin Making \cup Retiring
    BY DEF Call, Making, Retiring
  <2>2. h \notin DOMAIN making /\ stage' = [stage EXCEPT ![h] = "listing"]
    BY <1>4, <2>1 DEF KTypeOK, GoesTo
  <2>3. \A d \in DOMAIN making' : stage'[d] \in Retiring =>
          d \in DOMAIN making /\ stage[d] \in Retiring /\ making'[d] = making[d]
    BY <1>1, <1>4, <2>1, <2>2, NobodyRenames
  <2> QED
    BY <1>2, <1>4, <2>3, RightWithin
<1> QED
  BY <1>3, <1>4 DEF Call

LEMMA ListRight ==
  ASSUME KTypeOK, StoresAreRight, [KNext]_kvars, NEW c \in Callers, List(c)
  PROVE  StoresAreRight'
<1>1. "reading" \notin Retiring /\ stage[c] \notin Making \cup Retiring
  BY DEF List, Making, Retiring
<1>2. c \notin DOMAIN making
  BY <1>1 DEF KTypeOK
<1>3. stage' = [stage EXCEPT ![c] = "reading"] /\ UNCHANGED <<held, making>>
  BY DEF List, GoesTo
<1>4. \A d \in DOMAIN making' : stage'[d] \in Retiring =>
        d \in DOMAIN making /\ stage[d] \in Retiring /\ making'[d] = making[d]
  BY <1>1, <1>2, <1>3, NobodyRenames
<1>5. \A d \in DOMAIN reading' : \/ d \in DOMAIN reading /\ reading'[d] = reading[d]
                                \/ reading'[d].got = <<>>
  BY DEF List, MapSet
<1>6. ASSUME NEW d \in DOMAIN reading', reading'[d].got = <<>>
      PROVE  LoadInOrder(files', reading'[d])
  BY <1>6 DEF LoadInOrder, InOrder
<1> QED
  BY <1>3, <1>4, <1>5, <1>6, RightWithin

\* The keys are read from the oldest.
LEMMA ReadKeyRight ==
  ASSUME KTypeOK, StoresAreRight, NewestIsPublished, ~overtaken, [KNext]_kvars,
         NEW c \in Callers, ReadKey(c)
  PROVE  StoresAreRight'
<1>1. CASE Fails(c)
  BY <1>1, FailsRight
<1>2. c \in DOMAIN reading
  BY DEF ReadKey, KTypeOK
<1>3. ASSUME NEW p \in reading[c].left, IsFirst(p, reading[c].left), p \in DOMAIN files,
             reading' = [reading EXCEPT ![c] = [left |-> @.left \ {p},
                                               got |-> <<KeyIn(p)>> \o @.got]],
             UNCHANGED <<files, held, stage, making>>
      PROVE  StoresAreRight'
  <2> DEFINE left == reading[c].left
             got == reading[c].got
             now == [left |-> left \ {p}, got |-> <<KeyIn(p)>> \o got]
  <2>1. got \in Seq(Key) /\ left \subseteq Paths /\ KeyIn(p) \in Key
    BY <1>2, <1>3, KeyInFile DEF KTypeOK
  <2>2. InOrder(files, got) /\ \A q \in left : \A i \in DOMAIN got : q[1] >= got[i].serial
    BY <1>2 DEF StoresAreRight, LoadInOrder
  <2>3. Known(files, KeyIn(p)) /\ KeyIn(p).serial = p[1]
    BY <1>3, KnownFile
  <2>4. InOrder(files, <<KeyIn(p)>> \o got)
    BY <1>3, <2>1, <2>2, <2>3, InOrderBefore
  <2>5. \A q \in left : q[1] >= p[1] /\ q[1] \in Nat
    BY <1>3, <2>1 DEF IsFirst, Paths
  <2>6. ASSUME NEW q \in left, NEW i \in DOMAIN (<<KeyIn(p)>> \o got)
        PROVE  q[1] >= (<<KeyIn(p)>> \o got)[i].serial
    <3>1. CASE i = 1
      BY <2>1, <2>3, <2>5, <3>1, PutBefore
    <3>2. CASE i # 1
      <4>1. i - 1 \in DOMAIN got /\ (<<KeyIn(p)>> \o got)[i] = got[i - 1]
        BY <2>1, <3>2, PutBefore
      <4> QED
        BY <2>2, <4>1
    <3> QED
      BY <3>1, <3>2
  <2>7. now.left = left \ {p} /\ now.got = <<KeyIn(p)>> \o got
    OBVIOUS
  <2>8. reading' = [reading EXCEPT ![c] = now]
    BY <1>3
  <2> HIDE DEF now, left, got
  <2>9. LoadInOrder(files', now)
    BY <1>3, <2>4, <2>6, <2>7 DEF LoadInOrder
  <2>10. \A d \in DOMAIN reading' : \/ d \in DOMAIN reading /\ reading'[d] = reading[d]
                                   \/ LoadInOrder(files', reading'[d])
    BY <2>8, <2>9
  <2>11. held' = held /\ making' = making /\ stage' = stage
    BY <1>3
  <2> QED
    BY <2>10, <2>11, RightWithin
<1> QED
  BY <1>1, <1>2, <1>3 DEF ReadKey

LEMMA LoadedRight ==
  ASSUME KTypeOK, StoresAreRight, [KNext]_kvars, NEW c \in Callers, Loaded(c)
  PROVE  StoresAreRight'
<1> DEFINE keys == reading[c].got
<1>1. c \in DOMAIN reading /\ keys \in Seq(Key) /\ files' = files
  BY DEF Loaded, KTypeOK
<1>2. InOrder(files, keys)
  BY <1>1 DEF StoresAreRight, LoadInOrder
<1>3. \A s \in Openers : held'[s] = held[s] \/ InOrder(files', held'[s])
  <2>1. \A s \in Openers : held'[s] \in {held[s], keys}
    BY StoreOfIs DEF Loaded, Hold, KTypeOK
  <2> QED
    BY <1>1, <1>2, <2>1
<1>4. CASE GoOn(c, asked[c], keys)
  <2>1. /\ \A d \in DOMAIN reading' : d \in DOMAIN reading /\ reading'[d] = reading[d]
        /\ \A d \in DOMAIN making' : stage'[d] \in Retiring =>
             \/ d \in DOMAIN making /\ stage[d] \in Retiring /\ making'[d] = making[d]
             \/ Newer(files', making'[d].serial)
    BY <1>1, <1>2, <1>4, GoOnRight
  <2> QED
    BY <1>3, <2>1, RightWithin
<1>5. CASE Becomes(c, asked[c], "generating") /\ UNCHANGED making
  <2>1. "generating" \notin Retiring /\ stage[c] \notin Making \cup Retiring
    BY DEF Loaded, Making, Retiring
  <2>2. /\ c \notin DOMAIN making /\ stage' = [stage EXCEPT ![c] = "generating"]
        /\ \A d \in DOMAIN reading' : d \in DOMAIN reading /\ reading'[d] = reading[d]
    BY <1>5, <2>1 DEF KTypeOK, Becomes, GoesTo, MapDelete, Restrict
  <2>3. \A d \in DOMAIN making' : stage'[d] \in Retiring =>
          d \in DOMAIN making /\ stage[d] \in Retiring /\ making'[d] = making[d]
    BY <1>5, <2>1, <2>2, NobodyRenames
  <2> QED
    BY <1>3, <2>2, <2>3, RightWithin
<1> QED
  BY <1>4, <1>5 DEF Loaded

\* A pair is generated and its file is written: nobody renames, and no store changes.
LEMMA MakingRight ==
  ASSUME KTypeOK, StoresAreRight, [KNext]_kvars, NEW c \in Callers,
         Generate(c) \/ CreateFile(c) \/ WriteFile(c)
  PROVE  StoresAreRight'
<1>1. CASE Fails(c)
  BY <1>1, FailsRight
<1>2. ASSUME NEW place, place \notin Retiring, stage' = [stage EXCEPT ![c] = place],
             held' = held, reading' = reading,
             \A d \in DOMAIN making' : d = c \/ (d \in DOMAIN making /\ making'[d] = making[d])
      PROVE  StoresAreRight'
  <2>1. \A d \in DOMAIN making' : stage'[d] \in Retiring =>
          d \in DOMAIN making /\ stage[d] \in Retiring /\ making'[d] = making[d]
    BY <1>2, NobodyRenames
  <2> QED
    BY <1>2, <2>1, RightWithin
<1>3. "creating" \notin Retiring /\ "writing" \notin Retiring /\ "holding" \notin Retiring
  BY DEF Retiring
<1>4. CASE Generate(c)
  <2>1. DOMAIN making' = DOMAIN making \cup {c}
    BY <1>4 DEF Generate, MapSet
  <2>2. \A d \in DOMAIN making' : d = c \/ (d \in DOMAIN making /\ making'[d] = making[d])
    BY <2>1, <1>4 DEF Generate, MapSet
  <2>3. stage' = [stage EXCEPT ![c] = "creating"] /\ held' = held /\ reading' = reading
    BY <1>4 DEF Generate, GoesTo
  <2> QED
    BY <1>2, <1>3, <2>2, <2>3
<1>5. CASE CreateFile(c) /\ ~Fails(c)
  <2>1. /\ stage' = [stage EXCEPT ![c] = "writing"] /\ held' = held /\ reading' = reading
        /\ making' = making
    BY <1>5 DEF CreateFile, GoesTo
  <2> QED
    BY <1>2, <1>3, <2>1
<1>6. CASE WriteFile(c)
  <2>1. /\ stage' = [stage EXCEPT ![c] = "holding"] /\ held' = held /\ reading' = reading
        /\ making' = making
    BY <1>6 DEF WriteFile, GoesTo
  <2> QED
    BY <1>2, <1>3, <2>1
<1> QED
  BY <1>1, <1>4, <1>5, <1>6

\* If the first key is no newer, none is.
LEMMA NoneIsNewer ==
  ASSUME NEW fs, NEW keys \in Seq(Key), InOrder(fs, keys), NEW n \in Nat,
         keys # <<>> => ~(Head(keys).serial > n)
  PROVE  \A i \in DOMAIN keys : n >= keys[i].serial
<1> SUFFICES ASSUME NEW i \in DOMAIN keys
             PROVE  n >= keys[i].serial
  OBVIOUS
<1>1. keys # <<>> /\ 1 \in DOMAIN keys /\ Head(keys) = keys[1]
  OBVIOUS
<1>2. keys[i].serial \in Nat /\ keys[1].serial \in Nat
  <2>1. keys[i] \in Key /\ keys[1] \in Key
    BY <1>1
  <2> QED
    BY <2>1 DEF Key
<1>3. ~(keys[1].serial > n)
  BY <1>1
<1>4. CASE i = 1
  BY <1>2, <1>3, <1>4
<1>5. CASE 1 < i
  <2>1. keys[1].serial >= keys[i].serial
    BY <1>1, <1>5 DEF InOrder
  <2> QED
    BY <1>2, <1>3, <2>1
<1> QED
  BY <1>4, <1>5

\* A new key goes before a store whose keys are all older.
LEMMA HoldKeyRight ==
  ASSUME KTypeOK, StoresAreRight, NewestIsPublished, ~overtaken', [KNext]_kvars,
         NEW c \in Callers, HoldKey(c)
  PROVE  StoresAreRight'
<1> DEFINE p == PathOf(making[c])
           keys == held[StoreOf(c)]
           now == <<KeyIn(p)>> \o keys
<1>1. CASE Fails(c)
  BY <1>1, FailsRight
<1>2. CASE p \in DOMAIN files /\ files[p].whole
  <2>1. keys \in Seq(Key) /\ KeyIn(p) \in Key /\ now \in Seq(Key)
    BY <1>2, StoreOfIs, KeyInFile, PutBefore DEF KTypeOK
  <2>2. /\ overtaken' = (overtaken \/ (keys # <<>> /\ Head(keys).serial > p[1]))
        /\ held' = [held EXCEPT ![StoreOf(c)] = now] /\ files' = files
    BY <1>2 DEF HoldKey, Hold
  <2>3. ~overtaken /\ (keys # <<>> => ~(Head(keys).serial > p[1]))
    BY <2>2
  <2>4. Known(files, KeyIn(p)) /\ KeyIn(p).serial = p[1] /\ p[1] \in Nat
    BY <1>2, <2>3, KnownFile DEF KTypeOK, Paths
  <2>5. InOrder(files, keys)
    BY StoreOfIs DEF StoresAreRight
  <2>6. \A i \in DOMAIN keys : KeyIn(p).serial >= keys[i].serial
    BY <2>1, <2>3, <2>4, <2>5, NoneIsNewer
  <2>7. InOrder(files, now)
    BY <2>1, <2>4, <2>5, <2>6, InOrderBefore
  <2> HIDE DEF now
  <2>8. \A s \in Openers : held'[s] = held[s] \/ InOrder(files', held'[s])
    BY <2>2, <2>7, StoreOfIs DEF KTypeOK
  <2>9. CASE Ends(c)
    <3>1. Rest(c) \notin Retiring
      BY DEF Rest, Retiring
    <3>2. /\ stage' = [stage EXCEPT ![c] = Rest(c)]
          /\ \A d \in DOMAIN reading' : d \in DOMAIN reading /\ reading'[d] = reading[d]
          /\ \A d \in DOMAIN making' : d \in DOMAIN making /\ making'[d] = making[d]
      BY <2>9 DEF Ends, Leaves, GoesTo, MapDelete, Restrict
    <3>3. \A d \in DOMAIN making' : stage'[d] \in Retiring =>
            d \in DOMAIN making /\ stage[d] \in Retiring /\ making'[d] = making[d]
      BY <3>1, <3>2, NobodyRenames
    <3> QED
      BY <2>8, <3>2, <3>3, RightWithin
  <2>10. CASE GoOn(c, asked[c], now)
    <3>1. /\ \A d \in DOMAIN reading' : d \in DOMAIN reading /\ reading'[d] = reading[d]
          /\ \A d \in DOMAIN making' : stage'[d] \in Retiring =>
               \/ d \in DOMAIN making /\ stage[d] \in Retiring /\ making'[d] = making[d]
               \/ Newer(files', making'[d].serial)
      BY <2>1, <2>2, <2>7, <2>10, GoOnRight
    <3> QED
      BY <2>8, <3>1, RightWithin
  <2> QED
    BY <1>2, <2>9, <2>10 DEF HoldKey, now
<1> QED
  BY <1>1, <1>2 DEF HoldKey

LEMMA CrashRight ==
  ASSUME KTypeOK, StoresAreRight, [KNext]_kvars, NEW s \in Openers, Crash(s)
  PROVE  StoresAreRight'
<1>1. /\ held' = [held EXCEPT ![s] = <<>>]
      /\ \A d \in DOMAIN reading' : d \in DOMAIN reading /\ reading'[d] = reading[d]
  BY DEF Crash, MapDelete, Restrict
<1>2. InOrder(files', <<>>)
  BY DEF InOrder
<1>3. \A t \in Openers : held'[t] = held[t] \/ InOrder(files', held'[t])
  BY <1>1, <1>2 DEF KTypeOK
<1>4. ASSUME NEW d \in DOMAIN making', stage'[d] \in Retiring
      PROVE  d \in DOMAIN making /\ stage[d] \in Retiring /\ making'[d] = making[d]
  <2>1. d \in DOMAIN making /\ making'[d] = making[d] /\ StoreOf(d) # s
    BY DEF Crash, MapDelete, Restrict, KTypeOK
  <2>2. d \in Callers
    BY <2>1 DEF KTypeOK
  <2>3. stage'[d] = stage[d]
    BY <2>1, <2>2 DEF Crash
  <2> QED
    BY <1>4, <2>1, <2>3
<1> QED
  BY <1>1, <1>3, <1>4, RightWithin

\* What is retired is not the newest, so that it is known to be outdated.
LEMMA RetiringRight ==
  ASSUME KTypeOK, OneSerial, StoresAreRight, [KNext]_kvars,
         NEW c \in Callers, RenameFile(c) \/ HoldRetired(c)
  PROVE  StoresAreRight'
<1>1. CASE RenameFile(c) /\ Fails(c)
  BY <1>1, FailsRight
<1>2. CASE RenameFile(c) /\ ~Fails(c)
  <2>1. /\ stage[c] = "renaming" /\ stage' = [stage EXCEPT ![c] = "renamed"]
        /\ held' = held /\ reading' = reading /\ making' = making
    BY <1>2, RenamedFiles
  <2>2. \A d \in DOMAIN making' : stage'[d] \in Retiring =>
          d \in DOMAIN making /\ stage[d] \in Retiring /\ making'[d] = making[d]
    BY <2>1, NobodyRenames DEF Retiring
  <2> QED
    BY <2>1, <2>2, RightWithin
<1>3. CASE HoldRetired(c)
  <2> DEFINE keys == held[StoreOf(c)]
             k == making[c]
             now == [i \in DOMAIN keys |-> IF keys[i].kid = k.kid THEN Retired(k) ELSE keys[i]]
  <2>1. stage[c] \in Retiring /\ StoreOf(c) \in Openers
    BY <1>3, StoreOfIs DEF HoldRetired, Retiring
  <2>2. c \in DOMAIN making /\ Retired(k).serial = k.serial /\ Retired(k).kid = k.kid
    BY <2>1, InHand
  <2>3. Known(files, Retired(k))
    <3>1. Newer(files, k.serial)
      BY <2>1, <2>2 DEF StoresAreRight
    <3> QED
      BY <2>2, <3>1 DEF Known
  <2>4. InOrder(files, keys)
    BY <2>1 DEF StoresAreRight
  <2>5. ASSUME NEW i \in DOMAIN keys, keys[i].kid = k.kid
        PROVE  keys[i].serial = k.serial
    <3>1. <<keys[i].kid, keys[i].serial>> \in Names
      <4>1. <<keys[i].kid, keys[i].serial>> \in NamesOf(keys)
        BY DEF NamesOf
      <4> QED
        BY <2>1, <4>1, NamesHas
    <3>2. <<k.kid, k.serial>> \in Names
      BY <2>2, NamesHas
    <3> QED
      BY <2>5, <3>1, <3>2 DEF OneSerial
  <2>6. \A i \in DOMAIN keys : /\ now[i].serial = keys[i].serial
                               /\ now[i] = keys[i] \/ now[i] = Retired(k)
    BY <2>2, <2>5
  <2>7. DOMAIN now = DOMAIN keys
    OBVIOUS
  <2>8. held' = [held EXCEPT ![StoreOf(c)] = now] /\ files' = files
    BY <1>3 DEF HoldRetired, Hold
  <2> HIDE DEF now
  <2>9. InOrder(files', now)
    BY <2>3, <2>4, <2>6, <2>7, <2>8 DEF InOrder
  <2>10. \A s \in Openers : held'[s] = held[s] \/ InOrder(files', held'[s])
    BY <2>8, <2>9 DEF KTypeOK
  <2>11. /\ stage' = [stage EXCEPT ![c] = Rest(c)]
         /\ \A d \in DOMAIN reading' : d \in DOMAIN reading /\ reading'[d] = reading[d]
         /\ \A d \in DOMAIN making' : d \in DOMAIN making /\ making'[d] = making[d]
    BY <1>3 DEF HoldRetired, Ends, Leaves, GoesTo, MapDelete, Restrict
  <2>12. \A d \in DOMAIN making' : stage'[d] \in Retiring =>
           d \in DOMAIN making /\ stage[d] \in Retiring /\ making'[d] = making[d]
    BY <2>1, <2>11, NobodyRenames
  <2> QED
    BY <2>10, <2>11, <2>12, RightWithin
<1> QED
  BY <1>1, <1>2, <1>3

\* The steps that touch no store, no load and nothing in hand.
LEMMA IdleRight ==
  ASSUME KTypeOK, StoresAreRight, [KNext]_kvars,
         UNCHANGED <<held, stage, reading, making>>
  PROVE  StoresAreRight'
<1>1. held' = held /\ stage' = stage /\ reading' = reading /\ making' = making
  OBVIOUS
<1> QED
  BY <1>1, RightWithin

-----------------------------------------------------------------------------
(* The theorem.                                                            *)

LEMMA StoresStep ==
  ASSUME KTypeOK, OneSerial, NewestIsPublished, StoresAreRight, ~overtaken', [KNext]_kvars
  PROVE  StoresAreRight'
<1>1. ~overtaken
  BY DEF KTypeOK, KNext, kvars, Open, Call, List, ReadKey, Fails, Leaves, Loaded, Generate, CreateFile,
         WriteFile, HoldKey, RenameFile, HoldRetired, Crash, Elapse
<1>2. ASSUME NEW c \in Openers, Crash(c)
      PROVE  StoresAreRight'
  BY <1>2, CrashRight
<1>3. ASSUME NEW c \in Openers, NEW ask \in Asking(c), Open(c, ask)
      PROVE  StoresAreRight'
  BY <1>3, OpenRight
<1>4. ASSUME NEW h \in Handlers, NEW ask \in Does[h], Call(h, ask)
      PROVE  StoresAreRight'
  BY <1>4, CallRight
<1>5. ASSUME NEW c \in Callers, List(c) \/ ReadKey(c) \/ Loaded(c)
      PROVE  StoresAreRight'
  BY <1>1, <1>5, ListRight, ReadKeyRight, LoadedRight
<1>6. ASSUME NEW c \in Callers, Generate(c) \/ CreateFile(c) \/ WriteFile(c)
      PROVE  StoresAreRight'
  BY <1>6, MakingRight
<1>7. ASSUME NEW c \in Callers, HoldKey(c)
      PROVE  StoresAreRight'
  BY <1>7, HoldKeyRight
<1>8. ASSUME NEW c \in Callers, RenameFile(c) \/ HoldRetired(c)
      PROVE  StoresAreRight'
  BY <1>8, RetiringRight
<1>9. ASSUME Elapse \/ UNCHANGED kvars
      PROVE  StoresAreRight'
  BY <1>9, IdleRight DEF Elapse, kvars, bound
<1> QED
  BY <1>2, <1>3, <1>4, <1>5, <1>6, <1>7, <1>8, <1>9 DEF KNext

(* Types, one serial to a kid, and stores in order, for any number of      *)
(* calls, commands and pairs.                                              *)
THEOREM KeysHold == KSpec => []IInv
<1>1. KInit => IInv
  <2> SUFFICES ASSUME KInit
               PROVE  IInv
    OBVIOUS
  <2>1. KTypeOK
    BY KTypeInit
  <2>2. /\ DOMAIN files = {} /\ DOMAIN reading = {} /\ DOMAIN making = {}
        /\ \A s \in Openers : held[s] = <<>>
    BY DEF KInit
  <2>3. NewestIsPublished
    BY <2>2 DEF NewestIsPublished
  <2>4. InOrder(files, <<>>) /\ NamesOf(<<>>) = {}
    BY DEF InOrder, NamesOf
  <2>5. StoresAreRight
    BY <2>2, <2>4 DEF StoresAreRight
  <2>6. Names = {}
    <3>1. FileNames = {} /\ ReadNames = {} /\ MadeNames = {}
      BY <2>2 DEF FileNames, ReadNames, MadeNames
    <3>2. \A s \in Openers : NamesOf(held[s]) = {}
      BY <2>2, <2>4
    <3>3. HeldNames = {}
      BY <3>2 DEF HeldNames
    <3> QED
      BY <3>1, <3>3 DEF Names
  <2> QED
    BY <2>1, <2>3, <2>5, <2>6 DEF IInv, OneSerial
<1>2. IInv /\ [KNext]_kvars => IInv'
  <2> SUFFICES ASSUME IInv, [KNext]_kvars
               PROVE  IInv'
    OBVIOUS
  <2>1. KTypeOK /\ OneSerial /\ NewestIsPublished /\ (~overtaken => StoresAreRight)
    BY DEF IInv
  <2>2. KTypeOK' /\ OneSerial'
    BY <2>1, TypeStep, OneSerialStep
  <2>3. ~overtaken' => ~overtaken
    BY <2>1 DEF KTypeOK, KNext, kvars, Open, Call, List, ReadKey, Fails, Leaves, Loaded, Generate,
                CreateFile, WriteFile, HoldKey, RenameFile, HoldRetired, Crash, Elapse
  <2>4. NewestIsPublished'
    <3>1. CASE ~overtaken'
      BY <2>1, <2>3, <3>1, NewestStep
    <3>2. CASE overtaken'
      BY <3>2 DEF NewestIsPublished
    <3> QED
      BY <3>1, <3>2
  <2>5. ~overtaken' => StoresAreRight'
    BY <2>1, <2>3, StoresStep
  <2> QED
    BY <2>2, <2>4, <2>5 DEF IInv
<1> QED
  BY <1>1, <1>2, PTL DEF KSpec

(* The file with the highest serial is never a retired one (unless a       *)
(* rotation has put its key before a newer one), for any number of calls,  *)
(* commands and pairs: KeyStore.retire refuses the key that signs, and in  *)
(* a store in order every published key that does not sign is outdated.    *)
THEOREM NewestStaysPublished == KSpec => []NewestIsPublished
<1>1. IInv => NewestIsPublished
  BY DEF IInv
<1> QED
  BY <1>1, KeysHold, PTL

-----------------------------------------------------------------------------
(* A command has a key to sign with.                                       *)

HasOne(keys) == \E j \in DOMAIN keys : ~keys[j].retired
HasOther(keys, kid) == \E j \in DOMAIN keys : ~keys[j].retired /\ keys[j].kid # kid

\* Files are read from the oldest on: the newest, which is published, is still to be
\* read, or has been read as such.
LoadHasNewest(load) ==
  /\ \A p \in load.left : p[2] => \E q \in load.left : ~q[2] /\ q[1] > p[1]
  /\ load.got = <<>> \/ HasOne(load.got) \/ \E q \in load.left : ~q[2]

\* A store that has been read has a key to sign with, another than the one that goes.
CommandsSign ==
  /\ \A c \in DOMAIN reading : LoadHasNewest(reading[c])
  /\ \A c \in Commands : held[c] = <<>> \/ HasOne(held[c])
  /\ \A c \in Commands : stage[c] \in Retiring => HasOther(held[c], making[c].kid)

\* Commands are callers, and what one does is done in its own store.
LEMMA CommandsAreApart ==
  /\ Commands \subseteq Callers /\ Commands \subseteq Openers
  /\ \A c \in Callers, s \in Commands : StoreOf(c) = s <=> c = s
BY KeysAssumption DEF Callers, Openers, StoreOf

LEMMA HeldApart ==
  ASSUME KTypeOK, NEW c \in Callers, NEW keys, Hold(c, keys)
  PROVE  \A s \in Commands : held'[s] = IF s = c THEN keys ELSE held[s]
<1>1. held' = [held EXCEPT ![StoreOf(c)] = keys] /\ DOMAIN held = Openers
  BY DEF Hold, KTypeOK
<1> QED
  BY <1>1, CommandsAreApart

\* When one caller moves.
LEMMA SignWithin ==
  ASSUME KTypeOK, CommandsSign, NEW c \in Callers, NEW place,
         stage' = [stage EXCEPT ![c] = place],
         \A d \in DOMAIN making : d # c => making'[d] = making[d],
         \A d \in DOMAIN reading' : \/ d \in DOMAIN reading /\ reading'[d] = reading[d]
                                   \/ LoadHasNewest(reading'[d]),
         \A s \in Commands : s # c => held'[s] = held[s],
         c \in Commands =>
           /\ held'[c] = <<>> \/ HasOne(held'[c])
           /\ place \in Retiring => HasOther(held'[c], making'[c].kid)
  PROVE  CommandsSign'
<1>1. \A d \in DOMAIN reading' : LoadHasNewest(reading'[d])
  BY DEF CommandsSign
<1>2. \A s \in Commands : held'[s] = <<>> \/ HasOne(held'[s])
  BY DEF CommandsSign
<1>3. ASSUME NEW s \in Commands, stage'[s] \in Retiring
      PROVE  HasOther(held'[s], making'[s].kid)
  <2>1. CASE s = c
    <3>1. stage'[s] = place
      BY <2>1 DEF KTypeOK
    <3> QED
      BY <1>3, <2>1, <3>1
  <2>2. CASE s # c
    <3>1. stage[s] \in Retiring /\ held'[s] = held[s]
      BY <1>3, <2>2, CommandsAreApart DEF KTypeOK
    <3>2. s \in DOMAIN making
      BY <3>1, CommandsAreApart DEF KTypeOK
    <3>3. making'[s] = making[s]
      BY <2>2, <3>2
    <3> QED
      BY <3>1, <3>3 DEF CommandsSign
  <2> QED
    BY <2>1, <2>2
<1> QED
  BY <1>1, <1>2, <1>3 DEF CommandsSign

\* Who goes on, goes on with what is in its store.
LEMMA GoOnSigns ==
  ASSUME KTypeOK, CommandsSign, NEW c \in Callers, NEW ask, NEW keys, GoOn(c, ask, keys),
         \A s \in Commands : s # c => held'[s] = held[s],
         c \in Commands => held'[c] = keys /\ (keys = <<>> \/ HasOne(keys))
  PROVE  CommandsSign'
<1>1. \A d \in DOMAIN reading' : d \in DOMAIN reading /\ reading'[d] = reading[d]
  BY GoOnGoes DEF MapDelete, Restrict
<1>2. ASSUME NEW place, place \notin Retiring, stage' = [stage EXCEPT ![c] = place],
             making' = MapDelete(making, {c})
      PROVE  CommandsSign'
  <2>1. \A d \in DOMAIN making : d # c => making'[d] = making[d]
    BY <1>2 DEF MapDelete, Restrict
  <2> QED
    BY <1>1, <1>2, <2>1, SignWithin
<1>3. ASSUME NEW i \in DOMAIN keys, MayRetire(keys, i), stage' = [stage EXCEPT ![c] = "renaming"],
             making' = MapSet(making, c, keys[i])
      PROVE  CommandsSign'
  <2>1. making'[c] = keys[i] /\ \A d \in DOMAIN making : d # c => making'[d] = making[d]
    BY <1>3 DEF MapSet
  <2>2. HasOther(keys, keys[i].kid)
    BY <1>3 DEF MayRetire, Signs, IsPublished, HasOther
  <2>3. c \in Commands => HasOther(held'[c], making'[c].kid)
    BY <2>1, <2>2
  <2> QED
    BY <1>1, <1>3, <2>1, <2>3, SignWithin
<1>4. Rest(c) \notin Retiring /\ "down" \notin Retiring /\ "generating" \notin Retiring
  BY DEF Rest, Retiring
<1>5. \/ /\ \E place \in {Rest(c), "down"} : stage' = [stage EXCEPT ![c] = place]
         /\ making' = MapDelete(making, {c})
      \/ stage' = [stage EXCEPT ![c] = "generating"] /\ making' = MapDelete(making, {c})
      \/ /\ stage' = [stage EXCEPT ![c] = "renaming"]
         /\ \E i \in DOMAIN keys : MayRetire(keys, i) /\ making' = MapSet(making, c, keys[i])
  BY DEF GoOn, Ends, Leaves, Becomes, GoesTo
<1> QED
  BY <1>2, <1>3, <1>4, <1>5

\* A caller that moves, leaves every store alone, and has nothing to rename.
LEMMA MovesAndSigns ==
  ASSUME KTypeOK, CommandsSign, NEW c \in Callers, NEW place, place \notin Retiring,
         stage' = [stage EXCEPT ![c] = place], held' = held,
         \A d \in DOMAIN making : d # c => making'[d] = making[d],
         \A d \in DOMAIN reading' : \/ d \in DOMAIN reading /\ reading'[d] = reading[d]
                                   \/ LoadHasNewest(reading'[d])
  PROVE  CommandsSign'
BY SignWithin DEF CommandsSign

LEMMA FailsSigns ==
  ASSUME KTypeOK, CommandsSign, NEW c \in Callers, Fails(c)
  PROVE  CommandsSign'
<1> DEFINE place == IF c = Server THEN "down" ELSE Rest(c)
<1>1. place \notin Retiring
  BY DEF Rest, Retiring
<1> HIDE DEF place
<1>2. /\ stage' = [stage EXCEPT ![c] = place] /\ held' = held
      /\ \A d \in DOMAIN reading' : d \in DOMAIN reading /\ reading'[d] = reading[d]
      /\ \A d \in DOMAIN making : d # c => making'[d] = making[d]
  BY DEF Fails, Leaves, GoesTo, MapDelete, Restrict, place
<1> QED
  BY <1>1, <1>2, MovesAndSigns

\* Calls and commands as they begin.
LEMMA BeginningSigns ==
  ASSUME KTypeOK, CommandsSign, NEW c \in Callers,
         \/ c \in Openers /\ \E ask \in Asking(c) : Open(c, ask)
         \/ c \in Handlers /\ \E ask \in Does[c] : Call(c, ask)
  PROVE  CommandsSign'
<1>1. CASE c \in Openers /\ \E ask \in Asking(c) : Open(c, ask)
  <2>1. /\ stage' = [stage EXCEPT ![c] = "listing"] /\ "listing" \notin Retiring
        /\ held' = held /\ making' = making /\ reading' = reading
    BY <1>1 DEF Open, GoesTo, Retiring
  <2> QED
    BY <2>1, MovesAndSigns
<1>2. ASSUME NEW ask \in Does[c], c \in Handlers, Call(c, ask)
      PROVE  CommandsSign'
  <2>1. held' = held /\ c \notin Commands
    BY <1>2, KeysAssumption DEF Call
  <2>2. CASE GoOn(c, ask, held[Server])
    BY <2>1, <2>2, GoOnSigns
  <2>3. CASE GoesTo(c, "listing") /\ UNCHANGED <<reading, making>>
    <3>1. "listing" \notin Retiring
      BY DEF Retiring
    <3> QED
      BY <2>1, <2>3, <3>1, MovesAndSigns DEF GoesTo
  <2> QED
    BY <1>2, <2>2, <2>3 DEF Call
<1> QED
  BY <1>1, <1>2

LEMMA ListSigns ==
  ASSUME KTypeOK, CommandsSign, NewestIsPublished, ~overtaken, NEW c \in Callers, List(c)
  PROVE  CommandsSign'
<1> DEFINE load == [left |-> DOMAIN files, got |-> <<>>]
<1>1. load.left = DOMAIN files /\ load.got = <<>>
  OBVIOUS
<1>2. /\ stage' = [stage EXCEPT ![c] = "reading"] /\ "reading" \notin Retiring
      /\ held' = held /\ making' = making
  BY DEF List, GoesTo, Retiring
<1>3. \A d \in DOMAIN reading' : \/ d \in DOMAIN reading /\ reading'[d] = reading[d]
                                \/ reading'[d] = load
  BY DEF List, MapSet
<1> HIDE DEF load
<1>4. LoadHasNewest(load)
  BY <1>1 DEF LoadHasNewest, NewestIsPublished
<1> QED
  BY <1>2, <1>3, <1>4, MovesAndSigns

LEMMA ReadKeySigns ==
  ASSUME KTypeOK, CommandsSign, NEW c \in Callers, ReadKey(c)
  PROVE  CommandsSign'
<1>1. CASE Fails(c)
  BY <1>1, FailsSigns
<1>2. c \in DOMAIN reading
  BY DEF ReadKey, KTypeOK
<1>3. ASSUME NEW p \in reading[c].left, IsFirst(p, reading[c].left), p \in DOMAIN files,
             reading' = [reading EXCEPT ![c] = [left |-> @.left \ {p},
                                               got |-> <<KeyIn(p)>> \o @.got]],
             UNCHANGED <<files, held, stage, making>>
      PROVE  CommandsSign'
  <2> DEFINE left == reading[c].left
             got == reading[c].got
             now == [left |-> left \ {p}, got |-> <<KeyIn(p)>> \o got]
  <2>1. got \in Seq(Key) /\ left \subseteq Paths /\ KeyIn(p) \in Key /\ KeyIn(p).retired = p[2]
    BY <1>2, <1>3, KeyInFile DEF KTypeOK, KeyIn
  <2>2. /\ \A q \in left : q[2] => \E r \in left : ~r[2] /\ r[1] > q[1]
        /\ got = <<>> \/ HasOne(got) \/ \E q \in left : ~q[2]
    BY <1>2 DEF CommandsSign, LoadHasNewest
  <2>3. now.left = left \ {p} /\ now.got = <<KeyIn(p)>> \o got
    OBVIOUS
  <2>4. reading' = [reading EXCEPT ![c] = now]
    BY <1>3
  <2>5. \A q \in left : q[1] \in Nat /\ q[1] >= p[1]
    BY <1>3, <2>1 DEF IsFirst, Paths
  <2> HIDE DEF now, left, got
  <2>6. ASSUME NEW q \in now.left, q[2]
        PROVE  \E r \in now.left : ~r[2] /\ r[1] > q[1]
    <3>1. PICK r \in left : ~r[2] /\ r[1] > q[1]
      BY <2>2, <2>3, <2>6
    <3>2. r # p
      BY <1>3, <2>3, <2>5, <2>6, <3>1 DEF left
    <3> QED
      BY <2>3, <3>1, <3>2
  <2>7. now.got = <<>> \/ HasOne(now.got) \/ \E q \in now.left : ~q[2]
    <3>1. CASE p[2]
      <4>1. PICK r \in left : ~r[2] /\ r[1] > p[1]
        BY <1>3, <2>2, <3>1 DEF left
      <4>2. r # p
        BY <3>1, <4>1
      <4> QED
        BY <2>3, <4>1, <4>2
    <3>2. CASE ~p[2]
      <4>1. 1 \in DOMAIN now.got /\ now.got[1] = KeyIn(p)
        BY <2>1, <2>3, PutBefore
      <4> QED
        BY <2>1, <3>2, <4>1 DEF HasOne
    <3> QED
      BY <3>1, <3>2
  <2>8. LoadHasNewest(now)
    BY <2>6, <2>7 DEF LoadHasNewest
  <2>9. \A d \in DOMAIN reading' : \/ d \in DOMAIN reading /\ reading'[d] = reading[d]
                                  \/ LoadHasNewest(reading'[d])
    BY <2>4, <2>8
  <2> QED
    BY <1>3, <2>9 DEF CommandsSign
<1> QED
  BY <1>1, <1>2, <1>3 DEF ReadKey

LEMMA LoadedSigns ==
  ASSUME KTypeOK, CommandsSign, NEW c \in Callers, Loaded(c)
  PROVE  CommandsSign'
<1> DEFINE keys == reading[c].got
<1>1. c \in DOMAIN reading /\ Hold(c, keys) /\ reading[c].left = {}
  BY DEF Loaded, KTypeOK
<1>2. keys = <<>> \/ HasOne(keys)
  BY <1>1 DEF CommandsSign, LoadHasNewest
<1>3. \A s \in Commands : held'[s] = IF s = c THEN keys ELSE held[s]
  BY <1>1, HeldApart
<1>4. CASE GoOn(c, asked[c], keys)
  <2>1. /\ \A s \in Commands : s # c => held'[s] = held[s]
        /\ c \in Commands => held'[c] = keys
    BY <1>3
  <2> HIDE DEF keys
  <2> QED
    BY <1>2, <1>4, <2>1, GoOnSigns
<1>5. CASE Becomes(c, asked[c], "generating") /\ UNCHANGED making
  <2>1. "generating" \notin Retiring
    BY DEF Retiring
  <2>2. /\ stage' = [stage EXCEPT ![c] = "generating"] /\ making' = making
        /\ \A d \in DOMAIN reading' : d \in DOMAIN reading /\ reading'[d] = reading[d]
    BY <1>5 DEF Becomes, GoesTo, MapDelete, Restrict
  <2>3. /\ \A s \in Commands : s # c => held'[s] = held[s]
        /\ c \in Commands => held'[c] = <<>> \/ HasOne(held'[c])
    BY <1>2, <1>3
  <2> QED
    BY <2>1, <2>2, <2>3, SignWithin
<1> QED
  BY <1>4, <1>5 DEF Loaded

LEMMA MakingSigns ==
  ASSUME KTypeOK, CommandsSign, NEW c \in Callers, Generate(c) \/ CreateFile(c) \/ WriteFile(c)
  PROVE  CommandsSign'
<1>1. CASE Fails(c)
  BY <1>1, FailsSigns
<1>2. "creating" \notin Retiring /\ "writing" \notin Retiring /\ "holding" \notin Retiring
  BY DEF Retiring
<1>3. CASE Generate(c)
  <2>1. \A d \in DOMAIN making : d # c => making'[d] = making[d]
    BY <1>3 DEF Generate, MapSet
  <2>2. stage' = [stage EXCEPT ![c] = "creating"] /\ held' = held /\ reading' = reading
    BY <1>3 DEF Generate, GoesTo
  <2> QED
    BY <1>2, <2>1, <2>2, MovesAndSigns
<1>4. CASE CreateFile(c) /\ ~Fails(c)
  <2>1. /\ stage' = [stage EXCEPT ![c] = "writing"] /\ held' = held /\ reading' = reading
        /\ making' = making
    BY <1>4 DEF CreateFile, GoesTo
  <2> QED
    BY <1>2, <2>1, MovesAndSigns
<1>5. CASE WriteFile(c)
  <2>1. /\ stage' = [stage EXCEPT ![c] = "holding"] /\ held' = held /\ reading' = reading
        /\ making' = making
    BY <1>5 DEF WriteFile, GoesTo
  <2> QED
    BY <1>2, <2>1, MovesAndSigns
<1> QED
  BY <1>1, <1>3, <1>4, <1>5

LEMMA HoldKeySigns ==
  ASSUME KTypeOK, CommandsSign, NEW c \in Callers, HoldKey(c)
  PROVE  CommandsSign'
<1>1. CASE Fails(c)
  BY <1>1, FailsSigns
<1>2. CASE ~Fails(c)
  <2> DEFINE p == PathOf(making[c])
             keys == held[StoreOf(c)]
             now == <<KeyIn(p)>> \o keys
  <2>1. stage[c] \in Making \cup Retiring
    BY DEF HoldKey, Making
  <2>2. p \in DOMAIN files /\ Hold(c, now)
        /\ (Ends(c) \/ GoOn(c, asked[c], now))
    BY <1>2 DEF HoldKey
  <2>3. keys \in Seq(Key) /\ KeyIn(p) \in Key
    BY <2>2, KeyInFile, StoreOfIs DEF KTypeOK
  <2>4. ~KeyIn(p).retired
    <3>1. p = <<making[c].serial, FALSE>>
      BY <2>1, InHand
    <3> HIDE DEF p
    <3>2. p[2] = FALSE
      BY <3>1
    <3> QED
      BY <3>2 DEF KeyIn
  <2>5. 1 \in DOMAIN now /\ now[1] = KeyIn(p)
    BY <2>3, PutBefore
  <2> HIDE DEF now
  <2>6. HasOne(now)
    BY <2>4, <2>5 DEF HasOne
  <2>7. \A s \in Commands : held'[s] = IF s = c THEN now ELSE held[s]
    BY <2>2, HeldApart
  <2>8. CASE GoOn(c, asked[c], now)
    BY <2>6, <2>7, <2>8, GoOnSigns
  <2>9. CASE Ends(c)
    <3>1. Rest(c) \notin Retiring
      BY DEF Rest, Retiring
    <3>2. /\ stage' = [stage EXCEPT ![c] = Rest(c)]
          /\ \A d \in DOMAIN reading' : d \in DOMAIN reading /\ reading'[d] = reading[d]
          /\ \A d \in DOMAIN making : d # c => making'[d] = making[d]
      BY <2>9 DEF Ends, Leaves, GoesTo, MapDelete, Restrict
    <3> QED
      BY <2>6, <2>7, <3>1, <3>2, SignWithin
  <2> QED
    BY <2>2, <2>8, <2>9
<1> QED
  BY <1>1, <1>2

LEMMA RetiringSigns ==
  ASSUME KTypeOK, CommandsSign, NEW c \in Callers, RenameFile(c) \/ HoldRetired(c)
  PROVE  CommandsSign'
<1>1. CASE Fails(c)
  BY <1>1, FailsSigns
<1>2. CASE RenameFile(c) /\ ~Fails(c)
  <2>1. /\ stage[c] \in Retiring /\ stage' = [stage EXCEPT ![c] = "renamed"]
        /\ held' = held /\ making' = making /\ reading' = reading
    BY <1>2 DEF RenameFile, GoesTo, Retiring
  <2>2. c \in Commands => HasOther(held[c], making[c].kid) /\ (held[c] = <<>> \/ HasOne(held[c]))
    BY <2>1 DEF CommandsSign
  <2> QED
    BY <2>1, <2>2, SignWithin
<1>3. CASE HoldRetired(c)
  <2> DEFINE keys == held[StoreOf(c)]
             now == [i \in DOMAIN keys |->
                       IF keys[i].kid = making[c].kid THEN Retired(making[c]) ELSE keys[i]]
  <2>1. Hold(c, now) /\ Ends(c) /\ stage[c] \in Retiring
    BY <1>3 DEF HoldRetired, Retiring
  <2>2. \A s \in Commands : held'[s] = IF s = c THEN now ELSE held[s]
    BY <2>1, HeldApart
  <2>3. ASSUME c \in Commands
        PROVE  HasOne(now)
    <3>1. keys = held[c]
      BY <2>3, CommandsAreApart
    <3>2. PICK j \in DOMAIN keys : ~keys[j].retired /\ keys[j].kid # making[c].kid
      BY <2>1, <2>3, <3>1 DEF CommandsSign, HasOther
    <3>3. j \in DOMAIN now /\ now[j] = keys[j]
      BY <3>2
    <3> HIDE DEF now
    <3> QED
      BY <3>2, <3>3 DEF HasOne
  <2> HIDE DEF now
  <2>4. Rest(c) \notin Retiring
    BY DEF Rest, Retiring
  <2>5. /\ stage' = [stage EXCEPT ![c] = Rest(c)]
        /\ \A d \in DOMAIN reading' : d \in DOMAIN reading /\ reading'[d] = reading[d]
        /\ \A d \in DOMAIN making : d # c => making'[d] = making[d]
    BY <2>1 DEF Ends, Leaves, GoesTo, MapDelete, Restrict
  <2> QED
    BY <2>2, <2>3, <2>4, <2>5, SignWithin
<1> QED
  BY <1>1, <1>2, <1>3

LEMMA CrashSigns ==
  ASSUME KTypeOK, CommandsSign, NEW s \in Openers, Crash(s)
  PROVE  CommandsSign'
<1> DEFINE dead == {c \in Callers : StoreOf(c) = s}
<1>1. \A d \in DOMAIN reading' : d \in DOMAIN reading /\ reading'[d] = reading[d]
  BY DEF Crash, MapDelete, Restrict
<1>2. \A c \in Commands : held'[c] \in {<<>>, held[c]} /\ (c \notin dead => held'[c] = held[c])
  BY CommandsAreApart DEF Crash, KTypeOK
<1>3. ASSUME NEW c \in Commands, stage'[c] \in Retiring
      PROVE  c \notin dead /\ stage[c] \in Retiring /\ making'[c] = making[c]
  <2>1. c \notin dead
    BY <1>3, CommandsAreApart DEF Crash, Retiring
  <2>2. stage'[c] = stage[c]
    BY <2>1, CommandsAreApart DEF Crash
  <2>3. c \in DOMAIN making
    BY <1>3, <2>2, CommandsAreApart DEF KTypeOK
  <2>4. making'[c] = making[c]
    BY <2>1, <2>3 DEF Crash, MapDelete, Restrict
  <2> QED
    BY <1>3, <2>1, <2>2, <2>4
<1> HIDE DEF dead
<1> QED
  BY <1>1, <1>2, <1>3 DEF CommandsSign

LEMMA CommandsSignStep ==
  ASSUME KTypeOK, NewestIsPublished, CommandsSign, ~overtaken, [KNext]_kvars
  PROVE  CommandsSign'
<1>1. ASSUME NEW c \in Openers, Crash(c)
      PROVE  CommandsSign'
  BY <1>1, CrashSigns
<1>2. ASSUME NEW c \in Openers, NEW ask \in Asking(c), Open(c, ask)
      PROVE  CommandsSign'
  BY <1>2, BeginningSigns DEF Callers
<1>3. ASSUME NEW h \in Handlers, NEW ask \in Does[h], Call(h, ask)
      PROVE  CommandsSign'
  BY <1>3, BeginningSigns DEF Callers
<1>4. ASSUME NEW c \in Callers, List(c) \/ ReadKey(c) \/ Loaded(c)
      PROVE  CommandsSign'
  BY <1>4, ListSigns, ReadKeySigns, LoadedSigns
<1>5. ASSUME NEW c \in Callers, Generate(c) \/ CreateFile(c) \/ WriteFile(c)
      PROVE  CommandsSign'
  BY <1>5, MakingSigns
<1>6. ASSUME NEW c \in Callers, HoldKey(c)
      PROVE  CommandsSign'
  BY <1>6, HoldKeySigns
<1>7. ASSUME NEW c \in Callers, RenameFile(c) \/ HoldRetired(c)
      PROVE  CommandsSign'
  BY <1>7, RetiringSigns
<1>8. CASE Elapse \/ UNCHANGED kvars
  <2>1. UNCHANGED <<held, stage, reading, making>>
    BY <1>8 DEF Elapse, kvars, bound
  <2> QED
    BY <2>1 DEF CommandsSign
<1> QED
  BY <1>1, <1>2, <1>3, <1>4, <1>5, <1>6, <1>7, <1>8 DEF KNext

(* A command that has opened a store signs, and its retire leaves it one   *)
(* to sign with: KeyStore.load reads the files one by one from the oldest  *)
(* (src/src/identity/keys.ts), and whatever was renamed meanwhile ends the *)
(* load.                                                                   *)
THEOREM CommandsKeepAKey == KSpec => []CommandsCanSign
<1>1. KInit => CommandsSign
  BY CommandsAreApart DEF KInit, CommandsSign, Retiring
<1>2. IInv /\ (~overtaken => CommandsSign) /\ [KNext]_kvars => (~overtaken' => CommandsSign')
  <2> SUFFICES ASSUME IInv, ~overtaken => CommandsSign, [KNext]_kvars, ~overtaken'
               PROVE  CommandsSign'
    OBVIOUS
  <2>1. KTypeOK /\ NewestIsPublished
    BY DEF IInv
  <2>2. ~overtaken
    BY <2>1 DEF KTypeOK, KNext, kvars, Open, Call, List, ReadKey, Fails, Leaves, Loaded, Generate,
                CreateFile, WriteFile, HoldKey, RenameFile, HoldRetired, Crash, Elapse
  <2> QED
    BY <2>1, <2>2, CommandsSignStep
<1>3. (~overtaken => CommandsSign) => CommandsCanSign
  <2> SUFFICES ASSUME CommandsSign, NEW c \in Commands, held[c] # <<>>
               PROVE  Published(held[c]) # {}
    BY DEF CommandsCanSign
  <2>1. PICK j \in DOMAIN held[c] : ~held[c][j].retired
    BY DEF CommandsSign, HasOne
  <2>2. held[c][j].kid \in Published(held[c])
    BY <2>1 DEF Published, IsPublished
  <2> QED
    BY <2>2
<1> QED
  BY <1>1, <1>2, <1>3, KeysHold, PTL DEF KSpec
=============================================================================
