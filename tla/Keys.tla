-------------------------------- MODULE Keys --------------------------------
(***************************************************************************)
(* The signing keys: KeyStore (src/src/identity/keys.ts), a directory of   *)
(* files that several processes read and write, and who opens or reloads a *)
(* store of them: `up` (src/src/up.ts), the calls it answers               *)
(* (src/src/team/methods/admin.ts, src/src/projects/service.ts,            *)
(* src/src/web/studio.ts), and the commands run beside it (src/src/key.ts, *)
(* src/src/token.ts).                                                      *)
(*                                                                         *)
(* The files are the one truth and a store is what a process last read of  *)
(* them.  Nothing is locked: between a listing and the reads it leads to,  *)
(* and between those and the store's assignment, anybody may go on.        *)
(***************************************************************************)
EXTENDS Naturals, Sequences, Functions

CONSTANTS
  Server,    \* the process of `up`
  Handlers,  \* calls the server answers, once each
  Commands,  \* processes run beside the server, once each
  Does,      \* what each call and command may ask
  MaxKeys    \* a bound on the pairs generated

Openers == Commands \cup {Server}
Callers == Openers \cup Handlers

\* "list" stands for all that only reads: the JWKS, admin.keys.list, the status.
Asks == [does : {"list", "rotate", "sign"}]
        \cup [does : {"retire", "verify"}, kid : 1..MaxKeys]

ASSUME KeysAssumption ==
  /\ Server \notin Handlers \cup Commands /\ Handlers \cap Commands = {}
  /\ MaxKeys \in Nat
  /\ Does \in [Handlers \cup Commands -> SUBSET Asks]

VARIABLES
  files,    \* <<serial, retired>> -> the pair in it, and whether all of it is there
  held,     \* #keys of the store of each process, in its order
  looked,   \* whether the server read the directory within RELOAD_INTERVAL_MS
  stage,    \* where each caller is
  asked,    \* what it was asked
  reading,  \* the names a load has yet to read, and the keys it has
  making,   \* the key a caller is writing or renaming
  made,     \* pairs generated so far: the number of the last is its kid
  signed,   \* kids the server has signed a token with
  overtaken \* (ghost) whether a rotation has ever put its key before a newer one

bound == <<asked, reading, making>>
kvars == <<files, held, looked, stage, bound, made, signed, overtaken>>

StoreOf(c) == IF c \in Handlers THEN Server ELSE c

Paths == (Nat \X BOOLEAN)
Key == [serial : Nat, kid : 1..MaxKeys, retired : BOOLEAN]
Serve == [does |-> "serve"]
Asking(c) == IF c = Server THEN {Serve} ELSE Does[c]

\* published, and of those the first: signingKey.
IsPublished(keys, i) == i \in DOMAIN keys /\ ~keys[i].retired
Published(keys) == {keys[i].kid : i \in {i \in DOMAIN keys : IsPublished(keys, i)}}

Signs(keys, i) == IsPublished(keys, i) /\ \A j \in DOMAIN keys : j < i => keys[j].retired
SigningKey(keys) == {keys[i].kid : i \in {i \in DOMAIN keys : Signs(keys, i)}}

\* find: the first of that kid.
Finds(keys, kid, i) ==
  /\ i \in DOMAIN keys /\ keys[i].kid = kid
  /\ \A j \in DOMAIN keys : j < i => keys[j].kid # kid

Loading == {"listing", "reading"}
Making  == {"creating", "writing", "holding"}
Retiring == {"renaming", "renamed"}
Working == Loading \cup Making \cup Retiring \cup {"generating"}

KInit ==
  /\ files = <<>>
  /\ held = [s \in Openers |-> <<>>]
  /\ looked = FALSE
  /\ stage = [c \in Callers |-> IF c = Server THEN "down" ELSE "unrun"]
  /\ asked = <<>> /\ reading = <<>> /\ making = <<>>
  /\ made = 0
  /\ signed = {}
  /\ overtaken = FALSE

MapSet(map, key, value) ==
  [k \in DOMAIN map \cup {key} |-> IF k = key THEN value ELSE map[k]]
MapDelete(map, keys) == Restrict(map, DOMAIN map \ keys)

GoesTo(c, place) == stage' = [stage EXCEPT ![c] = place]
Hold(c, keys) == held' = [held EXCEPT ![StoreOf(c)] = keys]

\* What comes after: a call is answered, a command over, and `up` has come up.
Rest(c) == IF c = Server THEN "up" ELSE "over"

Leaves(c, place) ==
  /\ GoesTo(c, place)
  /\ asked' = MapDelete(asked, {c})
  /\ reading' = MapDelete(reading, {c}) /\ making' = MapDelete(making, {c})

Ends(c) == Leaves(c, Rest(c))

\* What was thrown ends the call or the process, and the store is as it was.
Fails(c) ==
  /\ Leaves(c, IF c = Server THEN "down" ELSE Rest(c))
  /\ UNCHANGED <<files, held, made, signed, overtaken>>

-----------------------------------------------------------------------------
(* Once the store is open, or has been looked at again.                    *)

Becomes(c, ask, place) ==
  /\ GoesTo(c, place)
  /\ asked' = MapSet(asked, c, ask)
  /\ reading' = MapDelete(reading, {c})

\* Mutation: the key that signs may go too.
MayRetireAny(keys, i) == IsPublished(keys, i)

\* retire: a key that is published and does not sign.
MayRetire(keys, i) ==
  IsPublished(keys, i) /\ \E j \in DOMAIN keys : Signs(keys, j) /\ keys[j].kid # keys[i].kid

\* `up` says which key it signs with before it serves, and fails if there is none.
GoOn(c, ask, keys) ==
  \/ /\ ask.does \in {"list", "verify"}
     /\ Ends(c)
     /\ UNCHANGED signed
  \/ /\ ask.does = "serve"
     /\ Leaves(c, IF Published(keys) = {} THEN "down" ELSE Rest(c))
     /\ UNCHANGED signed
  \/ /\ ask.does = "sign"
     /\ Ends(c)
     /\ signed' = signed \cup (IF StoreOf(c) = Server THEN SigningKey(keys) ELSE {})
  \/ /\ ask.does = "rotate"
     /\ Becomes(c, ask, "generating") /\ making' = MapDelete(making, {c})
     /\ UNCHANGED signed
  \/ /\ ask.does = "retire"
     /\ \E i \in DOMAIN keys :
          /\ Finds(keys, ask.kid, i) /\ MayRetire(keys, i)
          /\ Becomes(c, ask, "renaming") /\ making' = MapSet(making, c, keys[i])
     /\ UNCHANGED signed
  \/ /\ ask.does = "retire"
     /\ ~\E i \in DOMAIN keys : Finds(keys, ask.kid, i) /\ MayRetire(keys, i)
     /\ Ends(c)
     /\ UNCHANGED signed

\* open: `up` starts, or a command is run.
Open(c, ask) ==
  /\ ask \in Asking(c)
  /\ stage[c] = (IF c = Server THEN "down" ELSE "unrun")
  /\ GoesTo(c, "listing")
  /\ asked' = MapSet(asked, c, ask)
  /\ UNCHANGED <<files, held, looked, reading, making, made, signed, overtaken>>

\* A call arrives.  A token is looked for in the directory only if its kid is not
\* among the keys; to sign takes what there is; everything else reloads first.
Call(h, ask) ==
  /\ stage[Server] = "up" /\ stage[h] = "unrun" /\ ask \in Does[h]
  /\ ask.does = "verify" => ask.kid \notin Published(held[Server])
  /\ IF ask.does = "sign" \/ looked
     THEN GoOn(h, ask, held[Server]) /\ UNCHANGED looked
     ELSE /\ looked' = TRUE
          /\ GoesTo(h, "listing")
          /\ asked' = MapSet(asked, h, ask)
          /\ UNCHANGED <<reading, making, signed>>
  /\ UNCHANGED <<files, held, made, overtaken>>

Elapse ==
  /\ looked
  /\ looked' = FALSE
  /\ UNCHANGED <<files, held, stage, bound, made, signed, overtaken>>

-----------------------------------------------------------------------------
(* load.                                                                   *)

List(c) ==
  /\ stage[c] = "listing"
  /\ GoesTo(c, "reading")
  /\ reading' = MapSet(reading, c, [left |-> DOMAIN files, got |-> <<>>])
  /\ UNCHANGED <<files, held, looked, asked, making, made, signed, overtaken>>

\* In the order of the names: 0001.pem, 0001.retired.pem, 0002.pem ...
IsFirst(p, names) ==
  p \in names /\ \A q \in names : p[1] < q[1] \/ (p[1] = q[1] /\ (q[2] \/ ~p[2]))

KeyIn(p) == [serial |-> p[1], kid |-> files[p].kid, retired |-> p[2]]

\* readKey: a name that is no longer there, or half a key, ends the load.  The keys
\* are sorted by falling serial, which is against the order they are read in; of two of
\* one serial at most one is published, and their order makes no difference.
ReadKey(c) ==
  /\ stage[c] = "reading"
  /\ \E p \in reading[c].left :
       /\ IsFirst(p, reading[c].left)
       /\ IF p \in DOMAIN files /\ files[p].whole
          THEN /\ reading' = [reading EXCEPT
                    ![c] = [left |-> @.left \ {p}, got |-> <<KeyIn(p)>> \o @.got]]
               /\ UNCHANGED <<files, held, stage, asked, making, made, signed, overtaken>>
          ELSE Fails(c)
  /\ UNCHANGED looked

\* An empty directory opens with a key of its own, and reloads as none.
Loaded(c) ==
  /\ stage[c] = "reading" /\ reading[c].left = {}
  /\ Hold(c, reading[c].got)
  /\ IF c \in Openers /\ reading[c].got = <<>>
     THEN /\ Becomes(c, asked[c], "generating")
          /\ UNCHANGED <<making, signed>>
     ELSE GoOn(c, asked[c], reading[c].got)
  /\ UNCHANGED <<files, looked, made, overtaken>>

-----------------------------------------------------------------------------
(* rotate.                                                                 *)

\* The pair is there, and the serial is one more than that of the first key there is now.
Generate(c) ==
  LET keys == held[StoreOf(c)]
      serial == IF keys = <<>> THEN 1 ELSE Head(keys).serial + 1
  IN  /\ stage[c] = "generating" /\ made < MaxKeys
      /\ made' = made + 1
      /\ making' = MapSet(making, c, [serial |-> serial, kid |-> made + 1, retired |-> FALSE])
      /\ GoesTo(c, "creating")
      /\ UNCHANGED <<files, held, looked, asked, reading, signed, overtaken>>

PathOf(k) == <<k.serial, k.retired>>

\* Mutation: the file is written whatever is there ("w").
CreateOrReplaceFile(c) ==
  /\ stage[c] = "creating"
  /\ files' = MapSet(files, PathOf(making[c]), [kid |-> making[c].kid, whole |-> FALSE])
  /\ GoesTo(c, "writing")
  /\ UNCHANGED <<held, looked, asked, reading, making, made, signed, overtaken>>

\* writeFile with "wx", in two: the file is there, and then what is in it.
CreateFile(c) ==
  /\ stage[c] = "creating"
  /\ IF PathOf(making[c]) \in DOMAIN files
     THEN Fails(c)
     ELSE /\ files' = MapSet(files, PathOf(making[c]),
                             [kid |-> making[c].kid, whole |-> FALSE])
          /\ GoesTo(c, "writing")
          /\ UNCHANGED <<held, asked, reading, making, made, signed, overtaken>>
  /\ UNCHANGED looked

WriteFile(c) ==
  /\ stage[c] = "writing"
  /\ files' = [p \in DOMAIN files |->
                 IF files[p].kid = making[c].kid THEN [files[p] EXCEPT !.whole = TRUE]
                 ELSE files[p]]
  /\ GoesTo(c, "holding")
  /\ UNCHANGED <<held, looked, asked, reading, making, made, signed, overtaken>>

\* What was written is read back by its name, and goes before the keys there are now.
HoldKey(c) ==
  LET p == PathOf(making[c])
      keys == held[StoreOf(c)]
  IN  /\ stage[c] = "holding"
      /\ IF p \in DOMAIN files /\ files[p].whole
         THEN /\ Hold(c, <<KeyIn(p)>> \o keys)
              /\ overtaken' = (overtaken \/ (keys # <<>> /\ Head(keys).serial > p[1]))
              /\ IF asked[c].does = "rotate" THEN Ends(c) /\ UNCHANGED signed
                 ELSE GoOn(c, asked[c], <<KeyIn(p)>> \o keys)
              /\ UNCHANGED <<files, made>>
         ELSE Fails(c)
      /\ UNCHANGED looked

-----------------------------------------------------------------------------
(* retire.                                                                 *)

Retired(k) == [k EXCEPT !.retired = TRUE]

RenameFile(c) ==
  LET k == making[c]
  IN  /\ stage[c] = "renaming"
      /\ IF PathOf(k) \in DOMAIN files
         THEN /\ files' = MapDelete(MapSet(files, PathOf(Retired(k)), files[PathOf(k)]),
                                    {PathOf(k)})
              /\ GoesTo(c, "renamed")
              /\ UNCHANGED <<held, asked, reading, making, made, signed, overtaken>>
         ELSE Fails(c)
      /\ UNCHANGED looked

HoldRetired(c) ==
  /\ stage[c] = "renamed"
  /\ LET keys == held[StoreOf(c)]
     IN  Hold(c, [i \in DOMAIN keys |->
                    IF keys[i].kid = making[c].kid THEN Retired(making[c]) ELSE keys[i]])
  /\ Ends(c)
  /\ UNCHANGED <<files, looked, made, signed, overtaken>>

-----------------------------------------------------------------------------

\* A process dies, and what it had in memory with it.
Crash(s) ==
  LET dead == {c \in Callers : StoreOf(c) = s}
  IN  /\ stage[s] \notin {"unrun", "over", "down"}
      /\ stage' = [c \in Callers |-> IF c \notin dead THEN stage[c]
                                     ELSE IF c = Server THEN "down"
                                     ELSE IF stage[c] = "unrun" THEN "unrun" ELSE "over"]
      /\ asked' = MapDelete(asked, dead)
      /\ reading' = MapDelete(reading, dead) /\ making' = MapDelete(making, dead)
      /\ held' = [held EXCEPT ![s] = <<>>]
      /\ looked' = IF s = Server THEN FALSE ELSE looked
      /\ UNCHANGED <<files, made, signed, overtaken>>

KNext ==
  \/ \E c \in Openers : Crash(c) \/ \E ask \in Asking(c) : Open(c, ask)
  \/ \E h \in Handlers : \E ask \in Does[h] : Call(h, ask)
  \/ \E c \in Callers :
       \/ List(c) \/ ReadKey(c) \/ Loaded(c)
       \/ Generate(c) \/ CreateFile(c) \/ WriteFile(c) \/ HoldKey(c)
       \/ RenameFile(c) \/ HoldRetired(c)
  \/ Elapse

KSpec == KInit /\ [][KNext]_kvars

-----------------------------------------------------------------------------

KTypeOK ==
  /\ DOMAIN files \subseteq Paths
  /\ \A p \in DOMAIN files : files[p] \in [kid : 1..MaxKeys, whole : BOOLEAN]
  /\ held \in [Openers -> Seq(Key)]
  /\ looked \in BOOLEAN
  /\ stage \in [Callers -> {"unrun", "over", "down", "up"} \cup Working]
  /\ DOMAIN asked = {c \in Callers : stage[c] \in Working}
  /\ \A c \in DOMAIN asked : asked[c] \in Asks \cup {Serve}
  /\ DOMAIN reading = {c \in Callers : stage[c] = "reading"}
  /\ \A c \in DOMAIN reading : reading[c] \in [left : SUBSET Paths, got : Seq(Key)]
  /\ DOMAIN making = {c \in Callers : stage[c] \in Making \cup Retiring}
  /\ \A c \in DOMAIN making : making[c] \in Key /\ ~making[c].retired
  /\ made \in 0..MaxKeys
  /\ signed \subseteq 1..MaxKeys
  /\ overtaken \in BOOLEAN

(* There is always a key to sign with: of the files, the one with the      *)
(* highest serial is never a retired one, whichever processes retire what  *)
(* each of them takes for a key that no longer signs, and whatever they    *)
(* have not yet read.  That takes a store whose first key is its newest,   *)
(* and a rotation that comes to its end after a reload has found a newer   *)
(* key still puts its own before that.                                     *)
NewestIsPublished ==
  ~overtaken =>
    \A p \in DOMAIN files : p[2] => \E q \in DOMAIN files : ~q[2] /\ q[1] > p[1]

(* A key that is published is not lost: no file of one is replaced, by two *)
(* rotations of two processes (or of one) that came to the same serial     *)
(* either.  It stays where it is or is renamed as retired.                 *)
PublishedAreKept ==
  [][\A p \in DOMAIN files : ~p[2] =>
       \/ p \in DOMAIN files' /\ files'[p].kid = files[p].kid
       \/ <<p[1], TRUE>> \in DOMAIN files' /\ files'[<<p[1], TRUE>>].kid = files[p].kid]_files

(* A command that has opened a store has a key to sign with, though it     *)
(* read the files one by one while others wrote and renamed them.          *)
CommandsCanSign ==
  ~overtaken => \A c \in Commands : held[c] # <<>> => Published(held[c]) # {}

(* "Every key that is not retired goes on being published, and a token     *)
(* signed a second ago still verifies" (admin.ts): while the server is up  *)
(* its store publishes whatever it has signed with and nobody retired.     *)
SignedStillVerifies ==
  stage[Server] = "up" =>
    \A p \in DOMAIN files :
      ~p[2] /\ files[p].kid \in signed => files[p].kid \in Published(held[Server])
=============================================================================
