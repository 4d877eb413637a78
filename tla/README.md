# NarraLeaf Team in TLA+

`nlteam up` is one process that stands beside a `loreserver` and a directory. It
keeps accounts, signs the tokens people call with, authorizes what loreserver is
asked, and holds one WebSocket per open Studio, over which Studios see who is on
a project, meet in rooms, and pass bytes to each other. These modules are the
parts of that program with a protocol in them, checked by TLC on small servers
and proved by TLAPS for servers of every size.

Paths below are those of the repository. `PROJECT.json` gives, for every
definition, the lines it stands for.

## The system

Everything runs on one thread of node. Two things interleave nevertheless:

* handlers that **await** (a file, a hash, a child process, another process's
  database write) and go on with what they read before;
* handlers that **call out** and are re-entered: publishing an event writes to
  sockets, a socket with too much queued closes at once, its closing retires
  what the connection had announced, and that publishes.

| part | state | operations | depends on |
|---|---|---|---|
| presence and rooms: `team/presence.ts`, `methods/clients.ts`, `methods/live.ts` | `instances`, `byConnection`, `sessions` (three Maps) | announce, withdraw, open, rule, join, request, answer, leave, close, say, dropConnection | publishes through the hub; dropped by a session that closes |
| hub and sessions: `team/hub.ts`, `session.ts`, `topics.ts`, `endpoint.ts` | the Set of sessions, a sequence per topic; of each session its topics, whether it is over, calls in flight | add, remove, publish, forget, closeAll; receive, identify, subscribe, unsubscribe, closed | writes to the WebSocket; asks the accounts who is calling |
| WebSocket: `team/websocket.ts` | bytes queued, pending input, last heard | read frames, write, ping, close | calls the session's `onMessage` and `onClose`, the latter inside a write |
| bytes of rooms: `team/blobs.ts`, `web/blobs.ts` | a Map of files in transit, parked readers, a sweep timer | reserve, append, read, drop, sweep, prune, close | presence says who is in the room; the hub announces |
| accounts: `identity/users.ts`, `database.ts` | SQLite rows, shared with the CLI's processes | create, authenticate, disable, enable, revoke, operators | derivations; every call identifies through it |
| tokens and keys: `identity/tokens.ts`, `keys.ts`, `bearer.ts` | a list of keys in memory, a directory of them | sign, verify, reload, rotate, retire | two processes over one directory |
| derivations: `identity/passwords.ts` | turns taken, callers parked | takeATurn, giveTheTurnBack | every hash and verification |
| sign-in limiter: `identity/signin.ts` | refusals per name and address | waitFor, refused, accepted, makeRoom | around an awaited verification |
| repeated writes: `identity/writes.ts`, `team/methods/admin.ts` | a table of client ids | look for, note | around awaited handlers |
| projects: `projects/registry.ts`, `create.ts`, `refresh.ts`, `cache.ts`, `read.ts` | rows; readings in a Map; what is being read | create, add, remove, archive, pass, page of history, forget | the native library, whose calls are slow |
| loreserver: `loreserver/supervisor.ts`, `health.ts` | the child, its attempts, a timer | start, exit, restart, give up, stop | a process of its own |
| start and stop: `up.ts`, `grpc/server.ts` | everything above | start in an order, stop in another | |
| the command line's client: `client/session.ts` | calls in flight, timers, whether it is open | call, answer, time out, close | the same protocol from the other end |
| comments and overlay: `comments/store.ts`, `overlay/store.ts` | rows with revisions | one transaction each | publish when written |
| schema: `identity/database.ts`, `init.ts` | one SQLite file, opened by processes of several builds | open, migrate, make the first account | everything that keeps rows |
| installation: `loreserver/install.ts`, `download.ts`, `extract.ts`, `cache.ts`, `identify.ts` | a directory all servers of a user share, one per server | find, fetch, unpack, rename, verify | `up`, before it runs anything |
| certificates: `tls/authority.ts`, `tls/supplied.ts`, `grpc/server.ts` | four files, written one by one, and an operator's own | make, keep, replace, refuse, choose by name | `up`; loreserver trusts the authority alone |
| authorization: `projects/service.ts` | nothing of its own | check, look up, exchange, told of repositories made and gone | keys (a reload is an await), projects, decisions |
| decisions: `identity/audit.ts` | a table with a limit, a counter in memory | record, trim, page | every check writes one |
| settings: `identity/settings.ts`, `settings.ts`, `team/collaboration.ts` | rows of settings and of what `up` was started as | read, set, persist, judge a call by them | every call and every file of a session |
| credentials: `client/config.ts`, `login.ts`, `client/authority.ts`, `client/http.ts` | one file of a user's, written anew by each command | log in, log out | what a session is opened with |
| gRPC: `grpc/server.ts`, `grpc/client.ts`, `grpc/framing.ts` | a stream and what of a message has come | serve one call, make one | loreserver asks the authorization service by it, projects ask loreserver |
| status: `team/status.ts` | an answer kept for a moment, a gather in flight | ask, gather, fail | the keys, the store on disk |

The rest of the repository keeps no state that two steps can disagree on: formats
(`msgpack`, `protobuf`, DER), documents served over HTTP, arguments, sentences,
the calls into the native library. `PROJECT.json` lists every part, with the reason
where it is left out.

### What is hard, and what would be right

* **Presence.** Ids move between connections and projects while rooms go on
  naming them; a room is controlled by an id, not by an account. Right is: every
  id is carried by exactly one live connection; a room always has its opener;
  control and places never pass to another account. (`CarriedOnce`, `RoomsAreLed`,
  `ControlStaysPut`, `PlacesAreNotInherited`, `NobodyWalksIn`.)
* **Delivery.** The nesting above. Right is: nesting is invisible, the numbers
  alone tell a client that it missed something, a client in step is right, nothing
  outlives its connection. (`NestingIsInvisible`, `NothingMissedUnnoticed`,
  `InStepMeansRight`, `NobodyLeftBehind`.)
* **Derivations.** A turn is passed on, not returned and taken again. Right is: no
  third derivation slips in, no turn is lost, first come first served (`TurnsAreSound`,
  `FirstComeFirstServed`).
* **Blobs.** The disk is awaited by everybody at once. Right is: whoever reads a file
  to its end has it, whole and in order; nothing is left on the disk but what it would
  not let go; every read ends.
  (`FilesArriveWhole`, `NothingLeftOnDisk`, `EveryReadEnds`.)
* **Keys.** One directory, many processes, no lock. Right is: a published key is
  never lost or replaced, there is always one to sign with, and what was signed a
  moment ago still verifies. (`PublishedAreKept`, `NewestIsPublished`,
  `CommandsCanSign`, `SignedStillVerifies`.)
* **Accounts.** Rows read before a derivation, used after it, written by a command
  meanwhile. Right is: a revocation holds, for the tokens about to be handed out too;
  an operator remains; a repeat changes nothing; everybody is answered.
  (`RevokedForGood`, `AnOperatorRemains`, `RepeatsChangeNothing`, `EverybodyIsAnswered`.)
* **Sign-in.** The wait is asked before the password is checked and told after it, and
  the table is bounded. Right is: a wait that was imposed is served (`WaitsAreServed`).
* **Start and stop.** Any step may fail, the child may exit at any point, and a
  signal may come anywhere. Right is: no loreserver is left behind, and a run that is
  told to end ends. (`NoServerLeftBehind`, `UpEnds`.)
* **What is on disk and may be half written.** A schema, an installation, an
  authority, a checkout. Right is: whatever died where, what is used is whole, and is the
  one meant. (`SchemaIsWhole`, `OnlyThePinnedBuildRuns`, `ShownChainsToTheAuthority`,
  `ReadyIsWhole`.)
* **Projects.** A row is written before loreserver is asked, and loreserver asks back
  about it; readings take long. Right is: a retry is not a collision with itself, a
  repository comes back to its row, what is asked for is read, and a reading is of the
  row it is kept for. (`RetriesAreNotCollisions`, `RepositoriesComeBackToTheirRow`,
  `EveryRequestIsRead`, `ReadingsAreOfTheirRow`.)
* **Lists and tables.** They are read a page at a time while they are written and
  trimmed. Right is: a page is missed by nobody, a repeat finds its row, a refusal is the
  last to go. (`PagesAreWhole`, `RepeatsFindTheirRow`, `RefusalsOutlast`.)
* **A deployment that is closed to collaboration** while sessions are open that were
  told otherwise, and while calls and transfers are awaited. Right is: what it is still at
  had begun before it was closed (`ClosedIsClosed`).
* **The wire.** Streams are cut anywhere, either end may be over at any point, and a
  network goes without a word. Right is: what arrives is what was sent, every call ends,
  who is lost is let go, and a session in the hub has a connection.
  (`MessagesArriveWhole`, `CallsEnd`, `TheLostAreLetGo`, `SessionsAreConnected`.)
* **A client's file.** Commands that read it, wait on a server, and write it anew, and that
  die anywhere. Right is: the servers on file stay, whole, with the authority that was
  trusted (`CredentialsAreKept`).
* **A call of gRPC.** Cut anywhere, and given up at either end. Right is: a method runs once
  at most, for one whole message, and what resolves is its one answer
  (`CallsCarryOneMessage`).
* **A shared answer.** Asking twice costs once, and a failure is not kept
  (`StatusIsShared`).

## The modules

```
Presence          rooms and instances, one call a step
  MCPresence        a small server
  Delivery          the same with hub, sessions and nesting; implements Presence
    PresenceProofs    the invariants of both
      DeliveryProofs    that Delivery implements Presence, and that copies are right
    MCDelivery        small servers and what their clients send
Blobs             files in transit, cut at every await, and the disk under them
  BlobsProofs       its theorems
  MCBlobs           one name and everybody who uses it
Keys              the directory of signing keys and every process that reads it
  KeysProofs        its theorems
  MCKeys            a server with three calls, and a command
DerivationSlots   turns of password derivation
  Accounts          accounts, sign-ins, tokens and the operators' writes, with turns
    AccountsProofs    theorems of both
    MCAccounts        two operators, a member, a machine, and what they ask

Supervisor        one loreserver kept alive
  Up                a run of nlteam up around it, from its first step to its last
Schema            team.db, opened by processes of several builds
Install           getting the pinned loreserver and running no other
Certificates      an authority, an endpoint, and files that are half there
Projects          making projects
  Readings          reading them, through checkouts on disk
    Authorization     what loreserver asks and tells of them
      RegistryProofs    theorems of the three together
Wire              frames, the upgrade, a session and its client
Status            one answer for everybody who asks
  MCServer          Up, Schema, Install, Certificates, Authorization, Wire, Status
  ServerProofs      theorems of Up, Schema, Install, Certificates, Wire, Status

Paging            a list read a page at a time while it is written
  Conversations     threads and comments
    Overlay           records attached to a project
  Decisions         the audit, and its trim
  Roster            accounts as a list
SignIn            waits after wrong passwords
Settings          what was chosen, and what is answered by it
Credentials       what an account keeps of its servers, and login and logout
Calls             one call of gRPC, at both ends
  MCRecords         Overlay, Decisions, Roster, SignIn, Settings, Authorization,
                    Credentials, Calls
  RecordsProofs     theorems of all these but Authorization
```

An indented module EXTENDS the one above it. `MCServer` and `MCRecords` hold several
parts that share no state which is modelled: a variable `part`, chosen once, says which
of them the behaviour is about, and `Next` is a step of that part. What a part shares with
another in the program is in the part: the checkouts of Readings and the questions of
Authorization are about the rows of Projects, and Up holds the sessions that keep its
listener open and the reader it starts.

### Presence

`instances`, `byConnection` and `sessions` are the three Maps of `TeamPresence`.
Each handler of `clients.*` and `live.*` is one action, because none of them
awaits: `Announce`, `Withdraw`, `DropConnection`, `LiveOpen`, `LiveRule`,
`LiveJoin`, `LiveRequestJoin`, `LiveAnswerJoin`, `LiveLeave`, `LiveClose`. A call
that is refused changes nothing and is a stuttering step. `byConnection[c]` is a
sequence, for a JavaScript Set keeps the order of insertion and `instanceOn`
resolves a call to the first instance in it (`IsInstanceOn`). Left out are the
labels, titles, revisions, stories and times: nothing decides on them. A room id
is any unused one, a code any free one.

### Delivery

What Presence does in one step, as it runs. `stack` holds the calls that have
begun and not returned, the innermost first, and a step is what runs up to the
next publish:

| frame | stands for |
|---|---|
| `handle` | `TeamSession.answer` after `identify`, about to run its method |
| `publish` | a call of `hub.publish` that has not begun |
| `deliver` | the walk of the hub's Set, with the sessions not yet visited |
| `drop` | `dropConnection`, with the ids not yet looked at |
| `retire` | `retire`, with the rooms of its copy not yet visited |
| `forget` | `hub.forget` after a room's last event |

`Deliver` writes to each session that waits, up to one that has too much queued;
that one closes there and then (`WebSocketConnection.write`, `finish`,
`TeamSession.closed`), pushing a `drop` above the rest of the walk. `Identify`
may close the session it identifies in the same way. `dead` keeps the rooms that
ended while a `retire` further down still holds them: in the code they are
objects no longer in the Map. `up` follows the end of `up.ts`.

The clients are external: a client keeps a copy of each collection it subscribed
to, applies an event that carries exactly the next number and forgets its copy
at any other, which is what `docs/protocol.md` asks. Which connections are slow
is a constant, `SlowPeers`: a slow one may be found too far behind at any write,
the others never are.

`Delivery` EXTENDS `Presence`, uses its actions where a handler is a whole one,
and `NestingIsInvisible == Abstract!Spec` is the refinement back: under the
mapping in which everything that a drop or retire under way has yet to take away
is gone already, each step is a step of `Presence` or a stutter.

### Blobs

Each HTTP request is a process, `at` says where it is, and an action is what it
does between two awaits: `Reserve`, `MakeDirectory`, `MakeFile`, `Record`;
`AppendTo`, `OpenToAppend`, `TakeChunk`, `Land`, `StopAppending`, `CloseAppend`;
`Read`, `ReadRange`, `Resume`, `Stall`; `Drop`, `RemoveFile`. The timer's sweep is
one more process (`Sweep` to `PruneRemove`), and `Close` is the store's.

An entry of the Map is an object that its users keep when it leaves the Map, so
`entries` leads from names to `objects`, each named by the request that made it.
The disk is `files`, from paths to files, and `contents`, what is in them: making
a path that is there empties its file, removing one leaves the file to whoever has
it open, a reader opens the path anew for each range. Each request of the disk may fail
(`DiskFails`); what a failed removal, or a failed close of a new file, leaves there is in
`stuck`, and `SweepFails` is a removal that fails in the sweep, which nobody awaits and
which ends the process. A chunk is
`<<digest, position>>`, so that one missing, out of place or of another file shows.
`writer`, `reader`, `handle` and `call` are what the requests have at hand. Time is
not in the model: a sweep begins with any entries as the ones nobody has touched,
and what is touched while it runs is taken from them (`Touch`). Left out are the
HTTP answers and `HEAD`, which change nothing, and the sizes of chunks.

### Keys

`files` is the directory: a name is a serial and whether it is retired, and what is
in it is a key (`kid`) of which all is there or not. `held` is the list `#keys` of
each process's store: the one of `up`, which its calls share, and one for each
command. `stage`, `asked`, `reading` and `making` are what a call or command is in
the middle of: an action is what runs between two awaits, so `List`, `ReadKey` (once
for each file) and `Loaded` are `#load`; `Generate`, `CreateFile`, `WriteFile` and
`HoldKey` are `rotate`; `RenameFile` and `HoldRetired` are `retire`. `looked` is the
throttle of `reload`, which `Elapse` lifts. `Crash` may end any process at any
point, and `up` may be started again. `GoOn` is what a caller does once it has its
keys: the methods of `admin.keys.*`, a token signed, a token's key looked for. Left
out are the JWKS's content, the notes of repeated calls (in Accounts), and the
commands' output.

### DerivationSlots

`running`, `waiting` and the place of each caller: `outside`, `parked` in
`takeATurn`, `woken` (its promise settled, not resumed yet) and `working`.
Whether a derivation succeeds makes no difference to its turn (`finally`).

### Accounts

Extends DerivationSlots: its callers are the sign-ins and the calls that create an
account. `users` holds the rows (enabled, in the admin group, the epoch of tokens),
`tokens` what has been handed out, `notes` the table `client_writes`. `begun` and
`asked` are the sign-ins and calls that are waiting, with what they read before:
`BeginSignIn` reads the row and asks for a turn, `Verify` gives it back and either
answers or, for a hash of old parameters, asks for another (`BeginRehash`,
`EndRehash`); `BeginCreate` and `EndCreate` are the two sides of `createUser`. All
other writes of an operator are one action, `Administer` or `Mint`, but for their
note, `Note`, which comes after an await. `Write` is shared with `Command`, a
`nlteam user ...` run on the machine, which asks nobody's leave. `since` in a token
and `revoked` count revocations, and `answered` keeps the calls whose note would
still be read; nothing in the code depends on the three.

Left out: the hash a sign-in stores anew, the limiter (SignIn), expiry, and what is
published. The decoy hash, which the first sign-in under an unknown name computes, is
taken to be made.

### Supervisor and Up

`Supervisor` is the class of that name: `child` is the process and how firmly it was told
to go, `failures`, `timer`, `stopping`, `gaveUp` and `log` are its fields, and `awaiting`
is a `stop` that waits for the exit. A launch is one step: node emits `spawn` or `error`
before anything else of a child. `SupStop`, `GraceEnds` and `GoesAsAsked` are the two halves of
`stop` and what is between them; `Goes` is `#afterChild` of a child that went of itself,
after a long run or a short one; `RestartFires` is the timer.

`Up` is `up()`: `todo` is what it has yet to bring up (`Steps`, each a step that is done or
throws) and then what its `finally` has yet to close (`Closing`), `open` what it
holds. `StartSupervised`, `HealthAnswers` and `HealthFails` are the end of the start,
`UpStop` every way out of it and of the wait. `Interrupt` may come anywhere, and
`CloseNext` waits at the listener for the sessions (`SessionCloses`) as the code does. A
reader's passes run beside it (`PassBegins` to `ProjectRead`), as far as they touch the
database that `up` closes. Left out are what each step computes.

### Schema

Each of `Openers` is a process of a build that knows some version. `OpenFile` is `migrate`
up to its transaction, with what it believes the version to be; `Begin` is `BEGIN IMMEDIATE`,
which waits for the writer or times out; `Statement` runs one statement of the migration,
which fails on a table that is there already; `Commit`, `Rollback` and `Die`. The file
starts at any version an older build left. `InitAsks` and `InitInserts` are `nlteam init`,
which asks for accounts before it hashes and once more inside its transaction.

### Install

A directory is three files, each absent, whole or bad. `FindsOne` is the way
`ensureInstalled` takes on what it finds; `Fetches`, `Unpacks`, `Clears` and `Renames` fill
a staging directory and put it in place, a file at a time; `Verifies` is the digest and the
version of the binary, before every run; `Runs` is what they are for. Two starts share
`cache`; `Killed` ends one anywhere, and `Damage` writes over a file of the cache. Left out
are mirrors and the archive's format.

### Certificates

Four files, `caKey`, `caCert`, `leafKey` and `leafCert`, that are absent, half written, or
hold a pair's key or certificate; a certificate says who signed it, what it names and
whether it is near its end. `StartsWith` to `ReadsLeafKey` are `ensureCertificates`, cut at
each read and write; `ReadsSupplied` is what an operator supplied. `Dies` leaves the file
being written half there, `Ages`, `RemovesAll` and `RemovesOne` are time and the operator.
`Shown(asked)` is the certificate that answers a name, or no name.

### Projects, Readings, Authorization

`Projects`: each attempt to create is a process. `MakeOrAdopt` is everything up to its
await: what a repeat finds, what is taken, the row it inserts, and the request to
loreserver. `RepositoryMade` is loreserver's doing; `Made`, `RepositoryRefused` and
`CreateLost` are what the attempt does with an answer, without one, and when it dies.
`projects` holds rows with a generation, so that a row registered again under an id is
another; `reached` and `undone` are for properties only. `Found` searches the ids first, as
`findProject` does, and an id may be somebody's name.

`Readings`: `wanted` and `drain` are the one loop over passes, `listed` what the pass has
yet to come to, `reading` the project it is in: `Finds`, `Unmarks`, `Removes`, `Clones`,
`Marks` and `Reads` are `ensureCheckout` and what follows, each up to an await. `checkout`
and `ready` are the disk, which outlives `ReadingsDie`. `PageBegins` and `PageEnds` are
pages of a history, `Forget` is `projects.forget`.

`Authorization`: each question is a process. `Arrives` is what a handler looks up before it
identifies, `Reloads` the keys read again (an await), and `Check`, `Lookup`, `Exchange`,
`Multiresource`, `CreateResource` and `DeleteResource` are what follows. `Tells` is
loreserver telling of a repository it has made, or has no longer.

### Wire

`net` holds the frames under way to each end, `arrived` how many units of them are there: a
frame is its header and its payload, and a stream may be cut at any unit. `Drain` reads a
frame that is there, `Collect` puts messages together, `OnMessage` does what one does at
either end. `Upgrades` and `Attaches` are the two halves of `completeUpgrade`, for what came
in the head is read between them. `Answers`, `Publishes`, `Bye` and `Beat` are the server's;
`Settles`, `Call`, `CallTimesOut`, `HelloTimesOut` and `ClientCloses` the client's.
`Vanishes` takes the network away and tells nobody. A peer of another make (`SaysPart`,
`SaysElse`) speaks messages in parts with control frames between them, and frames that
should not be; `Foreigners` is such a peer with the end it speaks to, whose stream comes in
chunks of any size. Left out are masks, and what is in a message, but for its kind.

### Status

`kept` is the cache: when its answer was gathered, and the gather in flight. `ServerStatus`
answers from it, waits on it or begins one; `GathersOn`, `GatherEnds` and `GatherFails` are
`gather`, with an await at each stage.

### Paging, Conversations, Overlay, Decisions, Roster

`Paging` is a reader of one list: `Page` is what fits of the rows past a cursor (`Past`), by
number and by weight, and `Turns` asks for the next one. `Touched` takes what has changed
from what the reader is promised. The clock may be set back (`Now`).

`Conversations`: `threads` and `comments` are tables, an action is a method with its
transaction and its event. `landed` keeps the writes that were answered, for the property.
`Overlay`: `OverlayPut` answers a repeat before it asks whether the project is full,
`OverlayRevise` is a put under an id. `Decisions`: `RecordDecision` writes, and every so
often trims, in a commit of its own (`DiesDeciding` may come between); `GoesBefore` is the
order in which rows go. `Roster`: accounts, made and listed. Texts, anchors and
payloads are sizes.

### SignIn

`attempts` is the Map of `SignInLimiter`, `clock` the time in units of the first wait,
`knocking` the requests being checked. `Knocks` asks for the wait and goes on to the
check, `Judged` is `accepted` or `refused` after it, with `RoomMade` for `makeRoom`.

### Settings

`stored` is the table's rows of settings, which whoever has the storage root can fill with
junk; `identity` its rows of what `up` was started as, written in one commit and read by a
command row by row. `SettingsSet` is the command, `AdminSettingsSet` the method. `capable`
is what a session was told when it opened. `Call` is `answer` up to its await, judged by
`JudgeCollaboration`, which reads the setting as it is; `BlobRequest` is `permit`, judged
by `JudgeBlobRoute`, once for all of a piece. What either lets in is `working`, by what the
session was at that moment, until `Finishes`, which may be any time later: `projects.create`
and `projects.history` await loreserver and the library, and a piece is appended or read
over many awaits. The setting may have changed meanwhile, and the session gone. `closedAt`
is for the property: how often anything had been chosen when collaboration was last closed.

### Credentials

`files` is what a file holds, once it is whole, and `named` which file has the name
`credentials.json` and which `credentials.json.writing`: opening the second empties what
another command has open under it, and a rename moves whatever has the name. `doing` is how
far each process is: `Probes` and `Looks` are `login` to its look at what is on file,
`AsksVerified` each of the two requests that are verified against the authority that was
pinned, `Remembers` or `Forgets` the last look at the file, and `Opens`, `Fills` and
`Renames` are `writeCredentials`. `GivesUp` ends a command anywhere: it is refused, fails or
is killed. Who answers for a server (`answering`) may change at any time (`Reissued`).
`AddressOf` is `parseServerAddress`. `overlapped` is for the property only. Left out is a
file that is there and cannot be read, which is taken for no file
(`client/config.ts:186-190`).

### Calls

`request` and `reply` are what has yet to arrive, a unit being a compression flag, a length
or a byte; `stream` is `handleStream` with its assembler, and `asker` is `unaryCall` with its
own. Either end faces the other, or one of another make, which sends whatever two messages
cut short anywhere can be (`Bodies`), or answers anything (`ForeignAnswer`). A method is
awaited between `RequestEnds` and `MethodReturns` or `MethodRaises`, and the stream may go
meanwhile (`StreamGoes`). `Cancelled` is a connection that is closed with nothing wrong, as
`GrpcServer.close` does: the stream closes as one that was cancelled, which node announces
by `close` alone, and `unaryCall` listens for no such thing. Left out are the fields of
messages and the wording of a status.

## The runs

| run | module, cfg | expected | shows |
|---|---|---|---|
| `rooms` | MCPresence | pass | the invariants and action properties of Presence |
| `delivery` | MCDelivery | pass | nesting, numbers and clean-up |
| `steady` | MCDelivery, `…Steady` | pass | a client in step is right as long as no announcer is slow |
| `shutdown` | MCDelivery, `…Stop` | violation | `up` does not stop while a Studio is connected |
| `blobs` | MCBlobs | pass | senders, readers, removals and the sweep on one name |
| `keys` | MCKeys | pass | no key lost or replaced, and always one to sign with |
| `keys_stale` | MCKeys, `…Stale` | violation | a reload that takes a new key out of the store again |
| `accounts` | MCAccounts | pass | revocations hold, an operator remains, repeats change nothing, turns, answers |
| `server` | MCServer | pass | starts, stops, deaths, readings, a session over a socket, the status |
| `early_close` | MCServer, `…Early` | violation | a session made on a connection that has ended stays in the hub |
| `inherited_reading` | MCServer, `…Inherited` | violation | a reading kept for a row that came after it |
| `records` | MCRecords | pass | creation, repeats, pages, trims, waits, a closed deployment; credentials, a call of gRPC |

**Bounds.** `rooms`: two connections of one account (a Studio that reconnects)
and one of another, three installations with two to a connection, two projects
with one room each at most, two rooms, two codes. That is enough for an id to
move within an account, be wanted by another, and outlive its room; for a
connection to be full; for a project to be full while another is not; for both
codes to be in use. With all three installations connected there is at most one
room (`MCBound`), with two there are two. Sessions and projects are symmetric;
connections only within their account.

`delivery`: two slow connections with a window and a room each, one in both
rooms, and a third that listens; six frames. That is the least in which one close
sets off another inside a publish of the first, and in which a walk over rooms
meets a room that ended under it. `steady` drops the nesting and instead sends
every method to one room, with a listener that is slow. `shutdown` is the least
server that shows what it shows.

`blobs`: one name, a file of two chunks, reserved by two requests (a repeat of the
reservation, at once or later, or a new one after a removal), a sender of the
whole file and one that comes back with the second chunk and one too many, a reader
from the start, a removal, any number of sweeps, and a disk on which
any request may fail, a removal and the close of a new file too. 960 678 states. Two
chunks are the least of which one can be read while the other is being written.

`keys`: three calls of the server (one that only reloads, signs or looks for a
token's key; a rotation; a retirement) and a command that may rotate, retire or
list, each once but for `up`, which may die and start again any number of times.
`MaxKeys`, three, bounds the pairs generated: the first key, and one more by each of
two rotations, the least in which a rotation is overtaken by a newer key.
`keys_stale` needs two.

`accounts`: one turn (the code has two), so that every caller after the first waits
and a queue forms; one sign-in, for a member or a machine; two calls of one operator
that may be repeats of each other under one client id, and a third that may repeat
them again after the note lapsed, or be the other operator's; one command, which
enables what a call has disabled. Two calls may create one account, an operator may
disable the other or give up being one. Everything ends, so the bounds are the numbers of
requests. `Exchange` adds a token for a token, of which there are finitely many.

`server`: a child that may fail three times in a row (`MaxRapidFailures`, the code has five)
and one session; three openers, one of the older build and two of the newer, and migrations
of two statements, so that there is a middle; two starts that install, and one file damaged;
five pairs of keys, one certificate that ages and one file removed, which is two whole
starts after a first and a death in each; two ids under which rows are registered again and
again, and one death in Readings; a session with one call, messages of up to three units,
one frame buffered for a client that does not read, and a foreign peer that says three
things: the least in which a control frame stands between two parts. In the session part a
chunk ends with a frame, for which unit a stream is cut at makes no difference to a session;
in the two framing parts it is cut anywhere. A foreign
peer puts the parts of its messages in order: that `Collect` refuses a text while a message
is open, or a continuation where none is, is modelled, and no run comes to it. Two pings under way are one. Status has two
panels, four moments of which two are fresh, and three gathers: one that fails, one that is
waited on and one after it. 181 888 states.

`records`: two attempts at a project and the question loreserver asks meanwhile, with two
ids of which one is somebody's name; pages of two rows and a budget of three units, rows of
two times, three threads, records or comments: the least in which a page ends between two
rows of one time. While threads are listed one of them is touched, which is what moves a row
across a cursor; repeats are of two threads and three comments. Authors, projects and
sessions that are alike take the first step in one order. Two decisions kept with a slack of
two, and five made, so that a trim comes twice. Four accounts in the list. Two requests at
once for three pairs and a table of two; a wait of one unit and of two. Three changes of
settings, so that a deployment is closed, opened and closed again, under two sessions, of
which one has a call or a transfer under way; one method of each kind, and one label and one
lifetime, stand for the others. One start of `up` under a command that reads three rows (the
code has nine). Two commands about two servers, of which one, typed in two ways, changes its
authority once; nothing is followed past an overlap, where the property says nothing. Two
messages of at most two units, in pieces of any size. 1 165 641 states.

Deadlock is not checked in the runs of Delivery, Blobs, Keys, Accounts, `server` and
`records`: a server that has stopped, or whose clients have sent all they send, rests.

**Fairness.** Delivery: weak fairness of `Run`, the thread going on with the call
it is in; nothing is assumed of the clients, who may stop at any moment. Blobs: weak
fairness of a reader's own steps, for each reader: the disk answers, a promise that
was woken is resumed, the stall's timer fires, and whoever is sent a range takes it
or goes away. A sender owes nothing.
Accounts: weak fairness of `Run`, that is of what goes on of itself: a promise that
has settled is resumed, which the event loop gives, and a derivation comes to an end,
for scrypt does. Nobody is obliged to ask for anything. Keys has none: what is said of
it is safety, as is all of `records`.
`server`: weak fairness of what `up` awaits (each step is done or fails, the health check
answers or gives up, its closings end where they can, a killed child exits), of the
reader's steps (the library answers), and of what has begun at an end of a socket. Of the
two timers, the heartbeat and a call's timeout, it is strong: a timer is due for ever once
its time has come, the event loop serves it after what is being handled, and what is being
handled, however often there is something, is over again each time. `UpEnds` assumes of the
sessions that they go: `shutdown` shows what there is otherwise.

## What the code does otherwise than it says

* **`shutdown`.** `up` awaits the listener's end (`up.ts:627-629`) before it closes
  the sessions (`up.ts:635`), and the listener counts upgraded sockets among its
  connections. "One idle session" is exactly "enough to stop that happening"
  (`team/websocket.ts:234-236`).
* **`keys_stale`.** A rotation is "safe at any moment ... a token signed a second ago
  still verifies" (`team/methods/admin.ts:806-808`). `reload` assigns the list it
  began to read before the rotation (`identity/keys.ts:282`), and takes the new key
  out of the store again: what it signed meanwhile is refused until the next reload.
* **`early_close`.** `closed` is "called once, whatever ended the connection"
  (`team/session.ts:246`). What comes in the head of an upgrade is handled while the
  connection is constructed (`team/websocket.ts:202-219`), before `session` is assigned
  (`team/endpoint.ts:201`): a close there is told to nobody, and the session is made and
  added to the hub all the same. It stays there until a revalidation finds its token
  refused (`team/session.ts:178-184`) or the server stops, for `bye` calls `closed` itself,
  whatever the connection is (`:475-480`).
* **`inherited_reading`.** `forget` drops a reading lest it "outlive the row it belongs
  to, and a repository registered again under the same id ... be answered for out of what
  was read before it went away" (`projects/refresh.ts:110-113`). A reading that is under
  way is put in the Map when it comes back (`:295`), whatever became of the row.

The modules state some more that the code does not keep. TLC shows each of them to be
violated when it is put in place of a run's property; none has a run of its own.

* `MembersCanLeave` (Presence): `live.leave` is "never refused ... the state the caller
  wanted is the state there is" (`team/methods/live.ts:303-305`). A window that announces
  another project keeps its places in the rooms of the one before
  (`presence.ts:227`), and the call looks for the caller by the room's project
  (`live.ts:311`): it answers `{}` and the window stays in the room.
* `NobodyLeftBehind` (Delivery) without its exception, `DemotedWhileSlow`: what a connection
  said of itself "goes with it" (`team/session.ts:258`). Where an account is demoted while its
  session is slow, `identify` may end the session by a write that finds too much queued
  (`:281`), and `answer` goes on with the call: an announcement lands on a closed connection,
  whose `closed` has run already. With the exception it holds, and is proved: there is no other
  way to be left behind.
* `WithinLimit` (Blobs): `BLOB_PROJECT_BYTES` is "the most one project may have reserved
  at once" (`team/blobs.ts:64`). `reserve` compares with it before it awaits the
  disk and is counted after (`:225`, `:252`): two that overlap both fit.
* `BusyMeansAppending` (Blobs): `writing` is "set while a request is appending" (`:130`),
  and set before the file is opened, outside the `try` that unsets it (`:290-292`). A file
  that does not open leaves the object busy until somebody deletes it.
* `ReaderIsStoppedFirst` (Up): a pass that awaits its keys goes on to list the projects
  after the reader was stopped, of a database that is closed (`up.ts:632`).
* `EndpointCertificateIsUsable` (Certificates): a start that dies between the endpoint's
  key and its certificate leaves the new key beside the old certificate, which is kept
  for what it says and served with a key that is not its own
  (`tls/authority.ts:400-409`).
* `UndoneBeforeReached` (Projects): a create that is refused takes out "a row nothing else
  has reached yet" (`projects/create.ts:121`), with which a repeat may have been answered.
* `OpeningIsItsFirst` (Conversations): the opening of a thread is looked for by time
  (`comments/store.ts:512`), and a reply after the clock was set back is the earlier.
* `IdentityIsOfOneStart` (Settings): a command reads the identity a row at a time
  (`identity/settings.ts:642`), and `up` may write all of them between two.
* `NothingSitsOut` (Wire): a connection that ends after the hello and before the client
  object is made is told to nobody (`client/session.ts:314`), and a call on it waits out
  its timeout.

* `OneServerOneEntry` (Credentials): "two spellings of one server must not produce two
  entries: the host is lower-cased" (`client/config.ts:297-298`). An IPv6 host keeps its
  capitals (`:359`, `:364`), and a port the zeros in front of it (`:329`): each spelling has
  an entry.
* `CredentialsAreKept` (Credentials), where two commands write at once: both write
  one temporary name (`client/config.ts:240`) from what each read before, so that a sign-in
  is undone, or the file is left half written, where it should leave "every other server
  alone" (`:252`) and "the previous file rather than a truncated one" (`:226`).

Some things are in the models and in no property.

`announce` publishes `client-gone` and then `client-here`. The first may close the
very connection that announces, which publishes another `client-gone`; the
`client-here` follows it in sequence, for an instance that is no longer there, and a
watcher is told by the numbers that all is well. That is why `steady` lets no
connection that announces be slow.

A rotation puts its key before those there are when it ends (`identity/keys.ts:340`).
If a reload found a newer key meanwhile, the store's first key is not its newest; it
signs with the older, and may retire the newest as one that does not sign. That is
why `NewestIsPublished` and `CommandsCanSign` speak of servers where no rotation was
`overtaken`.

`drop` takes the entry out of the Map before it removes the file (`team/blobs.ts:371-373`).
Where the removal fails, the file is in nobody's hands until its name is reserved again or
the store is opened anew, and the store counts nothing for it. `reserve` leaves one behind
when the handle of a new file fails to close (`:238`). Both are `stuck`, which
`NothingLeftOnDisk` excepts. Where it is the sweep's removal that fails, nobody has handled
the rejection (`:174-176`), and the process ends (`SweepFails`).

Of blobs, the disk knows a name and not an object. A removal that overlaps a new
reservation of the name takes the new file away, and two reservations that overlap
share one. That is why `FilesArriveWhole` speaks of names reserved once (`OnlyOne`);
a client makes a transfer's id afresh, and what it does when its reservation is not
answered is to reserve again.

`nlteam settings set` reads the value there is before it writes the new one, so a token
lifetime that cannot be read cannot be replaced by the command that would replace it.
`findProject` searches the ids first: a project whose name is the id of another is not
found by its name. Requests with one password, checked at once, all pass on one reading of
the wait (`identity/signin.ts:149`).

## What is proved

Eight modules hold theorems. Each theorem is of a specification without fairness, for every
value of the constants that the assumptions named below allow; `PROJECT.json` lists them
with the properties they state. All have one shape: an inductive invariant, `Init => Inv`,
`Inv /\ [Next]_vars => Inv'` with a lemma for each action, and what follows from it. The
larger invariants (`DInv`, `KeepInv`, `BInv`, `RInv`) were checked by TLC on the runs'
instances before they were proved.

### `PresenceProofs`: Presence

For every number of connections, accounts, instances, projects, rooms and codes, from
`PresenceAssumption` alone (each connection has an account, "no project" is no project, both
limits are positive):

* `TypeCorrect`, `NoGhosts`, `NoAbandonedRooms`, `ControlIsNotHandedOver`,
  `CodesAreUnique`, `LimitsHold`: `Spec => []P` for every invariant of Presence, those
  `rooms` checks among them;
* `PlacesStayTheirs`, `RequestRoomsAdmit`: the two action properties.

The argument is one inductive invariant, `IInv`, the conjunction of those
invariants (`IInvParts` divides it in what is about rooms and what is about
carrying). None of them is inductive alone: that a room's members are connected
needs that an id leaves its connection's set and the Map together, that control
stays put needs that the opener is connected (so that nobody else may announce
its id), and the limit of a connection needs that no id is in its set twice. The
lemmas go by what an action touches: `RoomChanged`, `RoomsRemoved` and
`RoomOpened` for actions on rooms, `RetiredFromRooms` and `RetiredFromCarried`
for the two that retire, `AnnounceKeepsCarried` and `AnnounceKeepsRooms` for the
one that moves ids; then one lemma per action. `PlacesStayTheirs` rests on
`AccountKept`: an id that stays announced stays one account's, and one that is
dropped leaves every room in the same step.

### `PresenceProofs`, `DeliveryProofs`: Delivery

For any clients, whatever they send (`SendsAssumption`: calls), and any of them slow, from
`DeliveryAssumption` (rooms are numbered, operators are accounts) besides:

* `CallsNest`: `DInv`, the inductive invariant.
* `EventsAreNumbered` (`NothingMissedUnnoticed`) and `NobodyStaysBehind`
  (`NobodyLeftBehind`).
* In `DeliveryProofs`, `DeliveryIsPresence` (`NestingIsInvisible`): Delivery implements
  Presence, so that every theorem above holds of what a caller sees of Delivery.
* `InStepIsRight` (`InStepMeansRight`), under a hypothesis, `AnnouncersKeepUp`: no
  connection that announces is slow. It is what `steady` has of its clients, and without
  it the property does not hold: an announcer that `client-gone` finds too far behind is
  closed and retired inside that very publish, and what it then takes back is told before
  the `client-here` its own call has yet to tell (among what is in no property, above).

`DInv` says of every frame of the stack what it still has to do, for the properties are of
a stack that is empty and nothing of them survives in the middle of a call. `HubInv`: the
hub holds the sessions that are open, once each. `CallInv`: a handler runs with nothing
above or below it, but for one that `identify` has let go on. `DropInv`: an instance is on a
connection that is open, or some `drop` under way has it yet to take away. `RetireInv`: a
`retire` has every room its instance is in still to visit. `HearInv`: every event after the
last one a copy has applied is in a `deliver` that has the session still to visit. When the
stack is empty, the last three are the two properties.

The refinement takes as gone what a `drop` or a `retire` under way has yet to take away
(`Gone`, `InstancesSeen`, `SessionsSeen`). Then a step of `drop` or `retire` changes nothing
(`DropNextUnseen`, `RetireFromRoomUnseen`, `RetireDoneUnseen`), for it only takes what is gone
already; the close that begins it is Presence's `DropConnection`, in whatever walk it happens
(`CloseSeen`); and a handler begins with nothing under way, so that what is seen is what there
is (`AsItIs`), and is its action. `Announce`, `Withdraw` and the two that end a room leave a
`retire` or events behind them, which is where the mapping makes their later steps stutters.

`InStepIsRight` wants to know of a copy in the middle of a call what it is about to become.
`KeepInv` has three parts beside `DInv`. A slow connection carries no instance
(`SlowAreBare`), so that a close within a walk has nothing to take back. Of each topic one
thing is told at a time, and a `retire` has only drops below it (`Calm`). And a copy in step
is right, or one event of its topic is under way that the client has yet to hear, bears the
number the copy waits for, and makes the copy what a read would give (`RightOf`). So a
handler that changes an entry of a collection must leave an event that says what the entry
became (`HandledFacts`, `ChangedKeeps`, `EndKeeps`); `publish` gives it the next number
(`SaidKeeps`); `deliver` applies it once to each copy (`DeliverKeeps`); and a copy that reads
anew has what is there. `announce` alone leaves two events at once, and they are of two
topics, the project's it leaves and the one's it comes to (`UpToTwoCalm`,
`HandleAnnounceKeeps`).

### `AccountsProofs`

Of DerivationSlots, for every finite set of callers and any positive number
of turns (`TurnsAssumption`): `TurnsAreLimited`, `NoTurnIsLost`, `TurnsInOrder`, and
`TurnsKeep`, which states the first two together.
Its `IInv` says that `running` is the number of holders, at most `Turns`, that
those parked are exactly those in the queue, once each, and that a queue means
that every turn is held.

Of Accounts, for any accounts, sign-ins, calls and commands (`AccountsAssumption`: those who
take turns are the sign-ins and the calls, and what is asked is of accounts):

* `AccountsTakeTurns` (`TurnsAreSound`): the turns of Accounts are neither oversold nor
  lost, however its callers end. Its lemma `TurnsRefine`, that each step is one of
  DerivationSlots or leaves the turns alone, holds by the way Accounts is written, from the
  actions of that module; what it rests on is `TurnsKeep`.
* `RevocationIsForGood` (`RevokedForGood`), `OperatorsRemain` (`AnOperatorRemains`),
  `RepeatsAreHarmless` (`RepeatsChangeNothing`).

`AInv` is about counting: an account's epoch is one more than its revocations, in its row
(`RowsCount`), and a token or a row that a sign-in has read has an epoch that is one more than
those there were when it was read (`TokensCount`, `BegunCount`). `RevokedForGood` is not
inductive without it, for a token that does not do now must not come to do when its account is
revoked again or enabled. `NotesStand`: what was answered is noted, and what it made is there,
because no operation removes an account.

### `BlobsProofs`

For any requests, names and sweeps and a disk that may fail (`BlobsAssumption`): `BlobsHold`
(`BInv`), `NothingIsLeft` (`NothingLeftOnDisk`, which excepts the names in `stuck`), and
`FilesAreWhole` (`FilesArriveWhole`). The last has a hypothesis: `OneFileToAName`, that
whoever sends to a name sends the file the name was reserved for. It is a fact about clients
and not about this code, which takes a digest as "carried for the receiver, never checked
here" (`team/blobs.ts:106`).

`BInv`: one sender to an object and room for the chunk it is writing (`SendersAlone`); a reader
looks no further than what has arrived, and one that is parked has nothing to read
(`ReadersBehind`); the file of a name that one request has made is what has arrived of it, byte
for byte (`FilesHoldIt`), and a reader has a stretch of that (`ReadersHaveIt`); a file is an
entry's or somebody's who is about to record or remove it (`FilesAreHeld`). The disk
knows a path and not an object, so what a file holds is said by who made it (`Maker`, `Sole`).

### `KeysProofs`

For any number of calls, commands and keys (`KeysAssumption`: the
server, its calls and the commands are different things): `KTypeCorrect`;
`KeysAreNotReplaced`, the action property, which needs of a state only its types, for
a new key is written only under a name that is free and a rename keeps what is in the
file; `KeysHold` and `NewestStaysPublished`; and `CommandsKeepAKey` (`CommandsCanSign`).

The argument of `NewestStaysPublished`: a key is retired by
somebody in whose store another one signs, and in a store whose keys fall in serial
the one that signs, the first published, is newer. For the directory to have that newer
key, or a still newer one, `IInv` adds `OneSerial` (a kid goes with one serial,
wherever the two are written down) and, while no rotation was overtaken,
`StoresAreRight`: every store and every list being read falls in serial and names only
keys that are `Known` (published in a file, or older than one that is), and what is
being renamed is older than a published file. One lemma for each action, and one for
each way a caller goes on from its keys. `CommandsKeepAKey` adds `CommandsSign`: a
command reads the directory from the oldest file on, so the newest, which is published, is
still to be read or was read as such.

### `ServerProofs`

The parts of one server's life, each by itself; they share no variable.

* `NoServerIsLeftBehind`: before there is a supervisor and after it was stopped there is no
  child and none to come, and a stop that was asked for sets no timer and awaits the child
  there is (`UpInv`).
* `SchemaStaysWhole`, for any builds and processes: what a process read of the version
  before it had the write lock may be behind, never ahead, and once a statement of its
  migration has run it is not behind (`SchemaInv`).
* `OnlyThePinnedBuild`: what is staged is as it was pinned, and what was verified is not
  replaced by anything else before it runs (`InstallInv`).
* `ShownIsOfTheAuthority`, from `CertificatesAssumption` (the address of loopback is no
  hostname): the key of an authority on disk is that of its certificate whenever both are
  there, for a pair is made only where there is no certificate (`CertInv`).
* `StatusStaysShared`: the gather in flight is the only one, whoever waits waits on it, and it
  began no earlier than is promised (`StatusInv`).
* `MessagesAreWhole` (`MessagesArriveWhole`), at either end, for messages and chunks of any
  size: as long as the end reads on, what it has put together, what it has collected of the
  next message and what is under way to it are what was said, in this order. `WireInv` gives
  each frame under way its place in what was said (`InOrder`), so that what a chunk brings
  moves a place from one side to the other; a foreign frame that should not be ends the end
  before it is counted. How many units of a frame are there decides only when it is read.

### `RegistryProofs`

`RegisterSpec` is Projects, Readings and Authorization taking steps in any order:
`RetriesDoNotCollide`, `RepositoriesComeBack`, `ReadyStaysWhole`, `RegisterHolds`. The first
rests on rows having numbers that no earlier answer names (`CollisionsAreOfOthers`), the
second on a create that is asking having its row unless somebody took it out
(`AskingHasItsRow`), the third on the mark of a checkout being taken off before the
directory is touched and put back after it is whole (`MarksFollowCheckouts`).

### `RecordsProofs`

* `ListsHold`, `EveryListIsRead` (`PagesAreWhole`): the five lists under every operation of
  the tables they are read from. A page is a start of what is left (`PagerSound`), and a
  cursor tells what has been seen of what was there throughout from what has not
  (`ListsRead`). It rests on lemmas about finite sets in a strict order, whose first element
  `HasAFirst` finds.
* `RepeatsFind` (`RepeatsFindTheirRow`), `RefusalsStay` (`RefusalsOutlast`),
  `ClosedStaysClosed` (`ClosedIsClosed`): whatever is under way was let in at some number of
  changes, and what a closed deployment would refuse at fewer than when it was last closed
  (`ClosedInv`). Closing leaves what has begun; a choice that closes nothing moves no date.
* `WaitsStay` (`WaitsAreServed`), from `NowhereAssumption` (nowhere is no place) and
  `PowersGrow`, that a power of two is at most the next, which is a fact of arithmetic the
  provers do not have.
* `AuthoritiesStayTrusted` (`CredentialsAreKept`): as long as no two commands were writing at
  once, one command writes, beside the file, what was on file when it read it and still is, but
  for its own address (`OneWrites`).
* `CallsCarryOne` (`CallsCarryOneMessage`), from `CallsAssumption`: at either end, what has
  yet to arrive is what was sent after what the assembler has taken, however it was cut
  (`CallInv`), so what it decodes is the message that was sent, once.

**Only model-checked**: no invariant and no action property of a run that passes. Liveness
under fairness is out of the prover's reach: `EveryReadEnds`, `EverybodyIsAnswered`,
`UpEnds`, `EveryRequestIsRead`, `CallsEnd`, `TheLostAreLetGo`. So is induction over data,
which is why `PowersGrow` is a hypothesis. The four runs that expect a violation show what
is not so.

## What is not modelled

In Delivery: calls that await and the limit of them in flight; the topics of threads,
overlay and the project list, which nothing of presence publishes on. In Keys: a disk that
fails otherwise than by a name that is taken or gone. In Accounts: the hash that a sign-in
stores anew when the parameters have changed (`identity/users.ts:720`: the same password,
and no operation sets another), expiry, a crash of the server (SQLite keeps each statement
whole). In Delivery a heartbeat that finds nobody, and the expiry of a token, are `Close`,
at any time; Wire has the heartbeat.

Not at all, for want of a state that two steps could disagree on: the arguments of the
command line and what commands print (`args.ts`, `cli`), sentences and languages, the
documents served over HTTP, discovery on the local network, the encodings of protocol
buffers, msgpack and DER, the types of the protocol. The native library and SQLite are
external: what they promise is in the guards of the actions that call them.

## The plan

Done, in this order: Presence, Delivery, DerivationSlots, Blobs, Keys, Accounts; Up,
Schema, Install, Certificates, Projects, Readings, Authorization; Conversations, Overlay,
Decisions, Roster, SignIn, Settings; Wire, Status; Credentials, Calls.

Next, in the order of what matters to the people who use the server:

1. **Delivery, continued**: calls that await, with the limit in flight.
2. **What ties parts together**: a create of Projects that loreserver's question
   (Authorization) overtakes, with accounts that are revoked meanwhile.

Theorems next: the rest of Presence's theorems, carried over by `DeliveryIsPresence` and
stated of what the callers of Delivery see; and what `MessagesAreWhole` says of a foreign
peer, of the two ends of a session speaking to each other.
