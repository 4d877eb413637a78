---------------------------- MODULE ServerProofs ----------------------------
(***************************************************************************)
(* What the parts of one server's life promise, each by itself and for any *)
(* values of its constants: what a start leaves behind (Up, Supervisor),   *)
(* the schema of its database (Schema), the build it runs (Install), the   *)
(* certificate it shows (Certificates), how it and its clients read what   *)
(* they are sent (Wire), and what it says of itself when it is asked       *)
(* (Status).  They share no variable.                                      *)
(***************************************************************************)
EXTENDS Up, Schema, Install, Certificates, Wire, Status, FiniteSetTheorems,
        SequenceTheorems, TLAPS

UpSpec == UpInit /\ [][UpNext]_bootVars
SchemaSpec == SchemaInit /\ [][SchemaNext]_schemaVars
InstallSpec == InstallInit /\ [][InstallNext]_installVars
CertificatesSpec == CertInit /\ [][CertNext]_certVars
StatusSpec == StatusInit /\ [][StatusNext]_statusVars

-----------------------------------------------------------------------------
(* A start, and the child it keeps.                                        *)

(* Before there is a supervisor, and after it was stopped, there is no     *)
(* child and none to come.  A stop that has been asked for leaves no timer *)
(* set, sets none again, and awaits whatever child there is; that is why   *)
(* up may go on to close the rest when it returns.                         *)
UpInv ==
  /\ child \in {"none"} \cup Living
  /\ stopping \in BOOLEAN /\ timer \in BOOLEAN /\ awaiting \in BOOLEAN
  /\ place \in {"coming", "start", "closing", "ended"} => child = "none" /\ ~timer
  /\ place = "stopping" => stopping /\ ~timer /\ (Running => awaiting)

(* Whatever ends a run, and at whatever step of it, no loreserver is left. *)
THEOREM NoServerIsLeftBehind == UpSpec => []NoServerLeftBehind
<1> USE DEF UpInv, Living, Running
<1>1. UpInit => UpInv
  BY DEF UpInit, SupInit
<1>2. UpInv /\ [UpNext]_bootVars => UpInv'
  <2> SUFFICES ASSUME UpInv, [UpNext]_bootVars
               PROVE  UpInv'
    OBVIOUS
  <2>1. CASE StepDone \/ StepFails
    BY <2>1 DEF StepDone, StepFails, Leave, supVars
  <2>2. CASE StartSupervised
    BY <2>2 DEF StartSupervised, SupStart
  <2>3. CASE HealthAnswers \/ HealthFails
    BY <2>3 DEF HealthAnswers, HealthFails, supVars
  <2>4. CASE UpStop
    <3>1. Running \in BOOLEAN
      OBVIOUS
    <3>2. /\ place' = "stopping" /\ stopping' = TRUE /\ timer' = FALSE /\ awaiting' = Running
          /\ child' = IF Running THEN "asked" ELSE child
      BY <2>4 DEF UpStop, SupStop
    <3>3. child' \in {"none"} \cup Living /\ (Running' <=> Running)
      BY <3>2
    <3> QED
      BY <3>1, <3>2, <3>3
  <2>5. CASE StopReturned
    BY <2>5 DEF StopReturned, Leave, supVars
  <2>6. CASE CloseNext
    BY <2>6 DEF CloseNext, supVars
  <2>7. CASE Supervision
    <3>1. UNCHANGED place /\ SupNext
      BY <2>7 DEF Supervision, upVars
    <3>2. CASE GraceEnds
      <4>1. child' \in Living /\ awaiting' /\ UNCHANGED <<place, stopping, timer, awaiting>>
        BY <3>1, <3>2 DEF GraceEnds
      <4>2. place \notin {"coming", "start", "closing", "ended"}
        BY <3>2 DEF GraceEnds
      <4> QED
        BY <4>1, <4>2
    <3>5. CASE GoesAsAsked
      BY <3>1, <3>5 DEF GoesAsAsked
    <3>3. ASSUME NEW stable \in BOOLEAN, Goes(stable)
          PROVE  UpInv'
      BY <3>1, <3>3 DEF Goes, GiveUp
    <3>4. ASSUME NEW spawns \in BOOLEAN, RestartFires(spawns)
          PROVE  UpInv'
      BY <3>1, <3>4 DEF RestartFires, GiveUp
    <3> QED
      BY <3>1, <3>2, <3>3, <3>4, <3>5 DEF SupNext
  <2>8. CASE UNCHANGED <<supVars, place>>
    BY <2>8 DEF supVars
  <2> QED
    BY <2>1, <2>2, <2>3, <2>4, <2>5, <2>6, <2>7, <2>8
       DEF UpNext, bootVars, upVars, Interrupt, SessionOpens, SessionCloses, PassBegins,
           ListProjects, ProjectRead
<1>3. UpInv => NoServerLeftBehind
  BY DEF NoServerLeftBehind
<1> QED
  BY <1>1, <1>2, <1>3, PTL DEF UpSpec

-----------------------------------------------------------------------------
(* The schema of the database.                                             *)

Version(n) == recorded = 1..n /\ schema = (1..n) \X (1..Statements)

LEMMA HighestOfVersion ==
  ASSUME NEW n \in Nat, recorded = 1..n
  PROVE  Highest = n
<1>1. CASE n = 0
  BY <1>1 DEF Highest
<1>2. CASE n > 0
  <2>1. n \in recorded /\ \A w \in recorded : w <= n
    BY <1>2
  <2>2. \A v \in recorded : (\A w \in recorded : w <= v) => v = n
    BY <2>1
  <2> QED
    BY <2>1, <2>2 DEF Highest
<1> QED
  BY <1>1, <1>2

(* What a process read of the version before it had the write lock may be  *)
(* behind, never ahead; and once a statement of its migration has run, it  *)
(* is not behind, for that statement would have failed, and nobody else    *)
(* commits while the lock is held.                                         *)
SchemaInv ==
  /\ at \in [Openers -> {"unrun", "closed", "opened", "migrating", "within", "hashed"}]
  /\ current \in [Openers -> Nat] /\ pending \in Nat
  /\ Highest \in Nat /\ Version(Highest)
  /\ \A p \in Openers : at[p] = "within" <=> writer = p
  /\ \A p \in Openers : at[p] \in {"migrating", "within"} => current[p] <= Highest
  /\ \A p \in Openers : at[p] = "within" /\ pending > 0 => current[p] = Highest

LEMMA SchemaStart == SchemaInit => SchemaInv
<1> SUFFICES ASSUME SchemaInit
             PROVE  SchemaInv
  OBVIOUS
<1>1. PICK n \in {0, 1} : Version(n)
  BY DEF SchemaInit, Version
<1>2. Highest = n
  BY <1>1, HighestOfVersion DEF Version
<1> QED
  BY <1>1, <1>2, SchemaAssumption DEF SchemaInit, SchemaInv, Nobody

LEMMA CommitStep ==
  ASSUME SchemaInv, NEW p \in Openers, Commit(p)
  PROVE  SchemaInv'
<1> DEFINE h == Highest
<1>0. /\ at[p] = "within" /\ writer = p /\ current[p] \in Nat /\ Version(h) /\ h \in Nat
      /\ current[p] <= h
  BY DEF SchemaInv, Commit
<1>1. current[p] = h \/ Statements = 0
  BY SchemaAssumption DEF SchemaInv, Commit
<1> HIDE DEF h
<1>2. PICK n \in Nat : n = (IF current[p] = h THEN h + 1 ELSE h)
  BY <1>0
<1>3. recorded' = 1..n
  BY <1>0, <1>2 DEF Commit, Version, Next1
<1>4. schema' = (1..n) \X (1..Statements)
  <2>1. CASE current[p] = h
    BY <1>0, <1>2, <2>1 DEF Commit, Version, Next1
  <2>2. CASE Statements = 0
    BY <1>0, <2>2 DEF Commit, Version
  <2> QED
    BY <1>1, <2>1, <2>2
<1>5. Highest' = n
  BY <1>3, HighestOfVersion DEF Highest
<1> QED
  BY <1>0, <1>2, <1>3, <1>4, <1>5, SchemaAssumption
     DEF SchemaInv, Commit, GoTo, Next1, Version, Nobody, h

LEMMA SchemaStep == SchemaInv /\ [SchemaNext]_schemaVars => SchemaInv'
<1> SUFFICES ASSUME SchemaInv, [SchemaNext]_schemaVars
             PROVE  SchemaInv'
  OBVIOUS
<1> USE DEF SchemaInv, GoTo
<1>1. CASE UNCHANGED schemaVars
  BY <1>1 DEF schemaVars, Version, Highest
<1>2. ASSUME NEW p \in Openers, UNCHANGED <<recorded, schema>>,
             \/ OpenFile(p) \/ Begin(p) \/ BeginTimesOut(p) \/ Statement(p) \/ Die(p)
             \/ InitAsks(p) \/ InitInserts(p)
      PROVE  SchemaInv'
  <2>0. Highest' = Highest
    BY <1>2 DEF Highest
  <2>1. Highest' = Highest /\ Version(Highest)'
    BY <1>2, <2>0 DEF Version
  <2>2. CASE OpenFile(p)
    BY <2>1, <2>2, SchemaAssumption DEF OpenFile
  <2>3. CASE Begin(p)
    BY <2>1, <2>3, SchemaAssumption DEF Begin, Nobody
  <2>4. CASE BeginTimesOut(p)
    BY <2>1, <2>4 DEF BeginTimesOut
  <2>5. CASE Statement(p)
    <3>1. CASE Rollback(p)
      BY <2>1, <2>5, <3>1, SchemaAssumption DEF Statement, Rollback, Nobody
    <3>2. CASE /\ <<Next1(p), pending + 1>> \notin schema
               /\ pending + 1 <= Statements /\ pending' = pending + 1
               /\ UNCHANGED <<writer, at, current>>
      <4>1. at[p] = "within" /\ writer = p /\ current[p] <= Highest
        BY <2>5 DEF Statement
      <4>2. ~(current[p] + 1 <= Highest)
        BY <3>2, SchemaAssumption DEF Version, Next1
      <4>3. current[p] = Highest
        BY <4>1, <4>2
      <4> QED
        BY <2>1, <3>2, <4>1, <4>3
    <3> QED
      BY <2>5, <3>1, <3>2 DEF Statement
  <2>6. CASE Die(p)
    BY <2>1, <2>6, SchemaAssumption DEF Die, Nobody
  <2>7. CASE InitAsks(p) \/ InitInserts(p)
    BY <2>1, <2>7 DEF InitAsks, InitInserts
  <2> QED
    BY <1>2, <2>2, <2>3, <2>4, <2>5, <2>6, <2>7
<1>3. ASSUME NEW p \in Openers, Commit(p)
      PROVE  SchemaInv'
  BY <1>3, CommitStep
<1> QED
  BY <1>1, <1>2, <1>3 DEF SchemaNext, OpenFile, Begin, BeginTimesOut, Statement, Rollback, Die,
                          InitAsks, InitInserts

(* However many processes of however many builds migrate one file, and     *)
(* wherever each dies, it holds one version whole and nothing of another.  *)
THEOREM SchemaStaysWhole == SchemaSpec => []SchemaIsWhole
<1>1. SchemaInv => SchemaIsWhole
  BY DEF SchemaInv, SchemaIsWhole, Version
<1> QED
  BY <1>1, SchemaStart, SchemaStep, PTL DEF SchemaSpec

-----------------------------------------------------------------------------
(* The build that is run.                                                  *)

Directories == [Files -> {"no", "bad", "good"}]

(* What is staged is as it was pinned, for bytes of another digest are     *)
(* never unpacked, so a rename never puts anything else where it is looked *)
(* for; and what was verified is not replaced by anything else before it   *)
(* is run, though another start may have taken it away.                    *)
InstallInv ==
  /\ cache \in Directories /\ stored \in [Starts -> Directories]
  /\ staging \in [Starts -> [Files -> {"no", "good"}]]
  /\ step \in [Starts -> {"looking", "fetching", "unpacking", "hashing", "verified", "failed", "over"}]
  /\ from \in [Starts -> {"cache", "stored"}]
  /\ ran \in [Starts -> {"no", "good"}]
  /\ \A s \in Starts : step[s] = "verified" => At(s)["binary"] # "bad"

LEMMA InstallStart == InstallInit => InstallInv
<1> USE DEF Directories, Absent, Whole, Files
<1>1. Absent \in Directories /\ Whole \in Directories
  OBVIOUS
<1>2. ASSUME InstallInit
      PROVE  cache \in Directories
  BY <1>2 DEF InstallInit
<1> QED
  BY <1>1, <1>2 DEF InstallInit, InstallInv

LEMMA InstallStep == InstallInv /\ [InstallNext]_installVars => InstallInv'
<1> SUFFICES ASSUME InstallInv, [InstallNext]_installVars
             PROVE  InstallInv'
  OBVIOUS
<1> USE DEF InstallInv, At, Moves, disk
<1>0. "binary" \in Files
  BY DEF Files
<1>1. CASE UNCHANGED installVars
  BY <1>1 DEF installVars
<1>2. ASSUME NEW s \in Starts, FindsOne(s)
      PROVE  InstallInv'
  <2>1. PICK where \in {"cache", "stored"}, stage \in {"hashing", "fetching"} :
          from' = [from EXCEPT ![s] = where] /\ step' = [step EXCEPT ![s] = stage]
    BY <1>2 DEF FindsOne
  <2>2. /\ from' \in [Starts -> {"cache", "stored"}]
        /\ step' \in [Starts -> {"looking", "fetching", "unpacking", "hashing", "verified", "failed", "over"}]
    BY <2>1
  <2>3. \A r \in Starts : step'[r] = "verified" =>
          r # s /\ step[r] = "verified" /\ from'[r] = from[r]
    BY <2>1
  <2>4. UNCHANGED <<cache, stored, staging, ran>>
    BY <1>2 DEF FindsOne
  <2> QED
    BY <2>2, <2>3, <2>4
<1>3. ASSUME NEW s \in Starts, Fetches(s)
      PROVE  InstallInv'
  BY <1>3 DEF Fetches
<1>4. ASSUME NEW s \in Starts, Renames(s)
      PROVE  InstallInv'
  <2>1. staging[s] = Whole /\ Whole["binary"] = "good" /\ Whole \in Directories
    BY <1>0, <1>4 DEF Renames, Whole, Directories
  <2>2. [staging EXCEPT ![s] = Absent] \in [Starts -> [Files -> {"no", "good"}]]
    BY DEF Absent
  <2> HIDE DEF Whole, Absent
  <2> QED
    BY <1>0, <1>4, <2>1, <2>2 DEF Renames
<1>5. ASSUME NEW s \in Starts, NEW f \in Files, Unpacks(s, f)
      PROVE  InstallInv'
  BY <1>5 DEF Unpacks
<1>6. ASSUME NEW s \in Starts, NEW f \in Files, Clears(s, f)
      PROVE  InstallInv'
  BY <1>0, <1>6 DEF Clears, Directories
<1>7. ASSUME NEW s \in Starts, Verifies(s)
      PROVE  InstallInv'
  BY <1>7 DEF Verifies
<1>8. ASSUME NEW s \in Starts, Runs(s)
      PROVE  InstallInv'
  <2>1. At(s)["binary"] \in {"no", "good"}
    BY <1>0, <1>8 DEF Runs, Directories
  <2> HIDE DEF At
  <2>2. /\ ran' \in [Starts -> {"no", "good"}]
        /\ step' \in [Starts -> {"looking", "fetching", "unpacking", "hashing", "verified", "failed", "over"}]
        /\ \A r \in Starts : step'[r] = "verified" => step[r] = "verified"
        /\ UNCHANGED <<disk, staging, from>>
    BY <1>8, <2>1 DEF Runs
  <2> QED
    BY <2>2 DEF At
<1>9. ASSUME NEW s \in Starts, Killed(s)
      PROVE  InstallInv'
  <2>1. [staging EXCEPT ![s] = Absent] \in [Starts -> [Files -> {"no", "good"}]]
    BY DEF Absent
  <2> QED
    BY <1>9, <2>1 DEF Killed
<1>10. ASSUME NEW f \in Files, Damage(f)
       PROVE  InstallInv'
  BY <1>0, <1>10 DEF Damage, Directories
<1> QED
  BY <1>1, <1>2, <1>3, <1>4, <1>5, <1>6, <1>7, <1>8, <1>9, <1>10 DEF InstallNext

(* However many starts share the directory it is unpacked into, and        *)
(* wherever each is killed, nothing runs but the build that was pinned.    *)
THEOREM OnlyThePinnedBuild == InstallSpec => []OnlyThePinnedBuildRuns
<1>1. InstallInv => OnlyThePinnedBuildRuns
  BY DEF InstallInv, OnlyThePinnedBuildRuns
<1> QED
  BY <1>1, InstallStart, InstallStep, PTL DEF InstallSpec

-----------------------------------------------------------------------------
(* The certificate that is shown.                                          *)

LEMMA CertificatesApart ==
  /\ Nothing.is = "none" /\ Half.is = "half"
  /\ \A n : KeyFile(n).is = "key" /\ KeyFile(n).pair = n
  /\ \A n : CaCert(n).is = "cert" /\ CaCert(n).pair = n
  /\ \A n, signer, ns : LET leaf == LeafCert(n, signer, ns)
                        IN  leaf.is = "cert" /\ leaf.signer = signer /\ leaf.names = ns
BY DEF Nothing, Half, KeyFile, CaCert, LeafCert

Read == {"ca read", "leaf key", "leaf cert", "leaf read", "own", "up"}

(* The key of an authority on disk is that of its certificate, whenever    *)
(* both are there: a pair is only made where there is no certificate, and  *)
(* its certificate is only written once its key is.  So a leaf, which is   *)
(* signed with whatever key is on disk, is signed by the authority that    *)
(* was read; and one that is kept was found to be.                         *)
CertInv ==
  /\ caCert.is = "cert" => caCert = CaCert(caCert.pair)
  /\ caCert.is = "cert" /\ caKey.is = "key" => caKey.pair = caCert.pair
  /\ doing \in {"ca key", "ca cert"} => caCert.is # "cert"
  /\ doing = "ca cert" => caKey = KeyFile(authority.pair)
  /\ doing \in Read => caCert = CaCert(authority.pair)
  /\ doing \in {"leaf key", "leaf cert"} => caKey.is = "key"
  /\ doing = "leaf read" => leafCert.signer = authority.pair /\ names \subseteq leafCert.names
  /\ doing \in {"own", "up"} =>
       served.cert.signer = authority.pair /\ names \subseteq served.cert.names
  /\ doing = "up" => supplied.is # "cert" \/ supplied.names \subseteq Hostnames

LEMMA CertStep == CertInv /\ [CertNext]_certVars => CertInv'
<1> SUFFICES ASSUME CertInv, [CertNext]_certVars
             PROVE  CertInv'
  OBVIOUS
<1> USE DEF CertInv, Read
<1>1. CASE UNCHANGED certVars
  BY <1>1 DEF certVars
<1>2. ASSUME NEW ns \in SUBSET Hostnames, StartsWith(ns)
      PROVE  CertInv'
  <2>1. UNCHANGED <<caKey, caCert>>
    BY <1>2 DEF StartsWith, files
  <2>2. CASE doing' = "ca read" /\ caCert.is = "cert" /\ authority'.pair = caCert.pair
    <3>1. caCert' = CaCert(authority'.pair)
      BY <2>1, <2>2
    <3> QED
      BY <2>1, <2>2, <3>1
  <2>3. CASE doing' = "ca key" /\ caCert.is # "cert"
    <3>1. caCert'.is # "cert" /\ doing' \notin Read /\ doing' # "ca cert"
      BY <2>1, <2>3
    <3> QED
      BY <2>3, <3>1
  <2>4. \/ /\ doing' = "ca read" /\ caCert.is = "cert"
           /\ authority' = [pair |-> caCert.pair, made |-> FALSE]
        \/ doing' = "ca key" /\ caCert.is # "cert"
    BY <1>2 DEF StartsWith
  <2>5. CASE authority' = [pair |-> caCert.pair, made |-> FALSE]
    <3>1. authority'.pair = caCert.pair
      BY <2>5
    <3> QED
      BY <2>2, <2>3, <2>4, <3>1
  <2> QED
    BY <2>3, <2>4, <2>5
<1>3. CASE WritesCaKey
  BY <1>3, CertificatesApart DEF WritesCaKey
<1>4. CASE WritesCaCert
  <2>1. doing = "ca cert" /\ UNCHANGED <<caKey, authority>>
    BY <1>4 DEF WritesCaCert
  <2>2. CASE caCert' = Half /\ UNCHANGED doing
    BY <2>1, <2>2, CertificatesApart
  <2>3. CASE caCert' = CaCert(authority.pair) /\ doing' = "ca read"
    <3>1. caCert'.is = "cert" /\ caCert'.pair = authority.pair /\ caKey'.pair = authority.pair
      BY <2>1, <2>3, CertificatesApart
    <3>2. caCert' = CaCert(caCert'.pair) /\ caCert' = CaCert(authority'.pair)
      BY <2>1, <2>3, <3>1
    <3> QED
      BY <2>3, <3>1, <3>2
  <2> QED
    BY <1>4, <2>2, <2>3 DEF WritesCaCert
<1>5. CASE ReadsCaKey
  BY <1>5 DEF ReadsCaKey, IsGood, files
<1>6. CASE WritesLeafKey
  BY <1>6, CertificatesApart DEF WritesLeafKey
<1>7. CASE WritesLeafCert
  <2>1. /\ doing = "leaf cert" /\ UNCHANGED <<caKey, caCert, names, authority, supplied>>
    BY <1>7 DEF WritesLeafCert
  <2>4. caKey.pair = authority.pair
    <3>1. caKey.is = "key" /\ caCert = CaCert(authority.pair)
      BY <2>1
    <3>2. caCert.is = "cert" /\ caCert.pair = authority.pair
      BY <3>1, CertificatesApart
    <3> QED
      BY <3>1, <3>2
  <2>2. CASE UNCHANGED <<doing, served>>
    BY <2>1, <2>2
  <2>3. CASE doing' = "own" /\ served' = [cert |-> leafCert', key |-> leafKey]
                /\ leafCert' = LeafCert(pairs, caKey.pair, names)
    <3>1. served'.cert = LeafCert(pairs, caKey.pair, names)
      BY <2>3
    <3>2. served'.cert.signer = authority.pair /\ served'.cert.names = names
      <4>1. /\ LeafCert(pairs, caKey.pair, names).signer = caKey.pair
            /\ LeafCert(pairs, caKey.pair, names).names = names
        BY DEF LeafCert
      <4> QED
        BY <2>4, <3>1, <4>1
    <3> QED
      BY <2>1, <2>3, <3>2
  <2> QED
    BY <1>7, <2>2, <2>3 DEF WritesLeafCert
<1>8. CASE ReadsLeafKey
  <2>1. doing = "leaf read" /\ UNCHANGED <<caKey, caCert, leafCert, names, authority, supplied>>
    BY <1>8 DEF ReadsLeafKey, files
  <2>2. CASE doing' = "own" /\ served' = [cert |-> leafCert, key |-> leafKey]
    <3>1. served'.cert = leafCert
      BY <2>2
    <3> QED
      BY <2>1, <2>2, <3>1
  <2>3. CASE doing' = "down"
    BY <2>1, <2>3
  <2> QED
    BY <1>8, <2>2, <2>3 DEF ReadsLeafKey
<1>9. CASE ReadsSupplied
  <2>1. doing = "own" /\ UNCHANGED <<caKey, caCert, leafCert, names, authority>>
    BY <1>9 DEF ReadsSupplied, files
  <2>2. CASE doing' = "down"
    BY <2>1, <2>2
  <2>3. CASE doing' = "up"
    <3>1. supplied'.is # "cert" \/ supplied'.names \subseteq Hostnames
      BY <1>9, <2>3, CertificatesApart DEF ReadsSupplied
    <3>2. served' = served
      BY <1>9, <2>3 DEF ReadsSupplied
    <3> QED
      BY <2>1, <2>3, <3>1, <3>2
  <2> QED
    BY <1>9, <2>2, <2>3 DEF ReadsSupplied
<1>10. CASE Dies
  BY <1>10 DEF Dies, files
<1>11. CASE Ages
  BY <1>11 DEF Ages
<1>12. CASE RemovesAll \/ RemovesOne
  BY <1>12, CertificatesApart DEF RemovesAll, RemovesOne
<1> QED
  BY <1>1, <1>2, <1>3, <1>4, <1>5, <1>6, <1>7, <1>8, <1>9, <1>10, <1>11, <1>12 DEF CertNext

(* Whatever names a server is started with, however often, and wherever    *)
(* each start died: what loreserver is shown chains to the authority whose *)
(* fingerprint is announced, and names what the server was started with.   *)
THEOREM ShownIsOfTheAuthority == CertificatesSpec => []ShownChainsToTheAuthority
<1>1. CertInit => CertInv
  BY CertificatesApart DEF CertInit, CertInv, Read
<1>2. CertInv => ShownChainsToTheAuthority
  BY CertificatesApart, CertificatesAssumption
     DEF CertInv, Read, ShownChainsToTheAuthority, Shown
<1> QED
  BY <1>1, <1>2, CertStep, PTL DEF CertificatesSpec

-----------------------------------------------------------------------------
(* What an end makes of what another says.                                 *)

FramesSpec(e) == WireInit /\ [][Foreigners(e, Nat)]_wireVars

Parts == [n : Nat \X Nat, last : BOOLEAN]
Messages == Seq(Seq(Parts))
Ops == {"text", "continuation", "ping", "pong", "close", "binary", "other", "broken"}
Frames == [op : Ops, final : BOOLEAN, size : Nat, body : Parts \cup {<<>>}]
Collects == [open : BOOLEAN, bytes : Nat, parts : Seq(Parts)]

WireTyped ==
  /\ net \in [Ends -> Seq(Frames)] /\ over \in [Ends -> BOOLEAN]
  /\ frags \in [Ends -> Collects]
  /\ said \in Messages /\ got \in Messages

\* How far in what was said: so many messages, and so many parts of the next.
Places == [message : Nat, part : Nat]
Place(m, j) == [message |-> m, part |-> j]
Past(here, piece) ==
  IF piece.last THEN Place(here.message + 1, 0) ELSE Place(here.message, here.part + 1)

\* A frame has what was said at a place, or nothing that was said.
Spoken(f) == f.op \in {"text", "continuation"}
Carried(f, here, then) ==
  IF Spoken(f)
  THEN /\ here.message < Len(said) /\ here.part < Len(said[here.message + 1])
       /\ f.body = said[here.message + 1][here.part + 1]
       /\ f.final = f.body.last
       /\ f.op = "text" <=> here.part = 0
       /\ then = Past(here, f.body)
  ELSE then = here

SaidTo == IF Under THEN Place(Len(said) - 1, Len(Last(said))) ELSE Place(Len(said), 0)
HeardOf(e) == Place(Len(got), Len(frags[e].parts))

\* Of what was said only the last message may go on.
SaidWell ==
  \A m \in 1 .. Len(said) :
    /\ Len(said[m]) > 0
    /\ \A j \in 1 .. Len(said[m]) - 1 : ~said[m][j].last
    /\ m < Len(said) => said[m][Len(said[m])].last

GotWhole ==
  /\ Len(got) <= Len(said)
  /\ \A m \in 1 .. Len(got) : got[m] = said[m] /\ said[m][Len(said[m])].last

\* What has been collected is how the next message begins.
Collected(e) ==
  LET parts == frags[e].parts
  IN  /\ frags[e].open <=> Len(parts) > 0
      /\ Len(parts) > 0 => Len(got) < Len(said) /\ Len(parts) <= Len(said[Len(got) + 1])
      /\ \A k \in 1 .. Len(parts) : parts[k] = said[Len(got) + 1][k] /\ ~parts[k].last

\* What is under way is the rest of what was said, in its order.
InOrder(e, places) ==
  /\ places[1] = HeardOf(e) /\ places[Len(net[e]) + 1] = SaidTo
  /\ \A i \in 1 .. Len(net[e]) : Carried(net[e][i], places[i], places[i + 1])

(* However little of it has come, what an end has put together, what it    *)
(* has collected and what is under way to it are what was said, in this    *)
(* order; what is read next is told by that alone.  An end that is over    *)
(* has what it had.                                                        *)
WireInv(e) ==
  /\ WireTyped /\ SaidWell /\ GotWhole
  /\ ~over[e] =>
       /\ Collected(e)
       /\ \E places \in [1 .. Len(net[e]) + 1 -> Places] : InOrder(e, places)

LEMMA WireStart == \A e \in Ends : WireInit => WireInv(e)
<1> SUFFICES ASSUME NEW e \in Ends, WireInit
             PROVE  WireInv(e)
  OBVIOUS
<1>1. /\ net[e] = <<>> /\ frags[e] = NoFragments /\ said = <<>> /\ got = <<>>
      /\ WireTyped
  BY DEF WireInit, WireTyped, Messages, Collects, NoFragments
<1>2. Len(<<>>) = 0 /\ 1 .. 0 = {} /\ 0 + 1 = 1
  OBVIOUS
<1>3. SaidWell /\ GotWhole /\ Collected(e)
  BY <1>1, <1>2 DEF SaidWell, GotWhole, Collected, NoFragments
<1>4. PICK places : places = [i \in 1 .. 1 |-> Place(0, 0)]
  OBVIOUS
<1>5. places \in [1 .. Len(net[e]) + 1 -> Places] /\ places[1] = Place(0, 0)
  BY <1>1, <1>2, <1>4 DEF Places, Place
<1>6. InOrder(e, places)
  BY <1>1, <1>2, <1>5 DEF InOrder, HeardOf, SaidTo, Under, NoFragments
<1> QED
  BY <1>1, <1>3, <1>5, <1>6 DEF WireInv

LEMMA CarriesTyped ==
  ASSUME WireTyped, NEW e \in Ends, NEW behind \in Seq(Frames), NEW out \in Seq(Frames),
         NEW ends \in BOOLEAN, Carries(e, behind, out, ends)
  PROVE  /\ net' \in [Ends -> Seq(Frames)] /\ over' \in [Ends -> BOOLEAN]
         /\ ends => over'[e]
         /\ ~over'[e] => ~over[e] /\ net'[e] = behind
         /\ out = <<>> /\ ~ends => over'[e] = over[e]
<1> DEFINE ending1 == ends \/ (out # <<>> /\ Backlogged(e))
           out1 == IF over[e] THEN <<>>
                   ELSE IF out # <<>> /\ Backlogged(e) THEN <<Control("close")>> ELSE out
<1>1. Control("close") \in Frames /\ <<>> \in Seq(Frames)
  BY DEF Control, Frame, Frames, Ops
<1>2. out1 \in Seq(Frames) /\ ending1 \in BOOLEAN
  BY <1>1 DEF Backlogged
<1>3. Other(e) \in Ends /\ Other(e) # e
  BY DEF Ends, Other
<1>4. /\ net' = [net EXCEPT ![e] = IF ending1 THEN <<>> ELSE behind,
                            ![Other(e)] = IF lost THEN @ ELSE @ \o out1]
      /\ over' = [over EXCEPT ![e] = @ \/ ending1]
  BY DEF Carries
<1> HIDE DEF out1, ending1
<1>5. net[Other(e)] \o out1 \in Seq(Frames)
  BY <1>2, <1>3 DEF WireTyped
<1>6. net' \in [Ends -> Seq(Frames)]
  BY <1>1, <1>3, <1>4, <1>5 DEF WireTyped
<1>7. over' \in [Ends -> BOOLEAN] /\ over'[e] = (over[e] \/ ending1)
  BY <1>2, <1>4 DEF WireTyped
<1>8. ~ending1 => net'[e] = behind
  BY <1>3, <1>4 DEF WireTyped
<1>9. ends => ending1
  BY DEF ending1
<1>10. over[e] \in BOOLEAN
  BY DEF WireTyped
<1>11. out = <<>> /\ ~ends => ~ending1
  BY DEF ending1
<1> QED
  BY <1>2, <1>6, <1>7, <1>8, <1>9, <1>10, <1>11

(* A frame is read, and what it said is where the end now is.              *)
LEMMA OneIsRead ==
  ASSUME WireTyped, WireTyped', NEW e \in Ends, net[e] # <<>>,
         NEW places \in [1 .. Len(net[e]) + 1 -> Places], InOrder(e, places),
         said' = said, net'[e] = Tail(net[e]), HeardOf(e)' = places[2]
  PROVE  \E later \in [1 .. Len(net'[e]) + 1 -> Places] : InOrder(e, later)'
<1>1. net[e] \in Seq(Frames) /\ net'[e] \in Seq(Frames)
  BY DEF WireTyped
<1>2. /\ Len(net[e]) \in Nat /\ Len(net[e]) > 0 /\ Len(net'[e]) = Len(net[e]) - 1
      /\ \A i \in 1 .. Len(net'[e]) : net'[e][i] = net[e][i + 1]
  BY <1>1
<1>3. PICK later : later = [i \in 1 .. Len(net'[e]) + 1 |-> places[i + 1]]
  OBVIOUS
<1>4. later \in [1 .. Len(net'[e]) + 1 -> Places]
  BY <1>2, <1>3
<1>5. SaidTo' = SaidTo
  BY DEF SaidTo, Under
<1>6. \A i \in 1 .. Len(net'[e]) : Carried(net[e][i], later[i], later[i + 1])'
  <2> SUFFICES ASSUME NEW i \in 1 .. Len(net'[e])
               PROVE  Carried(net[e][i], later[i], later[i + 1])'
    OBVIOUS
  <2>1. i + 1 \in 1 .. Len(net[e]) /\ net'[e][i] = net[e][i + 1]
        /\ later[i] = places[i + 1] /\ later[i + 1] = places[i + 1 + 1]
    BY <1>2, <1>3
  <2>2. Carried(net[e][i + 1], places[i + 1], places[i + 1 + 1])
    BY <2>1 DEF InOrder
  <2> QED
    BY <2>1, <2>2 DEF Carried
<1>7. later[1] = HeardOf(e)' /\ later[Len(net'[e]) + 1] = SaidTo'
  BY <1>2, <1>3, <1>5 DEF InOrder
<1> QED
  BY <1>4, <1>6, <1>7 DEF InOrder

(* A frame is added to what is under way; what was said stays.             *)
LEMMA OneIsAdded ==
  ASSUME WireTyped, WireTyped', NEW e \in Ends, NEW f \in Frames,
         NEW places \in [1 .. Len(net[e]) + 1 -> Places], InOrder(e, places),
         \A m \in 1 .. Len(said) : \A j \in 1 .. Len(said[m]) :
           m <= Len(said') /\ j <= Len(said'[m]) /\ said'[m][j] = said[m][j],
         net'[e] = Append(net[e], f), HeardOf(e)' = HeardOf(e),
         NEW where \in Places, where = SaidTo, NEW to \in Places, to = SaidTo',
         Carried(f, where, to)'
  PROVE  \E later \in [1 .. Len(net'[e]) + 1 -> Places] : InOrder(e, later)'
<1>1. net[e] \in Seq(Frames) /\ net'[e] \in Seq(Frames)
  BY DEF WireTyped
<1>2. /\ Len(net[e]) \in Nat /\ Len(net'[e]) = Len(net[e]) + 1
      /\ net'[e][Len(net[e]) + 1] = f
      /\ \A i \in 1 .. Len(net[e]) : net'[e][i] = net[e][i]
  <2>1. PICK line \in Seq(Frames) : line = net[e]
    BY <1>1
  <2>2. net'[e] = Append(line, f)
    BY <2>1
  <2>3. /\ Len(line) \in Nat /\ Len(Append(line, f)) = Len(line) + 1
        /\ Append(line, f)[Len(line) + 1] = f
        /\ \A i \in 1 .. Len(line) : Append(line, f)[i] = line[i]
    BY ONLY line \in Seq(Frames), f \in Frames
  <2> QED
    BY ONLY <2>1, <2>2, <2>3
<1>3. PICK later : later = [i \in 1 .. Len(net'[e]) + 1 |->
                              IF i <= Len(net[e]) + 1 THEN places[i] ELSE to]
  OBVIOUS
<1>4. later \in [1 .. Len(net'[e]) + 1 -> Places]
  BY <1>2, <1>3
<1>5. later[1] = HeardOf(e)' /\ later[Len(net'[e]) + 1] = SaidTo'
  BY <1>2, <1>3 DEF InOrder
<1>6. \A i \in 1 .. Len(net'[e]) : Carried(net[e][i], later[i], later[i + 1])'
  <2> SUFFICES ASSUME NEW i \in 1 .. Len(net'[e])
               PROVE  Carried(net[e][i], later[i], later[i + 1])'
    OBVIOUS
  <2>1. CASE i = Len(net[e]) + 1
    <3>1. later[i] = where /\ later[i + 1] = to /\ net'[e][i] = f
      BY <1>2, <1>3, <2>1 DEF InOrder
    <3> QED
      BY <3>1 DEF Carried
  <2>2. CASE i \in 1 .. Len(net[e])
    <3>1. later[i] = places[i] /\ later[i + 1] = places[i + 1] /\ net'[e][i] = net[e][i]
      BY <1>2, <1>3, <2>2
    <3>2. Carried(net[e][i], places[i], places[i + 1])
      BY <2>2 DEF InOrder
    <3>3. places[i] \in Places
      BY <1>2, <2>2
    <3>4. places[i].message \in Nat /\ places[i].part \in Nat
      BY <3>3 DEF Places
    <3>5. ASSUME Spoken(net[e][i])
          PROVE  /\ places[i].message + 1 \in 1 .. Len(said)
                 /\ places[i].part + 1 \in 1 .. Len(said[places[i].message + 1])
      <4>1. /\ places[i].message < Len(said) /\ Len(said) \in Nat
            /\ places[i].part < Len(said[places[i].message + 1])
        BY <3>2, <3>5 DEF Carried, WireTyped, Messages
      <4>2. places[i].message + 1 \in 1 .. Len(said)
        BY <3>4, <4>1
      <4>3. said[places[i].message + 1] \in Seq(Parts)
        BY <4>2 DEF WireTyped, Messages
      <4> QED
        BY <3>4, <4>1, <4>2, <4>3
    <3>6. ASSUME Spoken(net[e][i])
          PROVE  /\ places[i].message < Len(said')
                 /\ places[i].part < Len(said'[places[i].message + 1])
                 /\ said'[places[i].message + 1][places[i].part + 1] =
                      said[places[i].message + 1][places[i].part + 1]
      <4>1. /\ places[i].message + 1 <= Len(said')
            /\ places[i].part + 1 <= Len(said'[places[i].message + 1])
            /\ said'[places[i].message + 1][places[i].part + 1] =
                 said[places[i].message + 1][places[i].part + 1]
        BY <3>5, <3>6
      <4>2. Len(said') \in Nat
        BY DEF WireTyped, Messages
      <4>3. places[i].message + 1 \in 1 .. Len(said')
        BY <3>4, <4>1, <4>2
      <4>4. said'[places[i].message + 1] \in Seq(Parts)
        BY <4>3 DEF WireTyped, Messages
      <4> QED
        BY <3>4, <4>1, <4>2, <4>4
    <3> QED
      BY <3>1, <3>2, <3>6 DEF Carried
  <2> QED
    BY <1>2, <2>1, <2>2
<1> QED
  BY <1>4, <1>5, <1>6 DEF InOrder

(* A part is put at the end of the message under way.                      *)
LEMMA PartAdded ==
  ASSUME NEW s \in Messages, s # <<>>, NEW p \in Parts
  PROVE  LET t == Front(s) \o <<Append(Last(s), p)>>
         IN  /\ t \in Messages /\ Len(t) = Len(s)
             /\ \A m \in 1 .. Len(s) - 1 : t[m] = s[m]
             /\ t[Len(s)] = Append(s[Len(s)], p)
<1>1. s \in Seq(Seq(Parts)) /\ Len(s) \in Nat /\ Len(s) > 0
  BY ONLY s \in Messages, s # <<>> DEF Messages
<1>2. Last(s) = s[Len(s)] /\ s[Len(s)] \in Seq(Parts)
  BY ONLY <1>1 DEF Last
<1>3. PICK longer : longer \in Seq(Parts) /\ longer = Append(Last(s), p)
  <2>1. PICK end : end = s[Len(s)] /\ end \in Seq(Parts)
    BY ONLY <1>2
  <2>2. Append(end, p) \in Seq(Parts)
    BY ONLY <2>1, p \in Parts
  <2> QED
    BY ONLY <1>2, <2>1, <2>2
<1>4. PICK front :
        /\ front \in Seq(Seq(Parts)) /\ front = Front(s) /\ Len(front) = Len(s) - 1
        /\ \A m \in 1 .. Len(s) - 1 : front[m] = s[m]
  <2>1. /\ SubSeq(s, 1, Len(s) - 1) \in Seq(Seq(Parts))
        /\ Len(SubSeq(s, 1, Len(s) - 1)) = Len(s) - 1
        /\ \A m \in 1 .. Len(s) - 1 : SubSeq(s, 1, Len(s) - 1)[m] = s[m]
    <3>1. PICK k : k = Len(s) - 1 /\ k \in Nat
      BY ONLY <1>1
    <3>2. 1 \in Int /\ k \in Int /\ \A i \in 1 .. k : s[i] \in Seq(Parts)
      BY ONLY <1>1, <3>1
    <3>3. /\ SubSeq(s, 1, k) \in Seq(Seq(Parts))
          /\ Len(SubSeq(s, 1, k)) = IF 1 <= k THEN k - 1 + 1 ELSE 0
          /\ \A i \in 1 .. k - 1 + 1 : SubSeq(s, 1, k)[i] = s[1 + i - 1]
      BY ONLY <3>2, SubSeqProperties
    <3>4. /\ k - 1 + 1 = k /\ (1 <= k \/ k = 0)
          /\ \A m \in 1 .. k : 1 + m - 1 = m
      BY ONLY <3>1
    <3>5. \A m \in 1 .. k : SubSeq(s, 1, k)[m] = s[m]
      BY ONLY <3>3, <3>4
    <3>6. Len(SubSeq(s, 1, k)) = k
      BY ONLY <3>3, <3>4
    <3> QED
      BY ONLY <3>1, <3>3, <3>5, <3>6
  <2> QED
    BY ONLY <2>1 DEF Front
<1>5. PICK end :
        /\ end \in Seq(Seq(Parts)) /\ end = <<longer>> /\ Len(end) = 1 /\ end[1] = longer
  <2>1. <<longer>> \in Seq(Seq(Parts)) /\ Len(<<longer>>) = 1 /\ <<longer>>[1] = longer
    BY ONLY <1>3
  <2> QED
    BY ONLY <2>1
<1>6. /\ front \o end \in Seq(Seq(Parts)) /\ Len(front \o end) = Len(s)
      /\ \A m \in 1 .. Len(s) - 1 : (front \o end)[m] = front[m]
      /\ (front \o end)[Len(s)] = end[1]
  <2>1. PICK k : k = Len(s) - 1 /\ k \in Nat /\ k = Len(front) /\ Len(s) = k + 1
    BY ONLY <1>1, <1>4
  <2>2. /\ front \o end \in Seq(Seq(Parts))
        /\ Len(front \o end) = k + 1
        /\ \A m \in 1 .. k + 1 :
             (front \o end)[m] = IF m <= k THEN front[m] ELSE end[m - k]
    BY ONLY <1>4, <1>5, <2>1, ConcatProperties
  <2>3. /\ \A m \in 1 .. k : m \in 1 .. k + 1 /\ m <= k
        /\ k + 1 \in 1 .. k + 1 /\ ~(k + 1 <= k) /\ k + 1 - k = 1
    BY ONLY <2>1
  <2> QED
    BY ONLY <2>1, <2>2, <2>3
<1> QED
  BY ONLY <1>2, <1>3, <1>4, <1>5, <1>6 DEF Messages

(* What was said, when a part of it is said: what there was is there, only *)
(* the last message may go on, and the next place is the one after it.     *)
LEMMA MoreIsSaid ==
  ASSUME WireTyped, SaidWell, NEW part \in Parts,
         said' = IF Under THEN Front(said) \o <<Append(Last(said), part)>>
                 ELSE Append(said, <<part>>)
  PROVE  /\ said' \in Messages /\ SaidWell'
         /\ SaidTo \in Places
         /\ \A m \in 1 .. Len(said) : \A j \in 1 .. Len(said[m]) :
              m <= Len(said') /\ j <= Len(said'[m]) /\ said'[m][j] = said[m][j]
         /\ \A m \in 1 .. Len(said) : said[m][Len(said[m])].last => said'[m] = said[m]
         /\ SaidTo.message < Len(said') /\ SaidTo.part < Len(said'[SaidTo.message + 1])
         /\ said'[SaidTo.message + 1][SaidTo.part + 1] = part
         /\ SaidTo.part = 0 <=> ~Under
         /\ SaidTo' = Past(SaidTo, part)
<1>1. PICK s : s = said /\ s \in Messages
  BY DEF WireTyped
<1>2. s \in Seq(Seq(Parts)) /\ Len(s) \in Nat
  BY ONLY <1>1 DEF Messages
<1>3. /\ \A m \in 1 .. Len(s) : s[m] \in Seq(Parts) /\ Len(s[m]) \in Nat /\ Len(s[m]) > 0
      /\ \A m \in 1 .. Len(s) : \A j \in 1 .. Len(s[m]) - 1 : ~s[m][j].last
      /\ \A m \in 1 .. Len(s) : m < Len(s) => s[m][Len(s[m])].last
  <2>1. /\ \A m \in 1 .. Len(s) : Len(s[m]) > 0 /\ \A j \in 1 .. Len(s[m]) - 1 : ~s[m][j].last
        /\ \A m \in 1 .. Len(s) : m < Len(s) => s[m][Len(s[m])].last
    BY <1>1 DEF SaidWell
  <2>2. \A m \in 1 .. Len(s) : s[m] \in Seq(Parts)
    BY ONLY <1>2
  <2>3. \A m \in 1 .. Len(s) : Len(s[m]) \in Nat
    BY ONLY <2>2
  <2> QED
    BY ONLY <2>1, <2>2, <2>3
<1>4. part.last \in BOOLEAN
  BY DEF Parts
<1>5. CASE Under
  <2>1. s # <<>> /\ Len(s) > 0 /\ Last(s) = s[Len(s)] /\ ~s[Len(s)][Len(s[Len(s)])].last
    BY <1>1, <1>2, <1>5 DEF Under, Last
  <2>2. PICK t :
          /\ t \in Messages /\ said' = t /\ Len(t) = Len(s)
          /\ \A m \in 1 .. Len(s) - 1 : t[m] = s[m]
          /\ t[Len(s)] = Append(s[Len(s)], part)
    <3>1. /\ Front(s) \o <<Append(Last(s), part)>> \in Messages
          /\ Len(Front(s) \o <<Append(Last(s), part)>>) = Len(s)
          /\ \A m \in 1 .. Len(s) - 1 : (Front(s) \o <<Append(Last(s), part)>>)[m] = s[m]
          /\ (Front(s) \o <<Append(Last(s), part)>>)[Len(s)] = Append(s[Len(s)], part)
      BY ONLY <1>1, <2>1, part \in Parts, PartAdded
    <3>2. said' = Front(s) \o <<Append(Last(s), part)>>
      BY <1>1, <1>5
    <3> QED
      BY ONLY <3>1, <3>2
  <2>3. PICK line :
          line \in Seq(Parts) /\ line = s[Len(s)] /\ Len(line) > 0 /\ Len(line) \in Nat
    BY ONLY <1>2, <1>3, <2>1
  <2>4. /\ Len(Append(line, part)) = Len(line) + 1 /\ Append(line, part)[Len(line) + 1] = part
        /\ \A j \in 1 .. Len(line) : Append(line, part)[j] = line[j]
    BY ONLY <2>3, part \in Parts
  <2>5. PICK longer : longer = Append(line, part)
    OBVIOUS
  <2>6. /\ t[Len(s)] = longer /\ Len(longer) = Len(line) + 1 /\ longer[Len(line) + 1] = part
        /\ \A j \in 1 .. Len(line) : longer[j] = line[j]
    BY <2>2, <2>3, <2>4, <2>5
  <2>7. SaidWell'
    <3>1. \A m \in 1 .. Len(t) : Len(t[m]) > 0
      <4> SUFFICES ASSUME NEW m \in 1 .. Len(t)
                   PROVE  Len(t[m]) > 0
        OBVIOUS
      <4>1. CASE m \in 1 .. Len(s) - 1
        BY ONLY <4>1, <1>2, <1>3, <2>2
      <4>2. CASE m = Len(s)
        BY ONLY <4>2, <2>3, <2>6
      <4> QED
        BY ONLY <4>1, <4>2, <2>2, <1>2, m \in 1 .. Len(t)
    <3>2. \A m \in 1 .. Len(t) : \A j \in 1 .. Len(t[m]) - 1 : ~t[m][j].last
      <4> SUFFICES ASSUME NEW m \in 1 .. Len(t), NEW j \in 1 .. Len(t[m]) - 1
                   PROVE  ~t[m][j].last
        OBVIOUS
      <4>1. CASE m \in 1 .. Len(s) - 1
        BY ONLY <4>1, <1>2, <1>3, <2>2
      <4>2. CASE m = Len(s)
        <5>1. j \in 1 .. Len(line) /\ t[m][j] = line[j]
          BY ONLY <4>2, <2>6, <2>3, j \in 1 .. Len(t[m]) - 1
        <5>2. CASE j \in 1 .. Len(line) - 1
          BY ONLY <4>2, <5>1, <5>2, <1>2, <1>3, <2>1, <2>3
        <5>3. CASE j = Len(line)
          BY ONLY <4>2, <5>1, <5>3, <2>1, <2>3
        <5> QED
          BY ONLY <5>1, <5>2, <5>3, <2>3
      <4> QED
        BY ONLY <4>1, <4>2, <2>2, <1>2, m \in 1 .. Len(t)
    <3>3. \A m \in 1 .. Len(t) : m < Len(t) => t[m][Len(t[m])].last
      <4> SUFFICES ASSUME NEW m \in 1 .. Len(t), m < Len(t)
                   PROVE  t[m][Len(t[m])].last
        OBVIOUS
      <4>1. m \in 1 .. Len(s) - 1 /\ m \in 1 .. Len(s) /\ m < Len(s)
        BY ONLY <1>2, <2>2, m \in 1 .. Len(t), m < Len(t)
      <4>2. t[m] = s[m] /\ s[m][Len(s[m])].last
        BY ONLY <1>3, <2>2, <4>1
      <4> QED
        BY ONLY <4>2
    <3> QED
      BY <2>2, <3>1, <3>2, <3>3 DEF SaidWell
  <2>8. PICK here : here \in Places /\ here = SaidTo /\ here = Place(Len(s) - 1, Len(line))
    <3>1. SaidTo = Place(Len(s) - 1, Len(line))
      BY <1>1, <1>5, <2>1, <2>3 DEF SaidTo
    <3>2. Len(s) - 1 \in Nat
      BY ONLY <1>2, <2>1
    <3>3. Place(Len(s) - 1, Len(line)) \in Places
      BY ONLY <3>2, <2>3 DEF Places, Place
    <3> QED
      BY ONLY <3>1, <3>3
  <2>9. here.message = Len(s) - 1 /\ here.part = Len(line)
    BY <2>8 DEF Place
  <2>10. \A m \in 1 .. Len(s) : \A j \in 1 .. Len(s[m]) :
           m <= Len(t) /\ j <= Len(t[m]) /\ t[m][j] = s[m][j]
    <3> SUFFICES ASSUME NEW m \in 1 .. Len(s), NEW j \in 1 .. Len(s[m])
                 PROVE  m <= Len(t) /\ j <= Len(t[m]) /\ t[m][j] = s[m][j]
      OBVIOUS
    <3>1. CASE m = Len(s)
      BY ONLY <3>1, <1>2, <2>2, <2>3, <2>6, j \in 1 .. Len(s[m])
    <3>2. CASE m \in 1 .. Len(s) - 1
      BY ONLY <3>2, <1>2, <1>3, <2>2, j \in 1 .. Len(s[m])
    <3> QED
      BY ONLY <3>1, <3>2, <1>2, m \in 1 .. Len(s)
  <2>11. \A m \in 1 .. Len(s) : s[m][Len(s[m])].last => t[m] = s[m]
    <3> SUFFICES ASSUME NEW m \in 1 .. Len(s), s[m][Len(s[m])].last
                 PROVE  t[m] = s[m]
      OBVIOUS
    <3>1. m # Len(s)
      BY ONLY <2>1, s[m][Len(s[m])].last
    <3>2. m \in 1 .. Len(s) - 1
      BY ONLY <1>2, <3>1, m \in 1 .. Len(s)
    <3> QED
      BY ONLY <2>2, <3>2
  <2>12. SaidTo' = IF part.last THEN Place(Len(s), 0) ELSE Place(Len(s) - 1, Len(line) + 1)
    <3>1. Last(t) = longer /\ Last(Last(t)) = part
      BY ONLY <2>2, <2>6 DEF Last
    <3>2. t # <<>>
      BY ONLY <2>1, <2>2, <1>2
    <3>3. Under' = ~part.last
      BY <2>2, <3>1, <3>2 DEF Under
    <3> QED
      BY <2>2, <2>6, <3>1, <3>3 DEF SaidTo
  <2>13. SaidTo' = Past(here, part)
    BY <1>2, <2>9, <2>12 DEF Past
  <2>14. here.message < Len(t) /\ here.part < Len(t[here.message + 1])
         /\ t[here.message + 1][here.part + 1] = part
         /\ (here.part = 0 <=> ~Under)
    <3>1. here.message + 1 = Len(s)
      BY ONLY <1>2, <2>9
    <3> QED
      BY <1>2, <1>5, <2>1, <2>2, <2>3, <2>6, <2>9, <3>1
  <2> QED
    BY ONLY <1>1, <2>2, <2>7, <2>8, <2>10, <2>11, <2>13, <2>14
<1>6. CASE ~Under
  <2>1. said' = Append(s, <<part>>)
    BY <1>1, <1>6
  <2>2. PICK one : one \in Seq(Parts) /\ one = <<part>> /\ Len(one) = 1 /\ one[1] = part
    <3>1. <<part>> \in Seq(Parts) /\ Len(<<part>>) = 1 /\ <<part>>[1] = part
      BY ONLY part \in Parts
    <3> QED
      BY ONLY <3>1
  <2>3. PICK t :
          /\ t \in Messages /\ said' = t /\ Len(t) = Len(s) + 1
          /\ \A m \in 1 .. Len(s) : t[m] = s[m]
          /\ t[Len(s) + 1] = one
    <3>1. /\ Append(s, one) \in Seq(Seq(Parts)) /\ Len(Append(s, one)) = Len(s) + 1
          /\ \A m \in 1 .. Len(s) : Append(s, one)[m] = s[m]
          /\ Append(s, one)[Len(s) + 1] = one
      BY ONLY <1>2, <2>2
    <3> QED
      BY ONLY <2>1, <2>2, <3>1 DEF Messages
  <2>4. Len(s) > 0 => s[Len(s)][Len(s[Len(s)])].last
    BY <1>1, <1>2, <1>6 DEF Under, Last
  <2>5. SaidWell'
    <3> SUFFICES ASSUME NEW m \in 1 .. Len(t)
                 PROVE  /\ Len(t[m]) > 0
                        /\ \A j \in 1 .. Len(t[m]) - 1 : ~t[m][j].last
                        /\ m < Len(t) => t[m][Len(t[m])].last
      BY <2>3 DEF SaidWell
    <3>1. m \in 1 .. Len(s) \/ m = Len(s) + 1
      BY ONLY <1>2, <2>3, m \in 1 .. Len(t)
    <3>2. CASE m = Len(s) + 1
      BY ONLY <3>2, <1>2, <2>2, <2>3
    <3>3. CASE m \in 1 .. Len(s)
      <4>1. t[m] = s[m]
        BY ONLY <3>3, <2>3
      <4>2. m = Len(s) \/ m < Len(s)
        BY ONLY <3>3, <1>2
      <4>3. s[m][Len(s[m])].last
        BY ONLY <3>3, <4>2, <1>2, <1>3, <2>4
      <4> QED
        BY ONLY <3>3, <4>1, <4>3, <1>3
    <3> QED
      BY ONLY <3>1, <3>2, <3>3
  <2>6. PICK here : here \in Places /\ here = SaidTo /\ here = Place(Len(s), 0)
    BY <1>1, <1>2, <1>6 DEF SaidTo, Places, Place
  <2>7. here.message = Len(s) /\ here.part = 0
    BY <2>6 DEF Place
  <2>8. SaidTo' = IF part.last THEN Place(Len(s) + 1, 0) ELSE Place(Len(s), 1)
    <3>1. Last(t) = one /\ Last(Last(t)) = part /\ t # <<>>
      BY ONLY <1>2, <2>2, <2>3 DEF Last
    <3>2. Under' = ~part.last
      BY <2>3, <3>1 DEF Under
    <3>3. SaidTo' = IF ~part.last THEN Place(Len(t) - 1, Len(one)) ELSE Place(Len(t), 0)
      BY <2>3, <3>1, <3>2 DEF SaidTo
    <3>4. Len(t) - 1 = Len(s)
      BY ONLY <1>2, <2>3
    <3> QED
      BY ONLY <3>3, <3>4, <2>2, <2>3, <1>4
  <2>9. SaidTo' = Past(here, part)
    BY <1>2, <2>7, <2>8 DEF Past
  <2>10. /\ here.message < Len(t) /\ here.part < Len(t[here.message + 1])
         /\ t[here.message + 1][here.part + 1] = part
         /\ here.part = 0 <=> ~Under
    BY <1>2, <1>6, <2>2, <2>3, <2>7
  <2>11. \A m \in 1 .. Len(s) : \A j \in 1 .. Len(s[m]) :
           m <= Len(t) /\ j <= Len(t[m]) /\ t[m][j] = s[m][j]
    BY ONLY <1>2, <1>3, <2>3
  <2> QED
    BY ONLY <1>1, <2>3, <2>5, <2>6, <2>9, <2>10, <2>11
<1> QED
  BY <1>5, <1>6

(* What was put together and collected of what was said is that still when *)
(* more is said.                                                           *)
LEMMA MoreIsKept ==
  ASSUME WireTyped, SaidWell, GotWhole, NEW e \in Ends, over[e] \/ Collected(e),
         said' \in Messages, got' = got, frags' = frags,
         \A m \in 1 .. Len(said) : \A j \in 1 .. Len(said[m]) :
           m <= Len(said') /\ j <= Len(said'[m]) /\ said'[m][j] = said[m][j],
         \A m \in 1 .. Len(said) : said[m][Len(said[m])].last => said'[m] = said[m]
  PROVE  GotWhole' /\ (~over[e] => Collected(e)')
<1>1. /\ said \in Seq(Seq(Parts)) /\ Len(said) \in Nat /\ said' \in Seq(Seq(Parts))
      /\ got \in Seq(Seq(Parts)) /\ Len(got) \in Nat /\ Len(said') \in Nat
      /\ frags[e].parts \in Seq(Parts) /\ Len(frags[e].parts) \in Nat
  BY DEF WireTyped, Messages, Collects
<1>2. \A m \in 1 .. Len(said) : m <= Len(said') /\ Len(said[m]) > 0 /\ Len(said[m]) \in Nat
  <2> SUFFICES ASSUME NEW m \in 1 .. Len(said)
               PROVE  m <= Len(said') /\ Len(said[m]) > 0 /\ Len(said[m]) \in Nat
    OBVIOUS
  <2>1. said[m] \in Seq(Parts)
    BY ONLY <1>1, m \in 1 .. Len(said)
  <2>2. Len(said[m]) \in Nat /\ Len(said[m]) > 0
    BY <2>1 DEF SaidWell
  <2>3. 1 \in 1 .. Len(said[m])
    BY ONLY <2>2
  <2> QED
    BY <2>2, <2>3
<1>3. GotWhole'
  <2>1. Len(got) <= Len(said) /\ Len(got) <= Len(said')
    <3>1. Len(got) <= Len(said)
      BY DEF GotWhole
    <3>2. CASE Len(got) = 0
      BY ONLY <1>1, <3>1, <3>2
    <3>3. CASE Len(got) # 0
      <4>1. Len(got) \in 1 .. Len(said)
        BY ONLY <1>1, <3>1, <3>3
      <4> QED
        BY ONLY <1>2, <3>1, <4>1
    <3> QED
      BY ONLY <3>2, <3>3
  <2>2. \A m \in 1 .. Len(got) : got[m] = said'[m] /\ said'[m][Len(said'[m])].last
    <3> SUFFICES ASSUME NEW m \in 1 .. Len(got)
                 PROVE  got[m] = said'[m] /\ said'[m][Len(said'[m])].last
      OBVIOUS
    <3>1. m \in 1 .. Len(said)
      BY ONLY <1>1, <2>1, m \in 1 .. Len(got)
    <3>2. got[m] = said[m] /\ said[m][Len(said[m])].last
      BY DEF GotWhole
    <3>3. said'[m] = said[m]
      BY <3>1, <3>2
    <3> QED
      BY ONLY <3>2, <3>3
  <2> QED
    BY <2>1, <2>2 DEF GotWhole
<1>4. ASSUME ~over[e]
      PROVE  Collected(e)'
  <2>1. Collected(e)
    BY <1>4
  <2>2. PICK parts : parts = frags[e].parts /\ parts \in Seq(Parts) /\ Len(parts) \in Nat
    BY ONLY <1>1
  <2>3. /\ frags[e].open <=> Len(parts) > 0
        /\ Len(parts) > 0 => Len(got) < Len(said) /\ Len(parts) <= Len(said[Len(got) + 1])
        /\ \A k \in 1 .. Len(parts) : parts[k] = said[Len(got) + 1][k] /\ ~parts[k].last
    BY <2>1, <2>2 DEF Collected
  <2>4. ASSUME Len(parts) > 0
        PROVE  /\ Len(got) < Len(said') /\ Len(parts) <= Len(said'[Len(got) + 1])
               /\ \A k \in 1 .. Len(parts) : parts[k] = said'[Len(got) + 1][k]
    <3>1. /\ Len(got) + 1 \in 1 .. Len(said)
          /\ Len(parts) \in 1 .. Len(said[Len(got) + 1])
          /\ \A k \in 1 .. Len(parts) : k \in 1 .. Len(said[Len(got) + 1])
      <4>1. PICK m : m = Len(got) + 1 /\ m \in 1 .. Len(said)
        BY ONLY <1>1, <2>3, <2>4
      <4>2. PICK most : most = Len(said[m]) /\ most \in Nat
        BY ONLY <1>2, <4>1
      <4>3. Len(parts) <= most
        BY ONLY <2>3, <2>4, <4>1, <4>2
      <4>4. Len(parts) \in 1 .. most /\ \A k \in 1 .. Len(parts) : k \in 1 .. most
        BY ONLY <2>2, <2>4, <4>2, <4>3
      <4> QED
        BY ONLY <4>1, <4>2, <4>4
    <3>2. PICK m : m = Len(got) + 1
      OBVIOUS
    <3>3. /\ m <= Len(said') /\ Len(parts) <= Len(said'[m])
          /\ \A k \in 1 .. Len(parts) : said'[m][k] = said[m][k]
      BY <3>1, <3>2
    <3> QED
      BY ONLY <1>1, <2>3, <3>2, <3>3
  <2>5. CASE Len(parts) > 0
    BY ONLY <2>5, <2>2, <2>3, <2>4, got' = got, frags' = frags DEF Collected
  <2>6. CASE ~(Len(parts) > 0)
    BY ONLY <2>6, <2>2, <2>3, got' = got, frags' = frags DEF Collected
  <2> QED
    BY ONLY <2>5, <2>6
<1> QED
  BY <1>3, <1>4

LEMMA SaysPartStep ==
  ASSUME NEW e \in Ends, WireInv(e), NEW size \in Nat, NEW last \in BOOLEAN,
         SaysPart(e, size, last)
  PROVE  WireInv(e)'
<1>1. WireTyped /\ SaidWell /\ GotWhole
  BY DEF WireInv
<1>2. PICK part : part = [n |-> IF Under THEN <<Len(said), Len(Last(said)) + 1>>
                                ELSE <<Len(said) + 1, 1>>, last |-> last]
  OBVIOUS
<1>3. part \in Parts /\ part.last = last
  <2>1. said \in Seq(Seq(Parts)) /\ Len(said) \in Nat
    BY <1>1 DEF WireTyped, Messages
  <2>2. ASSUME Under PROVE Len(Last(said)) \in Nat
    <3>1. Len(said) \in 1 .. Len(said)
      BY <2>1, <2>2 DEF Under
    <3>2. said[Len(said)] \in Seq(Parts)
      BY ONLY <2>1, <3>1
    <3> QED
      BY ONLY <3>2 DEF Last
  <2>3. part.n \in Nat \X Nat
    BY ONLY <1>2, <2>1, <2>2
  <2> QED
    BY ONLY <1>2, <2>3, last \in BOOLEAN DEF Parts
<1>4. PICK f : /\ f = Frame(IF Under THEN "continuation" ELSE "text", last, size, part)
               /\ f.op = (IF Under THEN "continuation" ELSE "text") /\ f.final = last
               /\ f.body = part /\ f \in Frames
  <2>1. Frame(IF Under THEN "continuation" ELSE "text", last, size, part) \in Frames
    BY <1>3 DEF Frame, Frames, Ops
  <2> QED
    BY <2>1 DEF Frame
<1>5. /\ said' = IF Under THEN Front(said) \o <<Append(Last(said), part)>>
                 ELSE Append(said, <<part>>)
      /\ net' = [net EXCEPT ![e] = Append(@, f)]
      /\ over' = over /\ frags' = frags /\ got' = got
  BY <1>2, <1>4 DEF SaysPart, Foreign
<1>6. /\ said' \in Messages /\ SaidWell'
      /\ SaidTo \in Places
      /\ \A m \in 1 .. Len(said) : \A j \in 1 .. Len(said[m]) :
           m <= Len(said') /\ j <= Len(said'[m]) /\ said'[m][j] = said[m][j]
      /\ \A m \in 1 .. Len(said) : said[m][Len(said[m])].last => said'[m] = said[m]
      /\ SaidTo.message < Len(said') /\ SaidTo.part < Len(said'[SaidTo.message + 1])
      /\ said'[SaidTo.message + 1][SaidTo.part + 1] = part
      /\ SaidTo.part = 0 <=> ~Under
      /\ SaidTo' = Past(SaidTo, part)
  BY <1>1, <1>3, <1>5, MoreIsSaid
<1>7. net'[e] = Append(net[e], f) /\ net' \in [Ends -> Seq(Frames)]
  BY <1>1, <1>4, <1>5 DEF WireTyped
<1>8. WireTyped'
  BY <1>1, <1>5, <1>6, <1>7 DEF WireTyped
<1>9. GotWhole' /\ (~over[e] => Collected(e)')
  BY <1>1, <1>5, <1>6, MoreIsKept DEF WireInv
<1>10. ASSUME ~over[e]
       PROVE  \E later \in [1 .. Len(net'[e]) + 1 -> Places] : InOrder(e, later)'
  <2>1. PICK places \in [1 .. Len(net[e]) + 1 -> Places] : InOrder(e, places)
    BY <1>10 DEF WireInv
  <2>2. PICK where \in Places : where = SaidTo
    BY <1>6
  <2>3. PICK to \in Places : to = SaidTo'
    <3>1. where.message \in Nat /\ where.part \in Nat
      BY ONLY <2>2 DEF Places
    <3>2. Past(where, part) \in Places
      BY ONLY <3>1 DEF Past, Place, Places
    <3> QED
      BY ONLY <1>6, <2>2, <3>2
  <2>4. Spoken(f)
    BY <1>4 DEF Spoken
  <2>5. Carried(f, where, to)'
    BY <1>3, <1>4, <1>6, <2>2, <2>3, <2>4 DEF Carried
  <2>6. HeardOf(e)' = HeardOf(e)
    BY <1>5 DEF HeardOf
  <2> QED
    BY <1>1, <1>4, <1>6, <1>7, <1>8, <2>1, <2>2, <2>3, <2>5, <2>6, OneIsAdded
<1> QED
  BY <1>5, <1>6, <1>8, <1>9, <1>10 DEF WireInv

LEMMA SaysElseStep ==
  ASSUME NEW e \in Ends, WireInv(e), NEW op \in Ops \ {"text", "continuation"}, SaysElse(e, op)
  PROVE  WireInv(e)'
<1>1. WireTyped /\ SaidWell /\ GotWhole
  BY DEF WireInv
<1>2. PICK f : f = Frame(op, TRUE, 0, <<>>) /\ f \in Frames /\ ~Spoken(f)
  <2>1. Frame(op, TRUE, 0, <<>>) \in Frames /\ ~Spoken(Frame(op, TRUE, 0, <<>>))
    BY DEF Frame, Frames, Ops, Spoken
  <2> QED
    BY <2>1
<1>3. /\ net' = [net EXCEPT ![e] = Append(@, f)]
      /\ said' = said /\ over' = over /\ frags' = frags /\ got' = got
  BY <1>2 DEF SaysElse, Foreign
<1>4. net'[e] = Append(net[e], f) /\ net' \in [Ends -> Seq(Frames)]
  <2>1. net \in [Ends -> Seq(Frames)]
    BY <1>1 DEF WireTyped
  <2>2. PICK line : line = net[e] /\ line \in Seq(Frames)
    BY ONLY <2>1, e \in Ends
  <2>3. PICK longer : longer = Append(line, f) /\ longer \in Seq(Frames)
    BY ONLY <1>2, <2>2, AppendProperties
  <2>4. net' = [net EXCEPT ![e] = longer]
    BY ONLY <1>3, <2>2, <2>3
  <2> QED
    BY ONLY <2>1, <2>2, <2>3, <2>4, e \in Ends
<1>5. WireTyped'
  BY <1>1, <1>3, <1>4 DEF WireTyped
<1>6. SaidWell' /\ GotWhole' /\ (Collected(e) => Collected(e)')
  BY <1>1, <1>3 DEF SaidWell, GotWhole, Collected
<1>7. ASSUME ~over[e]
      PROVE  \E later \in [1 .. Len(net'[e]) + 1 -> Places] : InOrder(e, later)'
  <2>1. PICK places \in [1 .. Len(net[e]) + 1 -> Places] : InOrder(e, places)
    BY <1>7 DEF WireInv
  <2>2. Len(net[e]) + 1 \in 1 .. Len(net[e]) + 1
    BY <1>1 DEF WireTyped
  <2>3. PICK where \in Places : where = SaidTo
    BY <2>1, <2>2 DEF InOrder
  <2>4. SaidTo' = SaidTo /\ HeardOf(e)' = HeardOf(e)
    BY <1>3 DEF SaidTo, Under, HeardOf
  <2>5. Carried(f, where, where)'
    BY <1>2 DEF Carried
  <2>6. \A m \in 1 .. Len(said) : \A j \in 1 .. Len(said[m]) :
          m <= Len(said') /\ j <= Len(said'[m]) /\ said'[m][j] = said[m][j]
    <3>1. said \in Seq(Seq(Parts))
      BY <1>1 DEF WireTyped, Messages
    <3>2. \A m \in 1 .. Len(said) : \A j \in 1 .. Len(said[m]) : m <= Len(said) /\ j <= Len(said[m])
      BY ONLY <3>1
    <3> QED
      BY ONLY <1>3, <3>2
  <2> QED
    BY <1>1, <1>2, <1>4, <1>5, <2>1, <2>3, <2>4, <2>5, <2>6, OneIsAdded
<1> QED
  BY <1>3, <1>5, <1>6, <1>7 DEF WireInv

(* Steps that change nothing of what an end reads, or only what it has     *)
(* written.                                                                *)
LEMMA ReadsNothing ==
  ASSUME NEW e \in Ends, WireInv(e), net'[e] = net[e], net' \in [Ends -> Seq(Frames)],
         UNCHANGED <<over, frags, said, got>>
  PROVE  WireInv(e)'
<1>1. WireTyped' /\ SaidWell' /\ GotWhole'
  BY DEF WireInv, WireTyped, SaidWell, GotWhole
<1>2. Collected(e) => Collected(e)'
  BY DEF Collected
<1>3. SaidTo' = SaidTo /\ HeardOf(e)' = HeardOf(e)
  BY DEF SaidTo, Under, HeardOf
<1>4. ASSUME NEW places, InOrder(e, places)
      PROVE  InOrder(e, places)'
  BY <1>3, <1>4 DEF InOrder, Carried
<1> QED
  BY <1>1, <1>2, <1>4 DEF WireInv

(* What may come of a frame that is read: the end is over; or it goes on,  *)
(* and its message goes on, or is whole, or was none of those that are     *)
(* told.                                                                   *)
LEMMA CollectReads ==
  ASSUME WireTyped, NEW e \in Ends, NEW f \in Frames, NEW behind \in Seq(Frames),
         Spoken(f), f.body \in Parts, ~over[e], Collect(e, f, behind)
  PROVE  LET old == frags[e]
             parts == Append(old.parts, f.body)
         IN  /\ net' \in [Ends -> Seq(Frames)] /\ over' \in [Ends -> BOOLEAN]
             /\ frags' \in [Ends -> Collects]
             /\ ~over'[e] => ~over[e] /\ net'[e] = behind
             /\ \/ over'[e] /\ got' = got
                \/ ~f.final /\ got' = got /\ frags'[e].open /\ frags'[e].parts = parts
                \/ /\ ~over'[e] /\ f.final
                   /\ got' = Append(got, parts) /\ frags'[e] = NoFragments
<1>1. PICK old : old = frags[e] /\ old \in Collects
  BY DEF WireTyped
<1>2. old.parts \in Seq(Parts) /\ old.bytes \in Nat /\ f.size \in Nat
  BY ONLY <1>1, f \in Frames DEF Collects, Frames
<1>3. PICK parts :
        /\ parts = Append(old.parts, f.body) /\ parts \in Seq(Parts)
        /\ Len(parts) = Len(old.parts) + 1 /\ Len(old.parts) \in Nat
        /\ \A k \in 1 .. Len(old.parts) : parts[k] = old.parts[k]
        /\ parts[Len(old.parts) + 1] = f.body
  <2>1. Len(old.parts) \in Nat
    BY ONLY <1>2
  <2>2. /\ Append(old.parts, f.body) \in Seq(Parts)
        /\ Len(Append(old.parts, f.body)) = Len(old.parts) + 1
        /\ \A k \in 1 .. Len(old.parts) : Append(old.parts, f.body)[k] = old.parts[k]
        /\ Append(old.parts, f.body)[Len(old.parts) + 1] = f.body
    BY ONLY <1>2, <2>1, f.body \in Parts, AppendProperties
  <2> QED
    BY ONLY <2>1, <2>2
<1>4. PICK bytes : bytes = old.bytes + f.size /\ bytes \in Nat
  BY ONLY <1>2
<1>5. parts[1] \in Parts
  <2>1. 1 \in 1 .. Len(parts)
    BY ONLY <1>3
  <2> QED
    BY ONLY <1>3, <2>1
<1>6. "n" \in DOMAIN parts[1]
  BY ONLY <1>5 DEF Parts
<1>7. NoFragments \in Collects /\ [open |-> TRUE, bytes |-> bytes, parts |-> parts] \in Collects
  BY ONLY <1>3, <1>4 DEF NoFragments, Collects
<1>8. frags \in [Ends -> Collects]
  BY DEF WireTyped
<1>9. <<>> \in Seq(Frames) /\ <<Control("close")>> \in Seq(Frames)
  <2>1. Control("close") \in Frames
    BY DEF Control, Frame, Frames, Ops
  <2> QED
    BY ONLY <2>1
<1>10. CASE (f.op = "text") = old.open \/ bytes > MaxMessage
  <2>1. Carries(e, <<>>, <<Control("close")>>, TRUE) /\ got' = got
        /\ frags' = [frags EXCEPT ![e] = NoFragments]
    BY <1>1, <1>4, <1>10 DEF Collect, Closes, Quietly
  <2>2. /\ net' \in [Ends -> Seq(Frames)] /\ over' \in [Ends -> BOOLEAN] /\ over'[e]
    BY <1>9, <2>1, CarriesTyped
  <2>3. frags' \in [Ends -> Collects]
    BY ONLY <1>7, <1>8, <2>1
  <2> QED
    BY ONLY <2>1, <2>2, <2>3
<1>11. CASE ~((f.op = "text") = old.open \/ bytes > MaxMessage) /\ ~f.final
  <2>1. Carries(e, behind, <<>>, FALSE) /\ got' = got
        /\ frags' = [frags EXCEPT ![e] = [open |-> TRUE, bytes |-> bytes, parts |-> parts]]
    BY <1>1, <1>3, <1>4, <1>11 DEF Collect, Quietly
  <2>2. /\ net' \in [Ends -> Seq(Frames)] /\ over' \in [Ends -> BOOLEAN]
        /\ ~over'[e] => ~over[e] /\ net'[e] = behind
    BY <1>9, <2>1, CarriesTyped
  <2>3. frags' \in [Ends -> Collects] /\ frags'[e].open /\ frags'[e].parts = parts
    BY ONLY <1>7, <1>8, <2>1, e \in Ends
  <2> QED
    BY ONLY <1>1, <1>3, <1>11, <2>1, <2>2, <2>3
<1>12. CASE ~((f.op = "text") = old.open \/ bytes > MaxMessage) /\ f.final
  <2>1. OnMessage(e, behind, parts) /\ frags' = [frags EXCEPT ![e] = NoFragments]
    BY <1>1, <1>3, <1>4, <1>12 DEF Collect
  <2>2. Carries(e, behind, <<>>, FALSE) /\ got' = Append(got, parts)
    BY ONLY <1>6, <2>1 DEF OnMessage
  <2>3. /\ net' \in [Ends -> Seq(Frames)] /\ over' \in [Ends -> BOOLEAN]
        /\ ~over'[e] /\ net'[e] = behind
    BY <1>9, <2>2, CarriesTyped
  <2>4. frags' \in [Ends -> Collects] /\ frags'[e] = NoFragments
    BY ONLY <1>7, <1>8, <2>1, e \in Ends
  <2>5. got' = Append(got, Append(frags[e].parts, f.body)) /\ f.final
    BY ONLY <1>1, <1>3, <1>12, <2>2
  <2> QED
    BY ONLY <2>3, <2>4, <2>5, ~over[e]
<1> QED
  BY ONLY <1>10, <1>11, <1>12

(* What is collected and then whole is what was said.                      *)
LEMMA WholeIsSaid ==
  ASSUME WireTyped, SaidWell, GotWhole, NEW e \in Ends, Collected(e),
         NEW part \in Parts,
         Len(got) < Len(said), Len(frags[e].parts) < Len(said[Len(got) + 1]),
         part = said[Len(got) + 1][Len(frags[e].parts) + 1], part.last
  PROVE  Append(frags[e].parts, part) = said[Len(got) + 1]
<1>1. PICK parts : parts = frags[e].parts /\ parts \in Seq(Parts) /\ Len(parts) \in Nat
  <2>1. frags[e].parts \in Seq(Parts)
    BY DEF WireTyped, Collects
  <2> QED
    BY ONLY <2>1
<1>2. Len(got) \in Nat /\ Len(said) \in Nat /\ said \in Seq(Seq(Parts))
  BY DEF WireTyped, Messages
<1>3. PICK m : m = Len(got) + 1 /\ m \in 1 .. Len(said)
  BY ONLY <1>2, Len(got) < Len(said)
<1>4. PICK line : line = said[m] /\ line \in Seq(Parts) /\ Len(line) \in Nat
  <2>1. said[m] \in Seq(Parts)
    BY ONLY <1>2, <1>3
  <2> QED
    BY ONLY <2>1
<1>5. \A j \in 1 .. Len(line) - 1 : ~line[j].last
  BY <1>3, <1>4 DEF SaidWell
<1>6. Len(parts) < Len(line) /\ part = line[Len(parts) + 1]
  BY <1>1, <1>3, <1>4
<1>7. Len(line) = Len(parts) + 1
  <2>1. ASSUME Len(line) # Len(parts) + 1
        PROVE  FALSE
    <3>1. Len(parts) + 1 \in 1 .. Len(line) - 1
      BY ONLY <1>1, <1>4, <1>6, <2>1
    <3> QED
      BY ONLY <1>5, <1>6, <3>1, part.last
  <2> QED
    BY <2>1
<1>8. \A k \in 1 .. Len(parts) : parts[k] = line[k]
  BY <1>1, <1>3, <1>4 DEF Collected
<1>9. /\ Append(parts, part) \in Seq(Parts) /\ Len(Append(parts, part)) = Len(parts) + 1
      /\ \A k \in 1 .. Len(parts) : Append(parts, part)[k] = parts[k]
      /\ Append(parts, part)[Len(parts) + 1] = part
  BY ONLY <1>1, part \in Parts, AppendProperties
<1>10. \A k \in 1 .. Len(line) : Append(parts, part)[k] = line[k]
  BY ONLY <1>1, <1>6, <1>7, <1>8, <1>9
<1>11. Append(parts, part) = line
  BY ONLY <1>4, <1>7, <1>9, <1>10, SeqEqual
<1> QED
  BY ONLY <1>1, <1>3, <1>4, <1>11

LEMMA DrainStep ==
  ASSUME NEW e \in Ends, WireInv(e), Drain(e)
  PROVE  WireInv(e)'
<1>1. WireTyped /\ SaidWell /\ GotWhole /\ ~over[e] /\ Collected(e)
  BY DEF WireInv, Drain, Draining
<1>2. PICK places \in [1 .. Len(net[e]) + 1 -> Places] : InOrder(e, places)
  BY <1>1 DEF WireInv
<1>3. net[e] \in Seq(Frames) /\ net[e] # <<>> /\ said' = said
  BY <1>1 DEF WireTyped, Drain, Draining
<1>4. PICK f : f = Head(net[e]) /\ f \in Frames /\ f = net[e][1]
  BY ONLY <1>3
<1>5. PICK behind : behind = Tail(net[e]) /\ behind \in Seq(Frames)
  <2>1. Tail(net[e]) \in Seq(Frames)
    BY ONLY <1>3, HeadTailProperties
  <2> QED
    BY ONLY <2>1
<1>6. Len(net[e]) \in Nat /\ 1 \in 1 .. Len(net[e])
  BY ONLY <1>3
<1>7. PICK here : here = places[1] /\ here \in Places /\ here = HeardOf(e)
  BY <1>2, <1>6 DEF InOrder
<1>8. PICK then : then = places[2] /\ then \in Places /\ Carried(f, here, then)
  <2>1. Carried(net[e][1], places[1], places[1 + 1]) /\ 1 + 1 = 2
    BY <1>2, <1>6 DEF InOrder
  <2>2. places[2] \in Places
    BY ONLY <1>2, <1>6
  <2> QED
    BY ONLY <1>4, <1>7, <2>1, <2>2
<1>9. NoFragments \in Collects /\ frags \in [Ends -> Collects]
  BY <1>1 DEF NoFragments, Collects, WireTyped
<1>10. SaidWell'
  BY <1>1, <1>3 DEF SaidWell
<1>11. <<>> \in Seq(Frames) /\ <<Control("close")>> \in Seq(Frames) /\ <<Control("pong")>> \in Seq(Frames)
  <2>1. Control("close") \in Frames /\ Control("pong") \in Frames
    BY DEF Control, Frame, Frames, Ops
  <2> QED
    BY ONLY <2>1
<1>12. \/ /\ Refused(e, f) \/ f.op \in {"binary", "other"}
          /\ Closes(e) /\ frags' = [frags EXCEPT ![e] = NoFragments] /\ got' = got
       \/ /\ ~Refused(e, f) /\ IsControl(f) /\ f.op = "close"
          /\ Carries(e, <<>>, <<>>, TRUE) /\ got' = got
          /\ frags' = [frags EXCEPT ![e] = IF over'[e] THEN NoFragments ELSE @]
       \/ /\ ~Refused(e, f) /\ IsControl(f) /\ f.op # "close" /\ got' = got
          /\ \E out \in Seq(Frames) : Carries(e, behind, out, FALSE)
          /\ frags' = [frags EXCEPT ![e] = IF over'[e] THEN NoFragments ELSE @]
       \/ /\ ~Refused(e, f) /\ f.op \notin {"binary", "other"} /\ ~IsControl(f)
          /\ Collect(e, f, behind)
  BY <1>4, <1>5, <1>11 DEF Drain, Quietly
<1>13. ASSUME net' \in [Ends -> Seq(Frames)], over' \in [Ends -> BOOLEAN],
              frags' \in [Ends -> Collects], over'[e], got' = got
       PROVE  WireInv(e)'
  <2>1. GotWhole'
    BY <1>1, <1>3, <1>13 DEF GotWhole
  <2>2. WireTyped'
    BY <1>1, <1>3, <1>13 DEF WireTyped
  <2> QED
    BY <1>10, <1>13, <2>1, <2>2 DEF WireInv
<1>14. CASE /\ Refused(e, f) \/ f.op \in {"binary", "other"}
            /\ Closes(e) /\ frags' = [frags EXCEPT ![e] = NoFragments] /\ got' = got
  <2>1. net' \in [Ends -> Seq(Frames)] /\ over' \in [Ends -> BOOLEAN] /\ over'[e]
    BY <1>1, <1>11, <1>14, CarriesTyped DEF Closes
  <2>2. frags' \in [Ends -> Collects]
    BY ONLY <1>9, <1>14
  <2> QED
    BY ONLY <1>13, <1>14, <2>1, <2>2
<1>15. CASE /\ Carries(e, <<>>, <<>>, TRUE) /\ got' = got
            /\ frags' = [frags EXCEPT ![e] = IF over'[e] THEN NoFragments ELSE @]
  <2>1. net' \in [Ends -> Seq(Frames)] /\ over' \in [Ends -> BOOLEAN] /\ over'[e]
    BY <1>1, <1>11, <1>15, CarriesTyped
  <2>2. frags' \in [Ends -> Collects]
    BY ONLY <1>9, <1>15
  <2> QED
    BY ONLY <1>13, <1>15, <2>1, <2>2
<1>16. CASE /\ IsControl(f) /\ got' = got
            /\ \E out \in Seq(Frames) : Carries(e, behind, out, FALSE)
            /\ frags' = [frags EXCEPT ![e] = IF over'[e] THEN NoFragments ELSE @]
  <2>1. /\ net' \in [Ends -> Seq(Frames)] /\ over' \in [Ends -> BOOLEAN]
        /\ ~over'[e] => ~over[e] /\ net'[e] = behind
    BY <1>1, <1>5, <1>16, CarriesTyped
  <2>2. frags' \in [Ends -> Collects]
    BY ONLY <1>9, <1>16
  <2>3. CASE over'[e]
    BY ONLY <1>13, <1>16, <2>1, <2>2, <2>3
  <2>4. CASE ~over'[e]
    <3>1. frags' = frags /\ net'[e] = Tail(net[e])
      BY ONLY <1>5, <1>9, <1>16, <2>1, <2>4
    <3>2. WireTyped'
      BY <1>1, <1>3, <1>16, <2>1, <2>2 DEF WireTyped
    <3>3. ~Spoken(f)
      BY ONLY <1>16 DEF IsControl, Spoken
    <3>4. HeardOf(e)' = places[2]
      <4>1. then = here
        BY <1>8, <3>3 DEF Carried
      <4>2. HeardOf(e)' = HeardOf(e)
        BY <1>16, <3>1 DEF HeardOf
      <4> QED
        BY ONLY <1>7, <1>8, <4>1, <4>2
    <3>5. GotWhole' /\ Collected(e)'
      BY <1>1, <1>3, <1>16, <3>1 DEF GotWhole, Collected
    <3>6. \E later \in [1 .. Len(net'[e]) + 1 -> Places] : InOrder(e, later)'
      BY <1>1, <1>2, <1>3, <3>1, <3>2, <3>4, OneIsRead
    <3> QED
      BY ONLY <1>10, <3>2, <3>5, <3>6 DEF WireInv
  <2> QED
    BY ONLY <2>3, <2>4
<1>17. CASE /\ ~Refused(e, f) /\ f.op \notin {"binary", "other"} /\ ~IsControl(f)
            /\ Collect(e, f, behind)
  <2>1. Spoken(f)
    BY ONLY <1>4, <1>17 DEF Frames, Ops, IsControl, Refused, Spoken
  <2>2. /\ here.message = Len(got) /\ here.part = Len(frags[e].parts)
        /\ Len(got) \in Nat /\ Len(said) \in Nat /\ Len(frags[e].parts) \in Nat
        /\ said \in Seq(Seq(Parts)) /\ got \in Seq(Seq(Parts)) /\ frags[e].parts \in Seq(Parts)
    BY <1>1, <1>7 DEF HeardOf, Place, WireTyped, Messages, Collects
  <2>3. /\ Len(got) < Len(said) /\ Len(frags[e].parts) < Len(said[Len(got) + 1])
        /\ f.body = said[Len(got) + 1][Len(frags[e].parts) + 1] /\ f.final = f.body.last
        /\ then = Past(here, f.body)
    BY <1>8, <2>1, <2>2 DEF Carried
  <2>4. Len(got) + 1 \in 1 .. Len(said) /\ said[Len(got) + 1] \in Seq(Parts)
    BY ONLY <2>2, <2>3
  <2>5. f.body \in Parts
    <3>1. Len(frags[e].parts) + 1 \in 1 .. Len(said[Len(got) + 1])
      BY ONLY <2>2, <2>3, <2>4
    <3> QED
      BY ONLY <2>3, <2>4, <3>1
  <2>6. PICK parts : parts = Append(frags[e].parts, f.body)
    OBVIOUS
  <2>7. /\ net' \in [Ends -> Seq(Frames)] /\ over' \in [Ends -> BOOLEAN]
        /\ frags' \in [Ends -> Collects]
        /\ ~over'[e] => ~over[e] /\ net'[e] = behind
        /\ \/ over'[e] /\ got' = got
           \/ ~f.final /\ got' = got /\ frags'[e].open /\ frags'[e].parts = parts
           \/ ~over'[e] /\ f.final /\ got' = Append(got, parts) /\ frags'[e] = NoFragments
    BY <1>1, <1>4, <1>5, <1>17, <2>1, <2>5, <2>6, CollectReads
  <2>8. /\ parts \in Seq(Parts) /\ Len(parts) = Len(frags[e].parts) + 1
        /\ \A k \in 1 .. Len(frags[e].parts) : parts[k] = frags[e].parts[k]
        /\ parts[Len(frags[e].parts) + 1] = f.body
    BY ONLY <2>2, <2>5, <2>6, AppendProperties
  <2>12. PICK count : count = Len(frags[e].parts) /\ count \in Nat /\ Len(parts) = count + 1
    BY ONLY <2>2, <2>8
  <2>9. CASE over'[e] /\ got' = got
    BY ONLY <1>13, <2>7, <2>9
  <2>10. CASE ~over'[e] /\ ~f.final /\ got' = got /\ frags'[e].open /\ frags'[e].parts = parts
    <3>1. net'[e] = Tail(net[e])
      BY ONLY <1>5, <2>7, <2>10
    <3>2. WireTyped'
      BY <1>1, <1>3, <2>7, <2>10 DEF WireTyped
    <3>3. HeardOf(e)' = places[2]
      <4>1. then = Place(Len(got), Len(frags[e].parts) + 1)
        BY ONLY <2>2, <2>3, <2>10 DEF Past
      <4>2. HeardOf(e)' = Place(Len(got), Len(parts))
        BY <2>10 DEF HeardOf
      <4> QED
        BY ONLY <1>8, <2>8, <4>1, <4>2
    <3>4. GotWhole'
      BY <1>1, <1>3, <2>10 DEF GotWhole
    <3>5. Collected(e)'
      <4>1. \A k \in 1 .. Len(parts) : parts[k] = said[Len(got) + 1][k] /\ ~parts[k].last
        <5> SUFFICES ASSUME NEW k \in 1 .. Len(parts)
                     PROVE  parts[k] = said[Len(got) + 1][k] /\ ~parts[k].last
          OBVIOUS
        <5>1. CASE k \in 1 .. Len(frags[e].parts)
          <6>1. frags[e].parts[k] = said[Len(got) + 1][k] /\ ~frags[e].parts[k].last
            BY <1>1, <5>1 DEF Collected
          <6> QED
            BY ONLY <2>8, <5>1, <6>1
        <5>2. CASE k = Len(frags[e].parts) + 1
          BY ONLY <2>3, <2>8, <2>10, <5>2
        <5>3. k \in 1 .. count \/ k = count + 1
          BY ONLY <2>12, k \in 1 .. Len(parts)
        <5> QED
          BY ONLY <2>12, <5>1, <5>2, <5>3
      <4>2. Len(parts) > 0 /\ Len(parts) <= Len(said[Len(got) + 1])
        <5>1. PICK most : most = Len(said[Len(got) + 1]) /\ most \in Nat
          BY ONLY <2>4
        <5>2. count < most
          BY ONLY <2>3, <2>12, <5>1
        <5>3. count + 1 > 0 /\ count + 1 <= most
          BY ONLY <2>12, <5>1, <5>2
        <5> QED
          BY ONLY <2>12, <5>1, <5>3
      <4> QED
        BY ONLY <1>3, <2>3, <2>10, <4>1, <4>2 DEF Collected
    <3>6. \E later \in [1 .. Len(net'[e]) + 1 -> Places] : InOrder(e, later)'
      BY <1>1, <1>2, <1>3, <3>1, <3>2, <3>3, OneIsRead
    <3> QED
      BY ONLY <1>10, <3>2, <3>4, <3>5, <3>6 DEF WireInv
  <2>11. CASE ~over'[e] /\ f.final /\ got' = Append(got, parts) /\ frags'[e] = NoFragments
    <3>1. net'[e] = Tail(net[e])
      BY ONLY <1>5, <2>7, <2>11
    <3>2. parts = said[Len(got) + 1]
      BY <1>1, <2>3, <2>5, <2>6, <2>11, WholeIsSaid
    <3>3. /\ got' \in Seq(Seq(Parts)) /\ Len(got') = Len(got) + 1
          /\ \A m \in 1 .. Len(got) : got'[m] = got[m]
          /\ got'[Len(got) + 1] = parts
      BY ONLY <2>2, <2>8, <2>11, AppendProperties
    <3>4. WireTyped'
      BY <1>1, <1>3, <2>7, <3>3 DEF WireTyped, Messages
    <3>5. HeardOf(e)' = places[2]
      <4>1. then = Place(Len(got) + 1, 0)
        BY ONLY <2>2, <2>3, <2>11 DEF Past
      <4>2. HeardOf(e)' = Place(Len(got'), 0)
        <5>1. Len(NoFragments.parts) = 0
          BY DEF NoFragments
        <5> QED
          BY <2>11, <5>1 DEF HeardOf
      <4> QED
        BY ONLY <1>8, <3>3, <4>1, <4>2
    <3>6. GotWhole'
      <4>1. /\ Len(got) <= Len(said)
            /\ \A m \in 1 .. Len(got) : got[m] = said[m] /\ said[m][Len(said[m])].last
        BY <1>1 DEF GotWhole
      <4>2. Len(said[Len(got) + 1]) = Len(frags[e].parts) + 1
        BY ONLY <2>8, <3>2
      <4>3. said[Len(got) + 1][Len(said[Len(got) + 1])].last
        BY ONLY <2>3, <2>11, <4>2
      <4>4. \A m \in 1 .. Len(got') : got'[m] = said[m] /\ said[m][Len(said[m])].last
        <5> SUFFICES ASSUME NEW m \in 1 .. Len(got')
                     PROVE  got'[m] = said[m] /\ said[m][Len(said[m])].last
          OBVIOUS
        <5>1. CASE m \in 1 .. Len(got)
          BY ONLY <3>3, <4>1, <5>1
        <5>2. CASE m = Len(got) + 1
          BY ONLY <3>2, <3>3, <4>3, <5>2
        <5> QED
          BY ONLY <2>2, <3>3, <5>1, <5>2, m \in 1 .. Len(got')
      <4>5. Len(got') <= Len(said)
        BY ONLY <2>2, <2>3, <3>3
      <4> QED
        BY ONLY <1>3, <4>4, <4>5 DEF GotWhole
    <3>7. Collected(e)'
      <4>1. Len(NoFragments.parts) = 0 /\ ~NoFragments.open
        BY DEF NoFragments
      <4> QED
        BY ONLY <2>11, <4>1 DEF Collected
    <3>8. \E later \in [1 .. Len(net'[e]) + 1 -> Places] : InOrder(e, later)'
      BY <1>1, <1>2, <1>3, <3>1, <3>4, <3>5, OneIsRead
    <3> QED
      BY ONLY <1>10, <3>4, <3>6, <3>7, <3>8 DEF WireInv
  <2> QED
    BY ONLY <2>7, <2>9, <2>10, <2>11
<1> QED
  BY ONLY <1>12, <1>14, <1>15, <1>16, <1>17

(* What an end makes of what it is sent is the messages that were sent,    *)
(* each of them whole and in their order (the decoder of                   *)
(* src/src/team/websocket.ts and the one of src/src/client/websocket.ts),  *)
(* wherever the stream is cut into chunks and whatever ends it.            *)
THEOREM MessagesAreWhole == \A e \in Ends : FramesSpec(e) => []MessagesArriveWhole
<1> SUFFICES ASSUME NEW e \in Ends
             PROVE  FramesSpec(e) => []MessagesArriveWhole
  OBVIOUS
<1>1. WireInit => WireInv(e)
  BY WireStart
<1>2. WireInv(e) /\ [Foreigners(e, Nat)]_wireVars => WireInv(e)'
  <2> SUFFICES ASSUME WireInv(e), [Foreigners(e, Nat)]_wireVars
               PROVE  WireInv(e)'
    OBVIOUS
  <2>1. CASE \E size \in Nat, last \in BOOLEAN : SaysPart(e, size, last)
    BY ONLY <2>1, e \in Ends, WireInv(e), SaysPartStep
  <2>2. CASE \E op \in {"ping", "pong", "close", "binary", "other", "broken"} : SaysElse(e, op)
    <3>1. PICK op \in Ops \ {"text", "continuation"} : SaysElse(e, op)
      BY ONLY <2>2 DEF Ops
    <3> QED
      BY ONLY <3>1, e \in Ends, WireInv(e), SaysElseStep
  <2>3. CASE Drain(e)
    BY ONLY <2>3, e \in Ends, WireInv(e), DrainStep
  <2>4. CASE UNCHANGED <<net, frags, over, said, got>>
    <3>1. net' \in [Ends -> Seq(Frames)]
      BY <2>4 DEF WireInv, WireTyped
    <3> QED
      BY ONLY <2>4, <3>1, e \in Ends, WireInv(e), ReadsNothing
  <2>5. CASE net' = [net EXCEPT ![Other(e)] = <<>>] /\ UNCHANGED <<frags, over, said, got>>
    <3>1. net \in [Ends -> Seq(Frames)] /\ Other(e) # e /\ Other(e) \in Ends
      BY DEF WireInv, WireTyped, Ends, Other
    <3>2. net'[e] = net[e] /\ net' \in [Ends -> Seq(Frames)]
      BY ONLY <2>5, <3>1, e \in Ends
    <3> QED
      BY ONLY <2>5, <3>2, e \in Ends, WireInv(e), ReadsNothing
  <2>6. \/ \E size \in Nat, last \in BOOLEAN : SaysPart(e, size, last)
        \/ \E op \in {"ping", "pong", "close", "binary", "other", "broken"} : SaysElse(e, op)
        \/ Drain(e)
        \/ UNCHANGED <<net, frags, over, said, got>>
        \/ net' = [net EXCEPT ![Other(e)] = <<>>] /\ UNCHANGED <<frags, over, said, got>>
    BY DEF Foreigners, wireVars, streamVars, foreignVars
  <2> QED
    BY ONLY <2>1, <2>2, <2>3, <2>4, <2>5, <2>6
<1>3. WireInv(e) => MessagesArriveWhole
  <2> SUFFICES ASSUME WireInv(e)
               PROVE  MessagesArriveWhole
    OBVIOUS
  <2>1. /\ got \in Seq(Seq(Parts)) /\ said \in Seq(Seq(Parts))
        /\ Len(got) <= Len(said) /\ \A m \in 1 .. Len(got) : got[m] = said[m]
    BY DEF WireInv, WireTyped, Messages, GotWhole
  <2>2. PICK k : k = Len(got) /\ k \in Nat /\ k <= Len(said) /\ Len(said) \in Nat
    BY ONLY <2>1
  <2>3. \A i \in 1 .. k : said[i] \in Seq(Parts)
    BY ONLY <2>1, <2>2
  <2>4. /\ SubSeq(said, 1, k) \in Seq(Seq(Parts))
        /\ Len(SubSeq(said, 1, k)) = IF 1 <= k THEN k - 1 + 1 ELSE 0
        /\ \A i \in 1 .. k - 1 + 1 : SubSeq(said, 1, k)[i] = said[1 + i - 1]
    <3>1. 1 \in Int /\ k \in Int
      BY ONLY <2>2
    <3> QED
      BY ONLY <2>3, <3>1, SubSeqProperties
  <2>5. k - 1 + 1 = k /\ (1 <= k \/ k = 0) /\ \A i \in 1 .. k : 1 + i - 1 = i
    BY ONLY <2>2
  <2>6. Len(SubSeq(said, 1, k)) = k
    BY ONLY <2>4, <2>5
  <2>7. \A i \in 1 .. k : SubSeq(said, 1, k)[i] = got[i]
    BY ONLY <2>1, <2>2, <2>4, <2>5
  <2>8. SubSeq(said, 1, k) = got
    BY ONLY <2>1, <2>2, <2>4, <2>6, <2>7, SeqEqual
  <2> QED
    BY ONLY <2>2, <2>8 DEF MessagesArriveWhole, IsPrefix
<1> QED
  BY <1>1, <1>2, <1>3, PTL DEF FramesSpec

-----------------------------------------------------------------------------
(* What a server says of itself.                                           *)

Panel ==
  [state : {"idle", "waits", "told", "failed"}, asked : Nat \cup {Never}, at : Nat \cup {Never},
   of : 0..MaxGathers]
Kept == [answer : Nat \cup {Never}, inFlight : 0..MaxGathers]

(* The gather in flight is the only one there is, so whoever waits, waits  *)
(* on it, and began to no later than now: what it ends with is as fresh as *)
(* they asked for.  What is kept is of the past.                           *)
StatusInv ==
  /\ moment \in Nat /\ kept \in Kept /\ begun \in 0..MaxGathers
  /\ gathers \in [1..MaxGathers -> {"none"} \cup Stages] /\ panels \in [Panels -> Panel]
  /\ kept.answer <= moment
  /\ \A g \in 1..MaxGathers : gathers[g] # "none" <=> g = kept.inFlight
  /\ \A p \in Panels :
       /\ panels[p].asked <= moment
       /\ panels[p].state = "waits" => panels[p].of = kept.inFlight /\ kept.inFlight # 0
       /\ panels[p].state = "told" => panels[p].at + Freshness > panels[p].asked

LEMMA StatusStart == StatusInit => StatusInv
BY StatusAssumption
   DEF StatusInit, StatusInv, Panel, Kept, Unasked, Never, Stages

LEMMA SettleStep ==
  ASSUME StatusInv, NEW g \in 1..MaxGathers, gathers[g] = "keys",
         NEW state \in {"told", "failed"}, NEW time \in {moment, Never}, Settle(g, state, time),
         state = "told" => time = moment,
         kept' \in Kept, kept'.inFlight = 0, kept'.answer <= moment
  PROVE  StatusInv'
<1> USE DEF StatusInv, Never
<1>1. kept.inFlight = g
  BY StatusAssumption
<1>2. /\ UNCHANGED <<moment, begun>>
      /\ gathers' = [gathers EXCEPT ![g] = "none"]
      /\ panels' = [p \in Panels |-> IF panels[p].state = "waits" /\ panels[p].of = g
                                     THEN [panels[p] EXCEPT !.state = state, !.at = time]
                                     ELSE panels[p]]
  BY DEF Settle
<1>3. ASSUME NEW p \in Panels
      PROVE  /\ panels'[p] \in Panel /\ panels'[p].asked <= moment
             /\ panels'[p].state # "waits"
             /\ panels'[p].state = "told" => panels'[p].at + Freshness > panels'[p].asked
  <2>1. CASE panels[p].state = "waits"
    <3>1. panels'[p] = [panels[p] EXCEPT !.state = state, !.at = time]
      BY <1>1, <1>2, <2>1
    <3>2. panels[p] \in Panel /\ panels[p].asked <= moment
      OBVIOUS
    <3>5. time \in Nat \cup {Never} /\ state \in {"idle", "waits", "told", "failed"}
      OBVIOUS
    <3>3. /\ panels'[p] \in Panel /\ panels'[p].asked = panels[p].asked
          /\ panels'[p].state = state /\ panels'[p].at = time
      BY <3>1, <3>2, <3>5 DEF Panel
    <3>4. moment + Freshness > panels[p].asked
      BY <3>2, StatusAssumption DEF Panel
    <3> QED
      BY <3>2, <3>3, <3>4
  <2>2. CASE panels[p].state # "waits"
    BY <1>2, <2>2
  <2> QED
    BY <2>1, <2>2
<1>4. panels' \in [Panels -> Panel]
  BY <1>2, <1>3
<1>5. \A h \in 1..MaxGathers : gathers'[h] = "none"
  BY <1>1, <1>2
<1>6. gathers' \in [1..MaxGathers -> {"none"} \cup Stages]
  BY <1>2
<1>7. \A h \in 1..MaxGathers : h # 0
  OBVIOUS
<1>8. \A h \in 1..MaxGathers : gathers'[h] # "none" <=> h = kept'.inFlight
  BY <1>5, <1>7
<1>9. moment' \in Nat /\ begun' \in 0..MaxGathers /\ moment' = moment
  BY <1>2
<1>10. \A p \in Panels :
         /\ panels'[p].asked <= moment'
         /\ panels'[p].state # "waits"
         /\ panels'[p].state = "told" => panels'[p].at + Freshness > panels'[p].asked
  BY <1>3, <1>9
<1> QED
  BY <1>4, <1>6, <1>8, <1>9, <1>10

LEMMA ServerStatusStep ==
  ASSUME StatusInv, NEW p \in Panels, ServerStatus(p)
  PROVE  StatusInv'
<1> USE StatusAssumption DEF StatusInv, Never
<1>0. UNCHANGED moment /\ panels[p].state # "waits"
  BY DEF ServerStatus
<1> DEFINE Becomes(state, time, gather) ==
      panels' = [panels EXCEPT ![p] = [state |-> state, asked |-> moment, at |-> time, of |-> gather]]
<1>1. ASSUME NEW state \in {"told", "waits"}, NEW time \in Nat \cup {Never},
             NEW gather \in 0..MaxGathers, Becomes(state, time, gather)
      PROVE  /\ panels' \in [Panels -> Panel]
             /\ panels'[p].state = state /\ panels'[p].at = time /\ panels'[p].of = gather
             /\ panels'[p].asked = moment
             /\ \A q \in Panels : q # p => panels'[q] = panels[q]
  BY <1>1 DEF Panel
<1>2. CASE /\ Fresh /\ Becomes("told", kept.answer, 0) /\ UNCHANGED <<kept, gathers, begun>>
  <2>1. kept.answer \in Nat /\ kept.answer + Freshness > moment
    BY <1>2 DEF Fresh, Kept
  <2> HIDE DEF Becomes
  <2> QED
    BY <1>0, <1>1, <1>2, <2>1
<1>3. CASE /\ kept.inFlight # 0 /\ Becomes("waits", Never, kept.inFlight)
           /\ UNCHANGED <<kept, gathers, begun>>
  <2>1. kept.inFlight \in 0..MaxGathers
    BY DEF Kept
  <2> HIDE DEF Becomes
  <2> QED
    BY <1>0, <1>1, <1>3, <2>1
<1>4. CASE /\ kept.inFlight = 0 /\ begun < MaxGathers /\ begun' = begun + 1
           /\ gathers' = [gathers EXCEPT ![begun'] = "health"]
           /\ kept' = [kept EXCEPT !.inFlight = begun'] /\ Becomes("waits", Never, begun')
  <2>1. PICK g \in 1..MaxGathers : g = begun + 1
    BY <1>4
  <2>2. kept' \in Kept /\ kept'.answer = kept.answer /\ kept'.inFlight = g
    BY <1>4, <2>1 DEF Kept
  <2>3. /\ gathers' \in [1..MaxGathers -> {"none"} \cup Stages]
        /\ \A h \in 1..MaxGathers : gathers'[h] # "none" <=> h = g
    BY <1>4, <2>1 DEF Stages
  <2>4. Becomes("waits", Never, g)
    BY <1>4, <2>1
  <2>5. \A q \in Panels : panels[q].state # "waits"
    BY <1>4
  <2>6. -1 \in Nat \cup {Never} /\ g \in 0..MaxGathers /\ g # 0
    OBVIOUS
  <2> HIDE DEF Becomes
  <2>7. /\ panels' \in [Panels -> Panel]
        /\ panels'[p].state = "waits" /\ panels'[p].of = g /\ panels'[p].asked = moment
        /\ \A q \in Panels : q # p => panels'[q] = panels[q]
    BY <1>1, <2>4, <2>6
  <2>8. \A q \in Panels :
         /\ panels'[q].asked <= moment
         /\ panels'[q].state = "waits" => panels'[q].of = g
         /\ panels'[q].state = "told" => panels'[q].at + Freshness > panels'[q].asked
    BY <2>5, <2>7
  <2>9. begun' \in 0..MaxGathers
    BY <1>4
  <2> QED
    BY <1>0, <2>2, <2>3, <2>6, <2>7, <2>8, <2>9
<1> QED
  BY <1>2, <1>3, <1>4 DEF ServerStatus, Tell

LEMMA StatusStep == StatusInv /\ [StatusNext]_statusVars => StatusInv'
<1> SUFFICES ASSUME StatusInv, [StatusNext]_statusVars
             PROVE  StatusInv'
  OBVIOUS
<1> USE DEF StatusInv
<1>1. CASE UNCHANGED statusVars
  BY <1>1 DEF statusVars
<1>2. ASSUME NEW p \in Panels, ServerStatus(p)
      PROVE  StatusInv'
  BY <1>2, ServerStatusStep
<1>3. ASSUME NEW g \in 1..MaxGathers, GathersOn(g)
      PROVE  StatusInv'
  BY <1>3 DEF GathersOn, Stages
<1>4. ASSUME NEW g \in 1..MaxGathers, GatherEnds(g)
      PROVE  StatusInv'
  <2>1. kept' \in Kept /\ kept'.inFlight = 0 /\ kept'.answer = moment
    BY <1>4, StatusAssumption DEF GatherEnds, Kept
  <2> QED
    BY <1>4, <2>1, SettleStep DEF GatherEnds
<1>5. ASSUME NEW g \in 1..MaxGathers, GatherFails(g)
      PROVE  StatusInv'
  <2>1. kept' \in Kept /\ kept'.inFlight = 0 /\ kept'.answer = kept.answer
    BY <1>5, StatusAssumption DEF GatherFails, Kept
  <2> QED
    BY <1>5, <2>1, SettleStep DEF GatherFails
<1>6. CASE Passes
  <2>1. moment' = moment + 1 /\ UNCHANGED <<kept, gathers, begun, panels>>
    BY <1>6 DEF Passes
  <2>2. \A p \in Panels : panels[p].asked \in Nat \cup {Never}
    BY DEF Panel
  <2> QED
    BY <2>1, <2>2 DEF Kept, Never
<1> QED
  BY <1>1, <1>2, <1>3, <1>4, <1>5, <1>6 DEF StatusNext

(* However many ask and however often a gather fails: the store is walked  *)
(* once at a time, everybody who waits is waited for by a gather, and what *)
(* they are told is as fresh as it is said to be.                          *)
THEOREM StatusStaysShared == StatusSpec => []StatusIsShared
<1>1. StatusInv => StatusIsShared
  <2> SUFFICES ASSUME StatusInv
               PROVE  StatusIsShared
    OBVIOUS
  <2> USE DEF StatusInv
  <2> DEFINE walking == {g \in 1..MaxGathers : gathers[g] # "none"}
  <2>1. Cardinality(walking) <= 1
    <3>1. walking = {} \/ walking = {kept.inFlight}
      OBVIOUS
    <3> HIDE DEF walking
    <3>2. CASE walking = {}
      BY <3>2, FS_EmptySet
    <3>3. CASE walking = {kept.inFlight}
      <4>1. PICK g : walking = {g}
        BY <3>3
      <4>2. Cardinality({g}) = 1
        BY FS_Singleton, Zenon
      <4> QED
        BY <4>1, <4>2
    <3> QED
      BY <3>1, <3>2, <3>3
  <2>2. \A p \in Panels : panels[p].state = "waits" => gathers[panels[p].of] # "none"
    BY StatusAssumption DEF Kept
  <2> QED
    BY <2>1, <2>2 DEF StatusIsShared
<1> QED
  BY <1>1, StatusStart, StatusStep, PTL DEF StatusSpec

=============================================================================
