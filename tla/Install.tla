------------------------------- MODULE Install -------------------------------
(***************************************************************************)
(* Getting the pinned loreserver onto disk and proving it is that one      *)
(* before it is run (install.ts, download.ts, extract.ts, cache.ts,        *)
(* identify.ts of src/src/loreserver).  Starts of several Team servers of  *)
(* one user share the directory a release is unpacked into; each may have  *)
(* one of its own an older Team left.  Any start may be killed anywhere.   *)
(***************************************************************************)
EXTENDS Naturals

CONSTANTS
  Starts,    \* starts of `up`, each on a storage root of its own
  MaxDamage  \* a bound on the files damaged by something else

ASSUME InstallAssumption == MaxDamage \in Nat

\* What isUnpacked looks for.  "no" is no file, "bad" is not what was pinned.
Files == {"binary", "license", "notices"}
Absent == [f \in Files |-> "no"]
Whole  == [f \in Files |-> "good"]

VARIABLES
  cache,    \* the shared directory, file by file
  stored,   \* the directory under the storage root of each start
  step,     \* where each start is
  staging,  \* what each has in its own temporary directory
  from,     \* the directory whose binary each is going to run
  ran,      \* what each ran at last
  damaged   \* how many files something else has damaged

installVars == <<cache, stored, step, staging, from, ran, damaged>>
disk == <<cache, stored>>

InstallInit ==
  /\ cache \in {Absent, [Whole EXCEPT !["binary"] = "bad"], [Whole EXCEPT !["notices"] = "no"]}
  /\ stored \in [Starts -> {Absent, Whole}]
  /\ step = [s \in Starts |-> "looking"]
  /\ staging = [s \in Starts |-> Absent]
  /\ from = [s \in Starts |-> "cache"]
  /\ ran = [s \in Starts |-> "no"]
  /\ damaged = 0

Moves(s, place) == step' = [step EXCEPT ![s] = place]
IsUnpacked(directory) == \A f \in Files : directory[f] # "no"
At(s) == IF from[s] = "cache" THEN cache ELSE stored[s]

\* ensureInstalled: what an older Team left is used where it lies.
FindsOne(s) ==
  /\ step[s] = "looking"
  /\ \/ /\ IsUnpacked(stored[s])
        /\ from' = [from EXCEPT ![s] = "stored"] /\ Moves(s, "hashing")
     \/ /\ ~IsUnpacked(stored[s]) /\ IsUnpacked(cache)
        /\ from' = [from EXCEPT ![s] = "cache"] /\ Moves(s, "hashing")
     \/ /\ ~IsUnpacked(stored[s]) /\ ~IsUnpacked(cache)
        /\ from' = [from EXCEPT ![s] = "cache"] /\ Moves(s, "fetching")
  /\ UNCHANGED <<disk, staging, ran, damaged>>

\* downloadVerified and extractArchive, into a directory nobody else looks in:
\* bytes that do not hash to the pinned digest are never unpacked.
Fetches(s) ==
  /\ step[s] = "fetching"
  /\ \/ Moves(s, "unpacking") \/ Moves(s, "failed")
  /\ UNCHANGED <<disk, staging, from, ran, damaged>>

Unpacks(s, f) ==
  /\ step[s] = "unpacking" /\ staging[s][f] = "no"
  /\ staging' = [staging EXCEPT ![s][f] = "good"]
  /\ UNCHANGED <<disk, step, from, ran, damaged>>

\* rm: what is there goes, a file at a time, whoever is using it.
Clears(s, f) ==
  /\ step[s] = "unpacking" /\ staging[s] = Whole /\ cache[f] # "no"
  /\ cache' = [cache EXCEPT ![f] = "no"]
  /\ UNCHANGED <<stored, step, staging, from, ran, damaged>>

\* rename: onto nothing.  Another start may have put one there meanwhile.
Renames(s) ==
  /\ step[s] = "unpacking" /\ staging[s] = Whole
  /\ \/ cache = Absent /\ cache' = staging[s] /\ Moves(s, "hashing")
     \/ cache # Absent /\ UNCHANGED cache /\ Moves(s, "failed")
  /\ staging' = [staging EXCEPT ![s] = Absent]
  /\ UNCHANGED <<stored, from, ran, damaged>>

\* Mutation: only what was installed just now is looked at.
VerifiesWhatItFetched(s) ==
  /\ step[s] = "hashing"
  /\ Moves(s, "verified")
  /\ UNCHANGED <<disk, staging, from, ran, damaged>>

\* verifyBinaryDigest, verifyBinaryVersion: on every start.
Verifies(s) ==
  /\ step[s] = "hashing"
  /\ Moves(s, IF At(s)["binary"] = "good" THEN "verified" ELSE "failed")
  /\ UNCHANGED <<disk, staging, from, ran, damaged>>

\* writeInstance and Supervisor: nothing is run that is not there.
Runs(s) ==
  /\ step[s] = "verified"
  /\ ran' = [ran EXCEPT ![s] = At(s)["binary"]]
  /\ Moves(s, IF At(s)["binary"] = "no" THEN "failed" ELSE "over")
  /\ UNCHANGED <<disk, staging, from, damaged>>

\* Killed: what was staged stays where nobody looks, and it is run again.
Killed(s) ==
  /\ step[s] \in {"fetching", "unpacking", "hashing"}
  /\ staging' = [staging EXCEPT ![s] = Absent]
  /\ Moves(s, "looking")
  /\ UNCHANGED <<disk, from, ran, damaged>>

\* Something else writes over a file, between runs.
Damage(f) ==
  /\ damaged < MaxDamage /\ cache[f] = "good"
  /\ \A s \in Starts : step[s] # "verified"
  /\ cache' = [cache EXCEPT ![f] = "bad"]
  /\ damaged' = damaged + 1
  /\ UNCHANGED <<stored, step, staging, from, ran>>

InstallNext ==
  \/ \E s \in Starts :
       \/ FindsOne(s) \/ Fetches(s) \/ Renames(s)
       \/ \E f \in Files : Unpacks(s, f) \/ Clears(s, f)
       \/ Verifies(s) \/ Runs(s) \/ Killed(s)
  \/ \E f \in Files : Damage(f)

-----------------------------------------------------------------------------
(* Properties.                                                             *)

\* What is run as loreserver is the build that was pinned, whatever was found
\* on disk, whoever else is installing it, and wherever earlier starts died.
OnlyThePinnedBuildRuns == \A s \in Starts : ran[s] # "bad"
=============================================================================
