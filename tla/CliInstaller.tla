---- MODULE CliInstaller ----
(***************************************************************************)
(* src/src/codespaces/CodespaceCliInstaller.ts: calls of install and       *)
(* findInstalled, in the processes that share one storage root.  The calls *)
(* of a process are serialized; a lock file keeps the processes apart.  A  *)
(* release is staged, verified, published under a name of its own and then *)
(* named by the manifest.                                                  *)
(*                                                                         *)
(* What a release, an archive or an executable holds is left out: a check  *)
(* of it succeeds or fails.  A directory is known by the call that makes   *)
(* it, a lock by the call that creates it (its device and inode).          *)
(***************************************************************************)
EXTENDS Naturals, FiniteSets

CONSTANTS Calls,
          ProcessOf,       \* Calls -> processes
          Versions,        \* the releases that are asked for
          MaxMisfits       \* bound: aborted calls, failing operations, processes
                           \* that die and lock files that the user removes

ASSUME CliAssumption == "none" \notin Calls

VARIABLES cli,     \* the calls
          root,    \* the storage root
          misfits  \* what went wrong so far

cliVars == <<cli, root, misfits>>

NoCli == "none"
NoCall ==
  [at         |-> "new",
   status     |-> FALSE,   \* findInstalled, not install
   version    |-> NoCli,
   waits      |-> {},      \* the calls it is serialized after
   aborted    |-> FALSE,   \* scope.signal
   identified |-> FALSE,   \* lockIdentity
   previous   |-> NoCli,   \* the directory of the manifest it read
   result     |-> NoCli,   \* the directory it answers with
   activated  |-> FALSE,
   unclean    |-> FALSE,   \* cleanupErrors
   invalid    |-> FALSE]   \* INVALID_INSTALLATION or INTEGRITY_MISMATCH of a read

CliInit ==
  /\ cli = [i \in Calls |-> NoCall]
  /\ root = [lock |-> NoCli, staging |-> {}, dir |-> [i \in Calls |-> "absent"], current |-> NoCli]
  /\ misfits = 0

CliFault == misfits < MaxMisfits /\ misfits' = misfits + 1
CliFine == UNCHANGED misfits

Moves(i, at) == cli' = [cli EXCEPT ![i].at = at]

\* The operation of installRelease fails: its finally block comes next.
Breaks(i) == Moves(i, "unpublish") /\ UNCHANGED root

\* A step ends with an error: it was aborted, or it fails by itself.
Stops(i) == \/ cli[i].aborted /\ CliFine
            \/ CliFault

----------------------------------------------------------------------------
(* install and findInstalled *)

\* Calls that are queued or at work.
Underway == {i \in Calls : cli[i].at \notin {"new", "ended", "dead"}}

\* Mutant: a call waits for those at work, not for those that wait.
PreviousAtWork(i) == {j \in Underway : ~cli[j].status /\ ProcessOf[j] = ProcessOf[i] /\ cli[j].at # "queued"}

\* serialized: the promise of the calls before this one, also of those that
\* themselves still wait.
Previous(i) == {j \in Underway : ~cli[j].status /\ ProcessOf[j] = ProcessOf[i]}

\* assertEnvironment and assertVersion have succeeded.
Install(i, v) ==
  /\ cli[i].at = "new"
  /\ cli' = [cli EXCEPT ![i] = [NoCall EXCEPT !.at = "queued", !.version = v, !.waits = Previous(i)]]
  /\ UNCHANGED <<root, misfits>>

FindInstalled(i) ==
  /\ cli[i].at = "new"
  /\ cli' = [cli EXCEPT ![i] = [NoCall EXCEPT !.at = "previous", !.status = TRUE]]
  /\ UNCHANGED <<root, misfits>>

\* The caller gives up, or the time limit is over; each step asks for it.
Aborts(i) ==
  /\ i \in Underway /\ ~cli[i].aborted /\ CliFault
  /\ cli' = [cli EXCEPT ![i].aborted = TRUE]
  /\ UNCHANGED root

LeavesQueue(i) ==
  /\ cli[i].at = "queued" /\ cli[i].aborted
  /\ Moves(i, "ended") /\ UNCHANGED <<root, misfits>>

Enters(i) ==
  /\ cli[i].at = "queued" /\ ~cli[i].aborted /\ cli[i].waits \cap Underway = {}
  /\ Moves(i, "entered") /\ UNCHANGED <<root, misfits>>

----------------------------------------------------------------------------
(* installRelease *)

\* checkRoot, and the exclusive creation of the lock file.
TakesLock(i) ==
  /\ cli[i].at = "entered"
  /\ IF cli[i].aborted \/ root.lock # NoCli
     THEN Moves(i, "ended") /\ UNCHANGED root   \* INSTALL_IN_PROGRESS
     ELSE Moves(i, "locked") /\ root' = [root EXCEPT !.lock = i]
  /\ UNCHANGED misfits

\* The identity of the lock file is kept, its owner written.
Identifies(i) ==
  /\ cli[i].at = "locked"
  /\ \/ CliFine /\ cli' = [cli EXCEPT ![i].at = "previous", ![i].identified = TRUE]
     \/ CliFault /\ Moves(i, "unpublish")
  /\ UNCHANGED root

\* A status read, or one inside of an installation, ends.
Fails(i, invalid) ==
  cli' = [cli EXCEPT ![i].at = IF cli[i].status THEN "ended" ELSE "unpublish", ![i].invalid = invalid]

\* readSmallFile and parseManifest: the directory the manifest names.
Manifest == root.current

\* readInstalled: the manifest first.
ReadsManifest(i) ==
  /\ cli[i].at = "previous"
  /\ IF cli[i].aborted THEN Fails(i, FALSE)
     ELSE cli' = [cli EXCEPT ![i].previous = Manifest,
                             ![i].at = IF Manifest # NoCli THEN "inspecting"
                                       ELSE IF cli[i].status THEN "ended" ELSE "release"]
  /\ UNCHANGED <<root, misfits>>

\* inspectExecutable: size and hash are those of the manifest.
Inspects(i) ==
  /\ cli[i].at = "inspecting"
  /\ IF cli[i].aborted THEN Fails(i, FALSE)
     ELSE IF root.dir[cli[i].previous] # "whole" THEN Fails(i, TRUE)
     ELSE IF cli[i].status
     THEN cli' = [cli EXCEPT ![i].at = "ended", ![i].result = cli[i].previous]
     ELSE Moves(i, "release")
  /\ UNCHANGED <<root, misfits>>

\* readRelease: what is installed already is the answer.
ReadsRelease(i) ==
  LET p == cli[i].previous IN
  /\ cli[i].at = "release"
  /\ \/ /\ ~cli[i].aborted /\ CliFine
        /\ IF p # NoCli /\ cli[p].version = cli[i].version
           THEN cli' = [cli EXCEPT ![i].at = "unpublish", ![i].result = p]
           ELSE Moves(i, "staging")
     \/ Stops(i) /\ Moves(i, "unpublish")
  /\ UNCHANGED root

Stages(i) ==
  /\ cli[i].at = "staging"
  /\ root' = [root EXCEPT !.staging = @ \cup {i}]
  /\ Moves(i, "download") /\ CliFine

\* withResponse: redirects are followed by hand, each to an approved URL; the
\* archive has the hash of the release.
Downloads(i) ==
  /\ cli[i].at = "download"
  /\ \/ ~cli[i].aborted /\ CliFine /\ Moves(i, "extract") /\ UNCHANGED root
     \/ Stops(i) /\ Breaks(i)

\* extractExecutable: one executable and nothing else.
Extracts(i) ==
  /\ cli[i].at = "extract"
  /\ \/ ~cli[i].aborted /\ CliFine /\ Moves(i, "verify") /\ UNCHANGED root
     \/ Stops(i) /\ Breaks(i)

\* assertIdentity of the lock and of the staging directory.
Verifies(i) ==
  /\ cli[i].at = "verify"
  /\ IF ~cli[i].aborted /\ root.lock = i THEN Moves(i, "publish") /\ UNCHANGED root ELSE Breaks(i)
  /\ CliFine

Publishes(i) ==
  /\ cli[i].at = "publish"
  /\ \/ CliFine /\ Moves(i, "activate") /\ root' = [root EXCEPT !.dir[i] = "whole"]
     \/ CliFault /\ Breaks(i)

\* The manifest is renamed into its place, last.
Activates(i) ==
  /\ cli[i].at = "activate"
  /\ \/ /\ ~cli[i].aborted /\ CliFine
        /\ cli' = [cli EXCEPT ![i].at = "unpublish", ![i].activated = TRUE, ![i].result = i]
        /\ root' = [root EXCEPT !.current = i]
     \/ Stops(i) /\ Breaks(i)

----------------------------------------------------------------------------
(* The finally block of installRelease: each part is tried *)

\* removeOwnedDirectory of what was published for nothing.
Unpublishes(i) ==
  /\ cli[i].at = "unpublish"
  /\ IF root.dir[i] = "absent" \/ cli[i].activated
     THEN Moves(i, "unstage") /\ CliFine /\ UNCHANGED root
     ELSE \/ Moves(i, "unstage") /\ CliFine /\ root' = [root EXCEPT !.dir[i] = "absent"]
          \/ /\ CliFault /\ cli' = [cli EXCEPT ![i].at = "unstage", ![i].unclean = TRUE]
             /\ \E left \in {"whole", "partial"} : root' = [root EXCEPT !.dir[i] = left]

Unstages(i) ==
  /\ cli[i].at = "unstage"
  /\ \/ Moves(i, "unlock") /\ root' = [root EXCEPT !.staging = @ \ {i}] /\ CliFine
     \/ /\ i \in root.staging /\ CliFault /\ UNCHANGED root
        /\ cli' = [cli EXCEPT ![i].at = "unlock", ![i].unclean = TRUE]

\* A lock that cannot be identified, or is not the one it created, stays.
ChecksLock(i) ==
  /\ cli[i].at = "unlock"
  /\ cli' = IF cli[i].identified /\ root.lock = i THEN [cli EXCEPT ![i].at = "unlinking"]
            ELSE [cli EXCEPT ![i].at = "ended", ![i].unclean = TRUE]
  /\ UNCHANGED <<root, misfits>>

Unlinks(i) ==
  /\ cli[i].at = "unlinking"
  /\ \/ Moves(i, "ended") /\ root' = [root EXCEPT !.lock = NoCli] /\ CliFine
     \/ CliFault /\ cli' = [cli EXCEPT ![i].at = "ended", ![i].unclean = TRUE] /\ UNCHANGED root

----------------------------------------------------------------------------

Dies(p) ==
  /\ CliFault
  /\ \E i \in Underway : ProcessOf[i] = p
  /\ cli' = [i \in Calls |-> IF i \in Underway /\ ProcessOf[i] = p THEN [cli[i] EXCEPT !.at = "dead"] ELSE cli[i]]
  /\ UNCHANGED root

\* "A stale lock must be checked before removal": by the user, who may be wrong.
UserUnlocks ==
  /\ root.lock # NoCli /\ CliFault
  /\ root' = [root EXCEPT !.lock = NoCli]
  /\ UNCHANGED cli

CliNext ==
  \/ \E i \in Calls :
       \/ \E v \in Versions : Install(i, v)
       \/ FindInstalled(i) \/ Aborts(i) \/ LeavesQueue(i) \/ Enters(i) \/ TakesLock(i) \/ Identifies(i)
       \/ ReadsManifest(i) \/ Inspects(i) \/ ReadsRelease(i) \/ Stages(i) \/ Downloads(i) \/ Extracts(i)
       \/ Verifies(i) \/ Publishes(i) \/ Activates(i)
       \/ Unpublishes(i) \/ Unstages(i) \/ ChecksLock(i) \/ Unlinks(i)
  \/ \E i \in Calls : Dies(ProcessOf[i])
  \/ UserUnlocks

CliSpec == CliInit /\ [][CliNext]_cliVars

----------------------------------------------------------------------------
(* Properties *)

\* The manifest never names a directory that is missing or half removed, nor
\* does one go that a caller was told of: not by a crash, a failing cleanup,
\* or a lock that was removed under a living installer.
InstalledIsWhole ==
  /\ root.current # NoCli => root.dir[root.current] = "whole"
  /\ \A i \in Calls : cli[i].result # NoCli => root.dir[cli[i].result] = "whole"
  /\ \A i \in Calls : ~cli[i].invalid

\* A process installs one release at a time, however many of those that wait
\* give up, and whatever happens to the lock file.
OneInstallation ==
  \A i, j \in Underway :
    ProcessOf[i] = ProcessOf[j] /\ ~cli[i].status /\ ~cli[j].status
      /\ cli[i].at # "queued" /\ cli[j].at # "queued" => i = j

\* A call that does not complain of its cleanup leaves nothing behind but what
\* it has activated.
EndsClean ==
  \A i \in Calls : cli[i].at = "ended" /\ ~cli[i].unclean =>
    i \notin root.staging /\ root.lock # i /\ (root.dir[i] # "absent" => cli[i].activated)

\* What is installed is whole, calls of one process do not install at the same time, and a call
\* that says it is clean has left nothing behind, whatever was aborted, killed or robbed of its lock.
InstallerSound == InstalledIsWhole /\ OneInstallation /\ EndsClean
====
