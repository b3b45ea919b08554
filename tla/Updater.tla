------------------------------ MODULE Updater -------------------------------
(***************************************************************************)
(* `tuzy update` (internal/update, cli/update_cmd.go): several processes   *)
(* of one installation replace its executable while others start, and any  *)
(* of them may die at any point.  A file is an identity that is renamed    *)
(* from place to place.  Release versions are told apart only as far as an *)
(* update goes ahead or not.                                               *)
(***************************************************************************)
EXTENDS Naturals, FiniteSets

CONSTANTS
  Procs,             \* the processes
  Files, Original,   \* the executables there can be; the one installed first
  NoFile

ASSUME UpdaterAssumption == Original \in Files /\ NoFile \notin Files

VARIABLES
  windows,  \* the platform
  exe,      \* the file at the executable's path
  olds,     \* the files at <exe>.old-*
  temps,    \* the files at .tuzy-update-*
  genuine,  \* the files whose bytes were signed for the release, complete
  runs,     \* the files that run here and report their version
  at,       \* where each process is
  image,    \* the file each process runs
  mine,     \* its .tuzy-update-* file
  prev      \* the file it moved to <exe>.old-*

updaterVars == <<windows, exe, olds, temps, genuine, runs, at, image, mine, prev>>
diskVars == <<exe, olds, temps, genuine, runs>>

Places == {"out", "idle", "fetched", "writing", "written", "verified", "swapping",
           "moved", "back", "leaving", "lost", "died"}

UpdaterTypeOK ==
  /\ windows \in BOOLEAN /\ exe \in Files \cup {NoFile}
  /\ olds \cup temps \cup genuine \cup runs \subseteq Files
  /\ at \in [Procs -> Places]
  /\ {image, mine, prev} \subseteq [Procs -> Files \cup {NoFile}]

UpdaterInit ==
  /\ windows \in BOOLEAN
  /\ exe = Original /\ olds = {} /\ temps = {}
  /\ genuine = {Original} /\ runs = {Original}
  /\ at = [p \in Procs |-> "out"]
  /\ image = [p \in Procs |-> NoFile] /\ mine = [p \in Procs |-> NoFile]
  /\ prev = [p \in Procs |-> NoFile]

GoTo(p, where) == at' = [at EXCEPT ![p] = where]
Locked(f) == windows /\ f # NoFile /\ \E p \in Procs : image[p] = f

(* CleanupOld: what is not in use.                                         *)
KeptOlds == {f \in olds : Locked(f)}

(* A command starts; on Windows it first tidies up.                        *)
Launch(p) ==
  /\ at[p] = "out" /\ exe # NoFile /\ GoTo(p, "idle")
  /\ image' = [image EXCEPT ![p] = exe]
  /\ olds' = IF windows THEN KeptOlds ELSE olds
  /\ UNCHANGED <<windows, exe, temps, genuine, runs, mine, prev>>

(* Nothing newer, a package manager's executable, or any other command.    *)
NoUpdate(p) ==
  /\ at[p] = "idle" /\ GoTo(p, "leaving")
  /\ UNCHANGED <<windows, diskVars, image, mine, prev>>

InUse == olds \cup temps \cup {exe} \cup UNION {{image[p], mine[p], prev[p]} : p \in Procs}

(* Download: checksums.txt must be signed by a release key and the archive *)
(* must match it; what the server says is anything.  extract's binary may  *)
(* not run on this machine all the same.                                   *)
AcceptsUnsigned(signed, matches) == matches
Accepts(signed, matches) == signed /\ matches

Download(p) ==
  /\ at[p] = "idle"
  /\ \E signed, matches \in BOOLEAN :
       IF Accepts(signed, matches)
       THEN \E f \in Files \ InUse :
              /\ GoTo(p, "fetched") /\ mine' = [mine EXCEPT ![p] = f]
              /\ genuine' = IF signed /\ matches THEN genuine \cup {f} ELSE genuine \ {f}
              /\ runs' \in {runs \cup {f}, runs \ {f}}
              /\ temps' = temps \cup {f}
       ELSE GoTo(p, "leaving") /\ UNCHANGED <<mine, genuine, runs, temps>>
  /\ UNCHANGED <<windows, exe, olds, image, prev>>

(* Install: with an executable to replace, the bytes are written, which    *)
(* may fail half way, then the file is run, then swapped in.               *)
Written(p) ==
  /\ at[p] = "fetched"
  /\ GoTo(p, "leaving") \/ (exe # NoFile /\ GoTo(p, "written"))
  /\ UNCHANGED <<windows, diskVars, image, mine, prev>>

RunsSomehow(p) == TRUE
Runs(p) == mine[p] \in runs

VerifyRun(p) ==
  /\ at[p] = "written" /\ GoTo(p, IF Runs(p) THEN "verified" ELSE "leaving")
  /\ UNCHANGED <<windows, diskVars, image, mine, prev>>

(* swap.  Unix: one rename, over whatever is there.                        *)
SwapUnix(p) ==
  /\ ~windows /\ at[p] = "verified" /\ GoTo(p, "leaving")
  /\ \/ exe' = mine[p] /\ temps' = temps \ {mine[p]}
     \/ UNCHANGED <<exe, temps>>
  /\ UNCHANGED <<windows, olds, genuine, runs, image, mine, prev>>

(* Windows: every rename is retried five times and may still fail; a       *)
(* running file can be renamed but not replaced.                           *)
SwapCleansUp(p) ==
  /\ windows /\ at[p] = "verified" /\ GoTo(p, "swapping") /\ olds' = KeptOlds
  /\ UNCHANGED <<windows, exe, temps, genuine, runs, image, mine, prev>>

MoveAway(p) ==
  /\ at[p] = "swapping"
  /\ \/ /\ exe # NoFile /\ GoTo(p, "moved")
        /\ olds' = olds \cup {exe} /\ prev' = [prev EXCEPT ![p] = exe] /\ exe' = NoFile
     \/ GoTo(p, "leaving") /\ UNCHANGED <<exe, olds, prev>>
  /\ UNCHANGED <<windows, temps, genuine, runs, image, mine>>

MoveIn(p) ==
  /\ at[p] = "moved"
  /\ \/ /\ ~Locked(exe) /\ GoTo(p, "leaving")
        /\ exe' = mine[p] /\ temps' = temps \ {mine[p]}
     \/ GoTo(p, "back") /\ UNCHANGED <<exe, temps>>
  /\ UNCHANGED <<windows, olds, genuine, runs, image, mine, prev>>

NoWayBack(p) ==
  /\ at[p] = "back" /\ GoTo(p, "leaving")
  /\ UNCHANGED <<windows, diskVars, image, mine, prev>>

(* The roll-back; when it fails too the user is told where the file is.    *)
MoveBack(p) ==
  /\ at[p] = "back"
  /\ \/ /\ prev[p] \in olds /\ ~Locked(exe) /\ GoTo(p, "leaving")
        /\ exe' = prev[p] /\ olds' = olds \ {prev[p]}
     \/ GoTo(p, "lost") /\ UNCHANGED <<exe, olds>>
  /\ UNCHANGED <<windows, temps, genuine, runs, image, mine, prev>>

(* The deferred Remove, which never touches a file that was renamed.       *)
Leave(p) ==
  /\ at[p] \in {"leaving", "lost"}
  /\ GoTo(p, IF at[p] = "lost" THEN "died" ELSE "out")
  /\ temps' = temps \ {mine[p]}
  /\ image' = [image EXCEPT ![p] = NoFile] /\ mine' = [mine EXCEPT ![p] = NoFile]
  /\ prev' = [prev EXCEPT ![p] = NoFile]
  /\ UNCHANGED <<windows, exe, olds, genuine, runs>>

(* Killed; while the file is being written, it stays incomplete.           *)
Dies(p) ==
  /\ at[p] \notin {"out", "died"}
  /\ GoTo(p, IF at[p] \in {"moved", "back", "lost"} THEN "died" ELSE "out")
  /\ genuine' = IF at[p] = "fetched" THEN genuine \ {mine[p]} ELSE genuine
  /\ image' = [image EXCEPT ![p] = NoFile] /\ mine' = [mine EXCEPT ![p] = NoFile]
  /\ prev' = [prev EXCEPT ![p] = NoFile]
  /\ UNCHANGED <<windows, exe, olds, temps, runs>>

UpdaterNext ==
  \E p \in Procs :
    \/ Launch(p) \/ NoUpdate(p) \/ Download(p) \/ Written(p) \/ VerifyRun(p)
    \/ SwapUnix(p) \/ SwapCleansUp(p) \/ MoveAway(p) \/ MoveIn(p) \/ MoveBack(p)
    \/ Leave(p) \/ Dies(p)

UpdaterSpec == UpdaterInit /\ [][UpdaterNext]_updaterVars

---------------------------------------------------------------------------
(* At every moment, so at every crash, the executable is complete, signed  *)
(* and known to run; it is missing only on Windows, between a process's    *)
(* two renames or when that process died or could not roll back there, and *)
(* then an earlier executable that works is still beside it: no clean-up   *)
(* of another process has removed the last one.                            *)
AlwaysRunnable ==
  LET works == genuine \cap runs
      between == {p \in Procs : at[p] \in {"moved", "back", "lost", "died"}}
  IN IF exe = NoFile THEN windows /\ between # {} /\ olds \cap works # {}
     ELSE exe \in works
=============================================================================
