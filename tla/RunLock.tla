-------------------------------- MODULE RunLock --------------------------------
(***************************************************************************)
(* do.sh's take_lock: invocations of do.sh exclude one another with        *)
(* flock(1) on a lock file, which an EXIT trap removes.                    *)
(*                                                                         *)
(* flock locks the file a descriptor is open on, not the path: once the    *)
(* path has been unlinked, whoever opens it next gets another file.        *)
(***************************************************************************)
EXTENDS Naturals, FiniteSets

CONSTANTS
  Runs,     \* invocations of do.sh, each started once
  NoFile

ASSUME NoFileAssumption == NoFile \notin Nat

VARIABLES
  path,      \* the file /tmp/do.sh.lock names, or NoFile
  files,     \* how many files have been created under that path
  fd,        \* per run: the file descriptor 42 is open on, or NoFile
  pc,        \* per run: where it is
  finished,  \* history: some run has reached its EXIT trap
  killed     \* history: some run has been killed and left its file behind

lockVars == <<path, files, fd, pc, finished, killed>>

Locations == {"start", "opened", "locked", "running", "exiting", "over"}

(* The runs that hold the lock on a file: until they exit and the kernel   *)
(* closes their descriptor.                                                *)
Holding == {"locked", "running", "exiting"}
Holders(file) == {r \in Runs : pc[r] \in Holding /\ fd[r] = file}

LockInit ==
  /\ path = NoFile
  /\ files = 0
  /\ fd = [r \in Runs |-> NoFile]
  /\ pc = [r \in Runs |-> "start"]
  /\ finished = FALSE
  /\ killed = FALSE

Goes(r, loc) == pc' = [pc EXCEPT ![r] = loc]

(* exec 42>${do_lockfile} creates the file if there is none.               *)
OpenFile(r) ==
  /\ pc[r] = "start"
  /\ IF path = NoFile
     THEN path' = files + 1 /\ files' = files + 1
     ELSE UNCHANGED <<path, files>>
  /\ fd' = [fd EXCEPT ![r] = path']
  /\ Goes(r, "opened")
  /\ UNCHANGED <<finished, killed>>

(* flock -n 42 succeeds, ...                                               *)
Flock(r) ==
  /\ pc[r] = "opened"
  /\ Holders(fd[r]) = {}
  /\ Goes(r, "locked")
  /\ UNCHANGED <<path, files, fd, finished, killed>>

(* Mutant: the trap is set before the lock is taken.                       *)
RefusedMutant(r) ==
  /\ pc[r] = "opened"
  /\ Holders(fd[r]) # {}
  /\ path' = NoFile
  /\ fd' = [fd EXCEPT ![r] = NoFile]
  /\ Goes(r, "over")
  /\ UNCHANGED <<files, finished, killed>>

(* ... or fails, and the run dies; its EXIT trap is not set yet.           *)
Refused(r) ==
  /\ pc[r] = "opened"
  /\ Holders(fd[r]) # {}
  /\ fd' = [fd EXCEPT ![r] = NoFile]
  /\ Goes(r, "over")
  /\ UNCHANGED <<path, files, finished, killed>>

SetTrap(r) ==
  /\ pc[r] = "locked"
  /\ Goes(r, "running")
  /\ UNCHANGED <<path, files, fd, finished, killed>>

(* Mutant: the trap removes the file only if nobody else has opened it.    *)
ExitTrapMutant(r) ==
  /\ pc[r] = "running"
  /\ path' = IF \E s \in Runs \ {r} : fd[s] = path THEN path ELSE NoFile
  /\ finished' = TRUE
  /\ Goes(r, "exiting")
  /\ UNCHANGED <<files, fd, killed>>

(* However the command ends, bash runs the trap: rm -f ${do_lockfile}.     *)
ExitTrap(r) ==
  /\ pc[r] = "running"
  /\ path' = NoFile
  /\ finished' = TRUE
  /\ Goes(r, "exiting")
  /\ UNCHANGED <<files, fd, killed>>

(* The process ends after its trap, and its lock with it.                  *)
Exit(r) ==
  /\ pc[r] = "exiting"
  /\ fd' = [fd EXCEPT ![r] = NoFile]
  /\ Goes(r, "over")
  /\ UNCHANGED <<path, files, finished, killed>>

(* A run that is killed, or interrupted before its trap is set, runs none. *)
Killed(r) ==
  /\ pc[r] \in {"opened", "locked", "running", "exiting"}
  /\ fd' = [fd EXCEPT ![r] = NoFile]
  /\ killed' = TRUE
  /\ Goes(r, "over")
  /\ UNCHANGED <<path, files, finished>>

LockNext ==
  \E r \in Runs :
    \/ OpenFile(r) \/ Flock(r) \/ Refused(r) \/ SetTrap(r)
    \/ ExitTrap(r) \/ Exit(r) \/ Killed(r)

LockSpec == LockInit /\ [][LockNext]_lockVars

-----------------------------------------------------------------------------
(***************************************************************************)
(* Types, and a run has its descriptor open exactly while it is at work.   *)
(***************************************************************************)
LockTypeOK ==
  /\ files \in Nat
  /\ path \in 1..files \cup {NoFile}
  /\ fd \in [Runs -> 1..files \cup {NoFile}]
  /\ pc \in [Runs -> Locations]
  /\ \A r \in Runs : fd[r] = NoFile <=> pc[r] \in {"start", "over"}
  /\ finished \in BOOLEAN
  /\ killed \in BOOLEAN

Active == {r \in Runs : pc[r] \in {"locked", "running"}}

(***************************************************************************)
(* "already running" (take_lock): no two runs do their work at the same    *)
(* time.  It does not hold: the trap unlinks the file before the lock is   *)
(* released, so a run that has opened it but not yet asked for the lock    *)
(* gets the lock on a file that no later run will look at.                 *)
(***************************************************************************)
OneRunAtATime == \A r, s \in Active : r = s

(***************************************************************************)
(* As long as no run has come to its end, runs exclude one another, however*)
(* many are refused or killed meanwhile.                                   *)
(***************************************************************************)
OneRunUntilAnExit == finished \/ OneRunAtATime

(***************************************************************************)
(* Unless a run was killed, the lock file is never left behind: while it   *)
(* exists, a run has it open that will remove it, or be refused by one     *)
(* that will.                                                              *)
(***************************************************************************)
NoStaleFile ==
  path # NoFile /\ ~killed =>
    \E r \in Runs :
      pc[r] \in {"opened", "locked", "running"} /\ fd[r] = path

(***************************************************************************)
(* The inductive strengthening.  Files are numbered in the order of their  *)
(* creation (TypeOK), which tells an unlinked file from any later one.     *)
(***************************************************************************)
OneRunPerFile ==
  \A r, s \in Runs :
    (pc[r] \in Holding /\ pc[s] \in Holding /\ fd[r] = fd[s]) => r = s

ExitingIsUnlinked ==
  \A r \in Runs : pc[r] = "exiting" => finished /\ fd[r] # path

OneFileUntilAnExit ==
  ~finished => \A r \in Runs : fd[r] # NoFile => fd[r] = path

LockIInv ==
  LockTypeOK /\ OneRunPerFile /\ ExitingIsUnlinked /\ OneFileUntilAnExit
    /\ NoStaleFile

=============================================================================
