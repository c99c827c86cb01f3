------------------------------ MODULE StateLease ------------------------------
(***************************************************************************)
(* The lock file that gives one runner process a state directory:          *)
(* runner/src/lease.ts, and its use by runRunner in runner/src/runner.ts.  *)
(*                                                                         *)
(* Every `await` of StateDirectoryLease.acquire is a step of its own, so   *)
(* that any number of processes interleave between them.  A process lives  *)
(* once; a restarted runner is another member of Procs.                    *)
(***************************************************************************)
EXTENDS Naturals, FiniteSets

CONSTANTS
    Procs,    \* runner processes (process ids)
    NoFile,   \* the lock file does not exist
    NoOwner,  \* readLockOwner returned null
    Kills     \* processes may be killed by a signal (SIGKILL)

ASSUME LeaseAssumption ==
    /\ NoFile \notin Procs
    /\ NoOwner \notin Procs
    /\ Kills \in BOOLEAN

VARIABLES
    file,    \* the process that created the lock file, or NoFile
    named,   \* the payload with the creator's pid has been written to it
    pc,      \* where each process is
    seen,    \* the owner a process read in the lock file
    raced    \* history: a runner was started while another was acquiring

vars == <<file, named, pc, seen, raced>>

Places == {"new", "open", "write", "read", "probe", "remove", "reopen",
           "rewrite", "own", "released", "exited", "killed"}

TypeOK ==
    /\ file \in Procs \cup {NoFile}
    /\ named \in BOOLEAN
    /\ pc \in [Procs -> Places]
    /\ seen \in [Procs -> Procs \cup {NoOwner}]
    /\ raced \in BOOLEAN

Init ==
    /\ file = NoFile
    /\ named = FALSE
    /\ pc = [p \in Procs |-> "new"]
    /\ seen = [p \in Procs |-> NoOwner]
    /\ raced = FALSE

(* isProcessRunning(pid) *)
IsProcessRunning(p) == pc[p] \notin {"new", "exited", "killed"}

Acquiring(p) == pc[p] \in {"open", "write", "read", "probe", "remove",
                           "reopen", "rewrite"}

(* What readLockOwner returns: an unreadable or incomplete file is null. *)
LockOwner == IF file # NoFile /\ named THEN file ELSE NoOwner

Goto(p, place) == pc' = [pc EXCEPT ![p] = place]
-----------------------------------------------------------------------------
(* A runner is launched and calls StateDirectoryLease.acquire. *)
Start(p) ==
    /\ pc[p] = "new"
    /\ Goto(p, "open")
    /\ raced' = (raced \/ \E q \in Procs : Acquiring(q))
    /\ UNCHANGED <<file, named, seen>>

(* open(lockPath, "wx") succeeds: an empty file exists. *)
Create(p) ==
    /\ pc[p] \in {"open", "reopen"}
    /\ file = NoFile
    /\ file' = p
    /\ named' = FALSE
    /\ Goto(p, IF pc[p] = "open" THEN "write" ELSE "rewrite")
    /\ UNCHANGED <<seen, raced>>

(* open fails with EEXIST on the first attempt. *)
Refused(p) ==
    /\ pc[p] = "open"
    /\ file # NoFile
    /\ Goto(p, "read")
    /\ UNCHANGED <<file, named, seen, raced>>

(* ... and on the second: the error leaves acquire and ends the process. *)
RefusedAgain(p) ==
    /\ pc[p] = "reopen"
    /\ file # NoFile
    /\ Goto(p, "exited")
    /\ UNCHANGED <<file, named, seen, raced>>

(* handle.writeFile and close.  The bytes go to the file p created, which  *)
(* somebody may have unlinked or replaced since.                           *)
Write(p) ==
    /\ pc[p] \in {"write", "rewrite"}
    /\ named' = (named \/ file = p)
    /\ Goto(p, "own")
    /\ UNCHANGED <<file, seen, raced>>

(* readLockOwner; null ends the process with "already in use". *)
ReadOwner(p) ==
    /\ pc[p] = "read"
    /\ seen' = [seen EXCEPT ![p] = LockOwner]
    /\ Goto(p, IF LockOwner = NoOwner THEN "exited" ELSE "probe")
    /\ UNCHANGED <<file, named, raced>>

Probe_NoLivenessTest(p) ==
    /\ pc[p] = "probe"
    /\ Goto(p, "remove")
    /\ UNCHANGED <<file, named, seen, raced>>

Probe_NeverStale(p) ==
    /\ pc[p] = "probe"
    /\ Goto(p, "exited")
    /\ UNCHANGED <<file, named, seen, raced>>

(* isProcessRunning(owner.pid): only a dead owner's lock is stale. *)
Probe(p) ==
    /\ pc[p] = "probe"
    /\ Goto(p, IF IsProcessRunning(seen[p]) THEN "exited" ELSE "remove")
    /\ UNCHANGED <<file, named, seen, raced>>

RemoveStale_KeepsFile(p) ==
    /\ pc[p] = "remove"
    /\ Goto(p, "reopen")
    /\ UNCHANGED <<file, named, seen, raced>>

(* rm(lockPath, { force: true }): whatever file is there now. *)
RemoveStale(p) ==
    /\ pc[p] = "remove"
    /\ file' = NoFile
    /\ named' = FALSE
    /\ Goto(p, "reopen")
    /\ UNCHANGED <<seen, raced>>

Release_KeepsFile(p) ==
    /\ pc[p] = "own"
    /\ Goto(p, "released")
    /\ UNCHANGED <<file, named, seen, raced>>

(* lease.release() in runRunner's finally: an unconditional rm. *)
Release(p) ==
    /\ pc[p] = "own"
    /\ file' = NoFile
    /\ named' = FALSE
    /\ Goto(p, "released")
    /\ UNCHANGED <<seen, raced>>

(* The process ends after runRunner returned; its exit hook is off. *)
Exit(p) ==
    /\ pc[p] = "released"
    /\ Goto(p, "exited")
    /\ UNCHANGED <<file, named, seen, raced>>

(* An exit that skips the finally: the "exit" hook removes the file. *)
HookedExit(p) ==
    /\ pc[p] = "own"
    /\ file' = NoFile
    /\ named' = FALSE
    /\ Goto(p, "exited")
    /\ UNCHANGED <<seen, raced>>

(* SIGKILL: neither the finally nor the exit hook runs.  A file operation  *)
(* of acquire that throws for another reason than EEXIST ends the process  *)
(* likewise: nothing is undone, and there is no exit hook yet.             *)
Kill(p) ==
    /\ Kills
    /\ IsProcessRunning(p)
    /\ Goto(p, "killed")
    /\ UNCHANGED <<file, named, seen, raced>>

(* The steps a living process takes by itself while it acquires. *)
AcquireStep(p) ==
    \/ Create(p)
    \/ Refused(p)
    \/ RefusedAgain(p)
    \/ Write(p)
    \/ ReadOwner(p)
    \/ Probe(p)
    \/ RemoveStale(p)

(* Every process ended: nothing is left to do. *)
AllEnded ==
    /\ \A p \in Procs : pc[p] \in {"exited", "killed"}
    /\ UNCHANGED vars

Next ==
    \/ \E p \in Procs :
        \/ Start(p)
        \/ AcquireStep(p)
        \/ Release(p)
        \/ Exit(p)
        \/ HookedExit(p)
        \/ Kill(p)
    \/ AllEnded

(* A process that is acquiring is not suspended for ever: each of its      *)
(* awaits is a local file operation.                                       *)
Fairness == \A p \in Procs : WF_vars(AcquireStep(p))

Spec == Init /\ [][Next]_vars /\ Fairness
-----------------------------------------------------------------------------
(* Two runners never own the state directory at once                       *)
(* (runner/test/state.test.ts:101, "prevents concurrent runner ownership   *)
(* of the same state directory").                                          *)
MutualExclusion ==
    \A p, q \in Procs : pc[p] = "own" /\ pc[q] = "own" => p = q

(* While a runner owns the directory, the lock file is its own and names   *)
(* it: whoever looks finds a living owner.                                 *)
OwnersFile == \A p \in Procs : pc[p] = "own" => file = p /\ named

(* Both hold as long as no runner was started while another was still      *)
(* inside acquire: however runners are started, released, exit or are      *)
(* killed one after the other, stale locks and takeovers included.         *)
SerialExclusion == raced \/ (MutualExclusion /\ OwnersFile)

(* A complete lock file names a runner that owns the directory or was      *)
(* killed while it did: a runner that gave up or finished never leaves a   *)
(* lock that would refuse the next one for ever.  This holds however the   *)
(* starts interleave.                                                      *)
CompleteLockNamesOwner ==
    file # NoFile /\ named => pc[file] \in {"own", "killed"}

(* A lock file that a kill between open and writeFile left blank, or a     *)
(* failing writeFile.                                                      *)
BlankLock == file # NoFile /\ ~named /\ pc[file] = "killed"

(* A start that no other races with gives up for one of three reasons: the *)
(* process it read in the lock lives, the owner released the lock between  *)
(* the refused open and the read, or the lock is blank.  A dead owner's    *)
(* complete lock is never one of them, and neither is the second open      *)
(* (lease.ts:43).                                                          *)
GivesUpForAReason ==
    \A p \in Procs : Acquiring(p) /\ pc'[p] = "exited" /\ ~raced' =>
        \/ pc[p] = "probe" /\ IsProcessRunning(seen[p])
        \/ pc[p] = "read" /\ (file = NoFile \/ BlankLock)

(* Nobody removes or completes a blank lock: readLockOwner returns null    *)
(* for it (lease.ts:23), and every later start reports the directory in    *)
(* use.                                                                    *)
BlankLockStays == BlankLock /\ ~raced' => BlankLock' /\ file' = file

(* Both in one: which starts a lock file stops, and for how long.          *)
RefusedRightly == [][GivesUpForAReason /\ BlankLockStays]_vars

(* A lock that a dead runner left complete does not stop the next start:   *)
(* acquire reads it, finds the owner dead and takes over                   *)
(* (runner/test/state.test.ts:117), unless another start raced with it.    *)
TakeoverSucceeds ==
    \A p \in Procs :
        (pc[p] = "open" /\ file # NoFile /\ named /\ ~IsProcessRunning(file))
            ~> (raced \/ pc[p] \in {"own", "killed"})
=============================================================================
