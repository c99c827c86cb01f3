--------------------------- MODULE RunnerController ---------------------------
(***************************************************************************)
(* How the panel starts, stops and restarts the runner of one state        *)
(* directory (panel/src/server/runner-controller.ts) and resets its state  *)
(* (panel/app/api/maintenance/reset-state/route.ts), composed with the     *)
(* lock the runners take (StateLease).                                     *)
(*                                                                         *)
(* The panel is one event loop: a handler runs up to its next await, and   *)
(* what the exit of a child resumes runs in the same turn.  The runners    *)
(* are detached processes; their steps interleave with the panel's.        *)
(***************************************************************************)
EXTENDS StateLease

CONSTANT NoProc  \* this.proc is null

ASSUME ControllerAssumption == NoProc \notin Procs /\ Kills

VARIABLES
    status,    \* RunnerController.status
    proc,      \* this.proc
    watched,   \* children whose "exit" event this panel has yet to handle
    calls,     \* stop() calls that are waiting for an exit
    resuming,  \* a restart() whose stop() returned goes on in this turn
    polling,   \* the health timer is armed
    doomed,    \* processes that were sent SIGKILL
    hasty,     \* history: a command or a fault cost the panel its control
    spoiled    \* history: a reset deleted the lock file of a runner

panelVars == <<status, proc, watched, calls, resuming, polling, hasty, spoiled>>
leaseVars == <<file, named, pc, seen, raced>>
ctlVars == <<leaseVars, panelVars, doomed>>

(* "term" and "kill" are the two waits of the call that sends the signals, *)
(* "join" the wait of a call that found the status "stopping".  onExit is  *)
(* the process whose exit ends the wait; again: restart() made the call.   *)
Calls == [wait : {"term", "kill", "join"}, victim : Procs, onExit : Procs,
          again : BOOLEAN]

Live == {p \in Procs : IsProcessRunning(p)}

CtlTypeOK ==
    /\ TypeOK
    /\ status \in {"idle", "running", "stopping", "crashed"}
    /\ proc \in Procs \cup {NoProc}
    /\ watched \subseteq Procs
    /\ calls \subseteq Calls
    /\ resuming \in BOOLEAN
    /\ polling \in BOOLEAN
    /\ doomed \subseteq Procs
    /\ hasty \in BOOLEAN
    /\ spoiled \in BOOLEAN

CtlInit ==
    /\ Init
    /\ status = "idle"
    /\ proc = NoProc
    /\ watched = {}
    /\ calls = {}
    /\ resuming = FALSE
    /\ polling = FALSE
    /\ doomed = {}
    /\ hasty = FALSE
    /\ spoiled = FALSE
-----------------------------------------------------------------------------
(* The commands of the panel. *)

ClearStaleLock_OwnerUntested ==
    LET stale == LockOwner # NoOwner
    IN  /\ file' = IF stale THEN NoFile ELSE file
        /\ named' = (named /\ ~stale)

(* clearStaleLock removes a complete lock of a dead owner; JSON.parse of a *)
(* blank one throws, and the file stays.  Its few synchronous calls are    *)
(* one step: a runner they could race with is already a second one.        *)
ClearStaleLock ==
    LET stale == LockOwner # NoOwner /\ ~IsProcessRunning(LockOwner)
    IN  /\ file' = IF stale THEN NoFile ELSE file
        /\ named' = (named /\ ~stale)

Spawn_TimerKept(p) ==
    /\ pc[p] = "new"
    /\ ClearStaleLock
    /\ \/ /\ Goto(p, "open")
          /\ raced' = (raced \/ \E q \in Procs : Acquiring(q))
          /\ watched' = watched \cup {p}
       \/ /\ Goto(p, "exited")
          /\ UNCHANGED <<raced, watched>>
    /\ proc' = p
    /\ status' = "running"
    /\ UNCHANGED <<seen, calls, polling, doomed, spoiled>>

(* spawn succeeds, or reports an "error" and never an "exit". *)
Spawn(p) ==
    /\ pc[p] = "new"
    /\ ClearStaleLock
    /\ \/ /\ Goto(p, "open")
          /\ raced' = (raced \/ \E q \in Procs : Acquiring(q))
          /\ watched' = watched \cup {p}
       \/ /\ Goto(p, "exited")
          /\ UNCHANGED <<raced, watched>>
    /\ proc' = p
    /\ status' = "running"
    /\ polling' = TRUE
    /\ UNCHANGED <<seen, calls, doomed, spoiled>>

StartRunner_WhateverTheStatus(p) ==
    /\ ~resuming
    /\ hasty' = (hasty \/ status = "stopping")
    /\ Spawn(p)
    /\ UNCHANGED resuming

(* start(): refused while the status is running or starting, and so        *)
(* accepted while it is stopping.                                          *)
StartRunner(p) ==
    /\ ~resuming
    /\ status # "running"
    /\ hasty' = (hasty \/ status = "stopping")
    /\ Spawn(p)
    /\ UNCHANGED resuming

(* stop(): the first call signals the group of the process it captured and *)
(* waits for its exit; a call that finds the status stopping only waits,   *)
(* which matters when it is a restart that goes on afterwards.             *)
StopRunner(graceful, again) ==
    /\ ~resuming
    /\ proc # NoProc
    /\ status' = "stopping"
    /\ LET first == status # "stopping"
           call == [wait |-> IF first THEN "term" ELSE "join", victim |-> proc,
                    onExit |-> proc, again |-> again]
       IN  /\ calls' = IF first \/ again THEN calls \cup {call} ELSE calls
           /\ doomed' = IF first /\ ~graceful THEN doomed \cup {proc} ELSE doomed
    /\ UNCHANGED <<leaseVars, proc, watched, resuming, polling, hasty, spoiled>>

TermTimeout_NoEscalation(c) ==
    /\ ~resuming
    /\ c.wait = "term"
    /\ calls' = (calls \ {c}) \cup
          (IF proc = NoProc THEN {}
           ELSE {[c EXCEPT !.wait = "kill", !.onExit = proc]})
    /\ resuming' = (c.again /\ proc = NoProc)
    /\ UNCHANGED <<leaseVars, status, proc, watched, polling, doomed, hasty,
                   spoiled>>

(* awaitExit timed out: SIGKILL to the process the call captured, then a   *)
(* wait for whatever this.proc is by now; null ends it at once.            *)
TermTimeout(c) ==
    /\ ~resuming
    /\ c.wait = "term"
    /\ doomed' = doomed \cup {c.victim}
    /\ calls' = (calls \ {c}) \cup
          (IF proc = NoProc THEN {}
           ELSE {[c EXCEPT !.wait = "kill", !.onExit = proc]})
    /\ resuming' = (c.again /\ proc = NoProc)
    /\ UNCHANGED <<leaseVars, status, proc, watched, polling, hasty, spoiled>>

KillTimeout_KeepsStatus(c) ==
    /\ ~resuming
    /\ c.wait = "kill"
    /\ proc' = NoProc
    /\ calls' = calls \ {c}
    /\ resuming' = c.again
    /\ hasty' = (hasty \/ watched # {})
    /\ UNCHANGED <<leaseVars, status, watched, polling, doomed, spoiled>>

(* ... timed out again: "abandoning handle".  An exit that is still to     *)
(* come will be taken for the exit of the next runner.                     *)
KillTimeout(c) ==
    /\ ~resuming
    /\ c.wait = "kill"
    /\ proc' = NoProc
    /\ status' = "crashed"
    /\ calls' = calls \ {c}
    /\ resuming' = c.again
    /\ hasty' = (hasty \/ watched # {})
    /\ UNCHANGED <<leaseVars, watched, polling, doomed, spoiled>>

(* The wait of a second call ends with an error, and a restart with it. *)
JoinTimeout(c) ==
    /\ ~resuming
    /\ c.wait = "join"
    /\ calls' = calls \ {c}
    /\ UNCHANGED <<leaseVars, status, proc, watched, resuming, polling, doomed,
                   hasty, spoiled>>

(* proc.on("exit"): the handler of p's start, whatever this.proc is by     *)
(* now; then the waits for p return.                                       *)
ExitEvent(p) ==
    /\ ~resuming
    /\ p \in watched /\ ~IsProcessRunning(p)
    /\ watched' = watched \ {p}
    /\ proc' = NoProc
    /\ polling' = FALSE
    /\ \E clean \in (IF pc[p] = "exited" THEN BOOLEAN ELSE {FALSE}) :
          status' = IF status = "stopping" \/ clean THEN "idle" ELSE "crashed"
    /\ calls' = {c \in calls : c.onExit # p}
    /\ resuming' = \E c \in calls : c.onExit = p /\ c.again
    /\ UNCHANGED <<leaseVars, doomed, hasty, spoiled>>

(* restart() after its stop(): start(), which another start may refuse.    *)
Resume ==
    /\ resuming
    /\ resuming' = FALSE
    /\ \/ /\ status # "running"
          /\ hasty' = (hasty \/ status = "stopping")
          /\ \E p \in Procs : Spawn(p)
       \/ /\ status = "running" \/ \A p \in Procs : pc[p] # "new"
          /\ UNCHANGED <<leaseVars, status, proc, watched, calls, polling,
                         doomed, hasty, spoiled>>

ResetState_Unguarded ==
    /\ ~resuming
    /\ file' = NoFile
    /\ named' = FALSE
    /\ hasty' = (hasty \/ (status = "stopping" /\ Live # {}))
    /\ spoiled' = (spoiled \/ \E p \in Procs : pc[p] \in {"write", "rewrite", "own"})
    /\ UNCHANGED <<pc, seen, raced, status, proc, watched, calls, resuming,
                   polling, doomed>>

(* POST reset-state deletes the checkpoint, the lock and the artifacts; it *)
(* is refused only while the status is running or starting.                *)
ResetState ==
    /\ ~resuming
    /\ status # "running"
    /\ file' = NoFile
    /\ named' = FALSE
    /\ hasty' = (hasty \/ (status = "stopping" /\ Live # {}))
    /\ spoiled' = (spoiled \/ \E p \in Procs : pc[p] \in {"write", "rewrite", "own"})
    /\ UNCHANGED <<pc, seen, raced, status, proc, watched, calls, resuming,
                   polling, doomed>>

(* The panel dies and boots again: the detached runners live on, unknown   *)
(* to the new RunnerRegistry.                                              *)
PanelRestart ==
    /\ status' = "idle"
    /\ proc' = NoProc
    /\ watched' = {}
    /\ calls' = {}
    /\ resuming' = FALSE
    /\ polling' = FALSE
    /\ hasty' = (hasty \/ Live # {})
    /\ UNCHANGED <<leaseVars, doomed, spoiled>>
-----------------------------------------------------------------------------
(* The runners: the steps of StateLease.  SIGTERM ends a runner before its *)
(* handlers are installed as Kill does, and later through Release; after   *)
(* SIGKILL nothing but the death of the process is left.                   *)
RunnerStep(p) ==
    /\ \/ Kill(p)
       \/ p \notin doomed /\ (AcquireStep(p) \/ Release(p) \/ Exit(p) \/ HookedExit(p))
    /\ UNCHANGED <<panelVars, doomed>>

CtlNext ==
    \/ \E p \in Procs : StartRunner(p) \/ ExitEvent(p) \/ RunnerStep(p)
    \/ \E graceful, again \in BOOLEAN : StopRunner(graceful, again)
    \/ \E c \in calls : TermTimeout(c) \/ KillTimeout(c) \/ JoinTimeout(c)
    \/ Resume
    \/ ResetState
    \/ PanelRestart

(* The timers of a stop fire, events are delivered, the panel's turn ends, *)
(* and a process that was sent SIGKILL dies in the end.                    *)
CtlFairness ==
    /\ \A p \in Procs :
          /\ WF_ctlVars(ExitEvent(p))
          /\ WF_ctlVars(p \in doomed /\ Kill(p) /\ UNCHANGED <<panelVars, doomed>>)
          /\ WF_ctlVars(\E c \in calls : c.victim = p /\ (TermTimeout(c) \/ KillTimeout(c)))
    /\ WF_ctlVars(Resume)

CtlSpec == CtlInit /\ [][CtlNext]_ctlVars /\ CtlFairness
-----------------------------------------------------------------------------
(* Unless a start or a reset was accepted during a stop, a handle was      *)
(* abandoned or the panel restarted, at most one runner of the directory   *)
(* lives, it is the one this.proc refers to, and the status says so:       *)
(* "idle" and "crashed" mean that no runner lives.                         *)
OneKnownRunner ==
    hasty \/ /\ Live \subseteq {proc}
             /\ status \in {"idle", "crashed"} => Live = {}

(* As long as the panel is in control, its runners never race for the lock *)
(* file, the owner's lock is in place and no reset deletes the checkpoint  *)
(* of a runner that owns it.                                               *)
ControlProtectsState ==
    hasty \/ (~raced /\ MutualExclusion /\ OwnersFile /\ ~spoiled)

(* Out of control too, two runners never own the directory at once: when a *)
(* start is accepted during a stop, a handle is abandoned or the panel     *)
(* restarts, the lock of the runner nobody knows of outlives the           *)
(* clearStaleLock of the next start, and that start's runner gives up.     *)
(* Only overlapping starts and the deletion of a runner's lock file break  *)
(* it.                                                                     *)
LockOutlivesControl == raced \/ spoiled \/ (MutualExclusion /\ OwnersFile)

(* A live runner is watched by the health timer (beginHealthLoop) for as   *)
(* long as the panel is in control: no exit of an earlier one stops it.    *)
LiveRunnerIsPolled == hasty \/ Live = {} \/ polling

(* A stop ends: the status does not stay "stopping", even when the child   *)
(* ignores SIGTERM, never existed or is replaced meanwhile.                *)
StopEnds == status = "stopping" ~> status # "stopping"

(* The process that a stop call captured dies, by itself or by the SIGKILL *)
(* of the escalation, whatever starts and stops overlap with the call,     *)
(* unless the panel dies first.                                            *)
VictimDies ==
    \A p \in Procs :
        (\E c \in calls : c.wait = "term" /\ c.victim = p)
            ~> (~IsProcessRunning(p) \/ p \notin watched)

=============================================================================
