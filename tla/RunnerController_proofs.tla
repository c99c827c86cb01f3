------------------------ MODULE RunnerController_proofs ------------------------
(***************************************************************************)
(* The panel supervises at most one runner of a state directory, for any   *)
(* number of processes and any schedule of commands, timers, exits and     *)
(* kills, until a start or a reset is accepted during a stop, a handle is  *)
(* abandoned or the panel restarts; and even then the lease keeps a second *)
(* runner out of the directory.                                            *)
(***************************************************************************)
EXTENDS RunnerController, StateLease_proofs

(* A runner that lives is the child whose exit the panel awaits, it is the *)
(* only one, and while there is one the status and the timer say so.       *)
Supervised ==
    /\ Live \subseteq watched
    /\ watched \subseteq {proc}
    /\ watched # {} => status \in {"running", "stopping"} /\ polling

(* Alone, a runner that created the lock file still has it. *)
LockKept ==
    /\ ~raced
    /\ ~spoiled
    /\ \A p \in Procs : pc[p] \in {"write", "rewrite"} => file = p
    /\ OwnersFile

CtlInv == CtlTypeOK /\ (~hasty => Supervised /\ LockKept)

LEMMA LiveIsRunning == Live = {p \in Procs : pc[p] \notin {"new", "exited", "killed"}}
BY DEF Live, IsProcessRunning

LEMMA CtlInvInit == CtlInit => CtlInv
BY LeaseAssumption, ControllerAssumption
   DEF CtlInit, Init, CtlInv, CtlTypeOK, TypeOK, Places, Supervised, LockKept,
       OwnersFile, Live, IsProcessRunning

(* Starting a child adds at most that child to the runners that live. *)
LEMMA SpawnAdds ==
    ASSUME CtlTypeOK, NEW p \in Procs, Spawn(p)
    PROVE  /\ Live' \in {Live, Live \cup {p}}
           /\ p \notin Live
           /\ Live' \subseteq Live \cup watched'
           /\ watched' \subseteq watched \cup {p}
           /\ proc' = p /\ status' = "running" /\ polling'
           /\ spoiled' = spoiled
           /\ Live = {} => raced' = raced
<1> USE DEF CtlTypeOK, TypeOK, Spawn, Goto
<1>1. p \notin Live
  BY DEF Live, IsProcessRunning
<1>2. CASE pc' = [pc EXCEPT ![p] = "open"] /\ watched' = watched \cup {p}
           /\ raced' = (raced \/ \E q \in Procs : Acquiring(q))
  <2>1. Live' = Live \cup {p}
    BY <1>2 DEF Live, IsProcessRunning
  <2>2. Live = {} => raced' = raced
    BY <1>2 DEF Live, IsProcessRunning, Acquiring
  <2>3. QED
    BY <1>1, <1>2, <2>1, <2>2
<1>3. CASE pc' = [pc EXCEPT ![p] = "exited"] /\ UNCHANGED <<raced, watched>>
  <2>1. Live' = Live
    BY <1>3 DEF Live, IsProcessRunning
  <2>2. QED
    BY <1>1, <1>3, <2>1
<1>4. QED
  BY <1>2, <1>3

LEMMA SpawnTypes ==
    ASSUME CtlTypeOK, NEW p \in Procs, Spawn(p)
    PROVE  /\ TypeOK' /\ status' = "running" /\ proc' \in Procs
           /\ watched' \subseteq Procs /\ calls' \subseteq Calls
           /\ polling' \in BOOLEAN /\ doomed' \subseteq Procs /\ spoiled' \in BOOLEAN
BY LeaseAssumption
   DEF CtlTypeOK, TypeOK, Places, Spawn, Goto, ClearStaleLock, LockOwner

(* A start that meets no other runner keeps the panel in control. *)
LEMMA SpawnAlone ==
    ASSUME CtlTypeOK, Supervised, LockKept, NEW p \in Procs, Spawn(p),
           status \notin {"running", "stopping"}
    PROVE  Supervised' /\ LockKept'
<1>1. watched = {} /\ Live = {}
  BY DEF Supervised
<1>2. Supervised'
  BY <1>1, SpawnAdds DEF Supervised
<1>3. ~raced' /\ ~spoiled'
  BY <1>1, SpawnAdds DEF LockKept
<1>4. \A q \in Procs : pc'[q] \notin {"write", "rewrite", "own"}
  <2> TAKE q \in Procs
  <2>1. pc[q] \notin {"write", "rewrite", "own"}
    BY <1>1, LiveIsRunning
  <2>2. QED
    BY <2>1 DEF Spawn, Goto, CtlTypeOK, TypeOK
<1>5. QED
  BY <1>2, <1>3, <1>4 DEF LockKept, OwnersFile

LEMMA RunnerTypes ==
    ASSUME TypeOK, NEW p \in Procs, RunnerStep(p)
    PROVE  TypeOK'
<1> USE LeaseAssumption DEF TypeOK, Places
<1>1. CASE Kill(p) \/ Release(p) \/ Exit(p) \/ HookedExit(p)
  BY <1>1 DEF Kill, Release, Exit, HookedExit, Goto
<1>2. CASE Create(p) \/ Refused(p) \/ RefusedAgain(p) \/ Write(p)
  BY <1>2 DEF Create, Refused, RefusedAgain, Write, Goto
<1>3. CASE ReadOwner(p)
  <2>1. LockOwner \in Procs \cup {NoOwner}
    BY DEF LockOwner
  <2>2. QED
    BY <1>3, <2>1 DEF ReadOwner, Goto
<1>4. CASE Probe(p) \/ RemoveStale(p)
  BY <1>4 DEF Probe, RemoveStale, Goto
<1>5. QED
  BY <1>1, <1>2, <1>3, <1>4 DEF RunnerStep, AcquireStep

(* The steps of a runner: nobody starts to live, and alone it cannot lose  *)
(* the lock file it created.                                               *)
LEMMA RunnerKeeps ==
    ASSUME CtlInv, NEW p \in Procs, RunnerStep(p)
    PROVE  /\ TypeOK'
           /\ Live' \in {Live, Live \ {p}}
           /\ ~hasty => LockKept'
<1> USE DEF CtlInv, CtlTypeOK, TypeOK, RunnerStep, panelVars
<1>0. PICK place \in Places \ {"new"} :
         pc' = [pc EXCEPT ![p] = place] /\ pc[p] \notin {"new", "exited", "killed"}
  BY SMTT(30) DEF Places, Kill, IsProcessRunning, AcquireStep, Create, Refused, RefusedAgain,
         Write, ReadOwner, Probe, RemoveStale, Release, Exit, HookedExit, Goto
<1>1. TypeOK'
  BY RunnerTypes
<1>2. Live' \in {Live, Live \ {p}}
  <2>1. CASE place \in {"exited", "killed"}
    <3>1. Live' = Live \ {p}
      BY <1>0, <2>1 DEF Live, IsProcessRunning
    <3>2. QED
      BY <3>1
  <2>2. CASE place \notin {"exited", "killed"}
    <3>1. Live' = Live
      BY <1>0, <2>2 DEF Live, IsProcessRunning
    <3>2. QED
      BY <3>1
  <2>3. QED
    BY <2>1, <2>2
<1>3. ASSUME ~hasty PROVE LockKept'
  <2>1. p \in Live
    BY <1>0, LiveIsRunning
  <2>2. \A q \in Procs \ {p} : pc[q] \notin {"write", "rewrite", "own"}
    BY <1>3, <2>1, LiveIsRunning DEF Supervised
  <2>3. \A q \in Procs \ {p} : pc'[q] \notin {"write", "rewrite", "own"}
    BY <1>0, <2>2
  <2>4. ~raced' /\ ~spoiled'
    BY <1>3 DEF LockKept, Kill, AcquireStep, Create, Refused, RefusedAgain, Write,
                ReadOwner, Probe, RemoveStale, Release, Exit, HookedExit
  <2>5. /\ pc'[p] \in {"write", "rewrite"} => file' = p
        /\ pc'[p] = "own" => file' = p /\ named'
    BY <1>0, <1>3
       DEF LockKept, OwnersFile, Kill, IsProcessRunning, AcquireStep, Create,
           Refused, RefusedAgain, Write, ReadOwner, Probe, RemoveStale, Release,
           Exit, HookedExit, Goto, Places
  <2>6. QED
    BY <2>3, <2>4, <2>5 DEF LockKept, OwnersFile
<1>4. QED
  BY <1>1, <1>2, <1>3

(* A call, a timer, an exit event or a reset moves no runner. *)
LEMMA PanelKeeps ==
    ASSUME CtlInv, UNCHANGED pc,
           \/ \E p \in Procs : ExitEvent(p)
           \/ \E graceful, again \in BOOLEAN : StopRunner(graceful, again)
           \/ \E c \in calls : TermTimeout(c) \/ KillTimeout(c) \/ JoinTimeout(c)
           \/ ResetState
           \/ PanelRestart
    PROVE  CtlInv' /\ Live' = Live /\ hasty' \in {hasty, TRUE}
<1>1. Live' = Live
  BY DEF Live, IsProcessRunning
<1>2. CASE \E p \in Procs : ExitEvent(p)
  <2>1. PICK p \in Procs : ExitEvent(p)
    BY <1>2
  <2>2. CtlTypeOK'
    BY <2>1, LeaseAssumption, ControllerAssumption
       DEF CtlInv, CtlTypeOK, TypeOK, ExitEvent, leaseVars, Calls
  <2>3. ASSUME ~hasty PROVE Supervised' /\ LockKept'
    BY <1>1, <2>1, <2>3
       DEF CtlInv, Supervised, LockKept, OwnersFile, ExitEvent, leaseVars, Live
  <2>4. QED
    BY <1>1, <2>1, <2>2, <2>3 DEF CtlInv, ExitEvent
<1>3. CASE \E graceful, again \in BOOLEAN : StopRunner(graceful, again)
  <2>1. PICK graceful \in BOOLEAN, again \in BOOLEAN : StopRunner(graceful, again)
    BY <1>3
  <2>2. CtlTypeOK'
    BY <2>1 DEF CtlInv, CtlTypeOK, TypeOK, StopRunner, leaseVars, Calls
  <2>3. ASSUME ~hasty PROVE Supervised' /\ LockKept'
    BY <1>1, <2>1, <2>3
       DEF CtlInv, Supervised, LockKept, OwnersFile, StopRunner, leaseVars
  <2>4. QED
    BY <1>1, <2>1, <2>2, <2>3 DEF CtlInv, StopRunner
<1>4. CASE \E c \in calls : TermTimeout(c) \/ KillTimeout(c) \/ JoinTimeout(c)
  <2>1. PICK c \in calls : TermTimeout(c) \/ KillTimeout(c) \/ JoinTimeout(c)
    BY <1>4
  <2>2. c \in Calls
    BY DEF CtlInv, CtlTypeOK
  <2>3. CtlTypeOK'
    <3>1. CASE TermTimeout(c)
      BY <2>2, <3>1 DEF CtlInv, CtlTypeOK, TypeOK, TermTimeout, leaseVars, Calls
    <3>2. CASE KillTimeout(c) \/ JoinTimeout(c)
      BY <2>2, <3>2
         DEF CtlInv, CtlTypeOK, TypeOK, KillTimeout, JoinTimeout, leaseVars, Calls
    <3>3. QED
      BY <2>1, <3>1, <3>2
  <2>4. ASSUME ~hasty' PROVE Supervised' /\ LockKept'
    <3>1. CASE TermTimeout(c) \/ JoinTimeout(c)
      <4>1. UNCHANGED <<leaseVars, status, proc, watched, polling, hasty, spoiled>>
        BY <3>1 DEF TermTimeout, JoinTimeout
      <4>2. QED
        BY <1>1, <2>4, <4>1 DEF CtlInv, Supervised, LockKept, OwnersFile, leaseVars
    <3>2. CASE KillTimeout(c)
      <4>1. Supervised /\ LockKept /\ watched = {} /\ Live = {}
        BY <2>4, <3>2 DEF CtlInv, CtlTypeOK, KillTimeout, Supervised
      <4>2. QED
        BY <1>1, <3>2, <4>1
           DEF Supervised, LockKept, OwnersFile, KillTimeout, leaseVars
    <3>3. QED
      BY <2>1, <3>1, <3>2
  <2>5. QED
    BY <1>1, <2>1, <2>3, <2>4 DEF CtlInv, CtlTypeOK, TermTimeout, KillTimeout, JoinTimeout
<1>5. CASE ResetState
  <2>1. CtlTypeOK'
    BY <1>5 DEF CtlInv, CtlTypeOK, TypeOK, ResetState
  <2>2. ASSUME ~hasty' PROVE Supervised' /\ LockKept'
    <3>1. Live = {}
      BY <1>5, <2>2 DEF CtlInv, CtlTypeOK, Supervised, ResetState
    <3>2. \A p \in Procs : pc[p] \notin {"write", "rewrite", "own"}
      BY <3>1, LiveIsRunning
    <3>3. QED
      BY <1>1, <1>5, <2>2, <3>2
         DEF CtlInv, Supervised, LockKept, OwnersFile, ResetState
  <2>3. QED
    BY <1>1, <1>5, <2>1, <2>2 DEF CtlInv, CtlTypeOK, ResetState
<1>6. CASE PanelRestart
  <2>1. CtlTypeOK'
    BY <1>6 DEF CtlInv, CtlTypeOK, TypeOK, PanelRestart, leaseVars
  <2>2. ASSUME ~hasty' PROVE Supervised' /\ LockKept'
    BY <1>1, <1>6, <2>2
       DEF CtlInv, Supervised, LockKept, OwnersFile, PanelRestart, leaseVars
  <2>3. QED
    BY <1>1, <1>6, <2>1, <2>2 DEF CtlInv, CtlTypeOK, PanelRestart
<1>7. QED
  BY <1>2, <1>3, <1>4, <1>5, <1>6

(* Launching: start() and the start() of a restart(). *)
LEMMA LaunchKeeps ==
    ASSUME CtlInv, NEW p \in Procs, Spawn(p), status # "running",
           hasty' = (hasty \/ status = "stopping"), resuming' \in BOOLEAN
    PROVE  CtlInv'
<1>1. CtlTypeOK'
  BY SpawnTypes DEF CtlInv, CtlTypeOK
<1>2. ~hasty' => Supervised' /\ LockKept'
  BY SpawnAlone DEF CtlInv, CtlTypeOK
<1>3. QED
  BY <1>1, <1>2 DEF CtlInv, CtlTypeOK

(* Every step keeps the invariant. *)
LEMMA CtlStep ==
    ASSUME CtlInv, [CtlNext]_ctlVars
    PROVE  CtlInv'
<1>1. ASSUME NEW p \in Procs, StartRunner(p) PROVE CtlInv'
  <2>1. Spawn(p) /\ status # "running" /\ hasty' = (hasty \/ status = "stopping")
        /\ resuming' = resuming
    BY <1>1 DEF StartRunner
  <2>2. resuming' \in BOOLEAN
    BY <2>1 DEF CtlInv, CtlTypeOK
  <2>3. QED
    BY <2>1, <2>2, LaunchKeeps
<1>2. ASSUME Resume PROVE CtlInv'
  <2>1. CASE /\ status # "running"
             /\ hasty' = (hasty \/ status = "stopping")
             /\ \E p \in Procs : Spawn(p)
    <3>1. PICK p \in Procs : Spawn(p)
      BY <2>1
    <3>2. resuming' \in BOOLEAN
      BY <1>2 DEF Resume
    <3>3. QED
      BY <2>1, <3>1, <3>2, LaunchKeeps
  <2>2. CASE UNCHANGED <<leaseVars, status, proc, watched, calls, polling,
                         doomed, hasty, spoiled>>
    <3>1. UNCHANGED pc /\ Live' = Live
      BY <2>2 DEF leaseVars, Live, IsProcessRunning
    <3>2. CtlInv'
      BY <1>2, <2>2, <3>1
         DEF Resume, CtlInv, CtlTypeOK, TypeOK, Supervised, LockKept, OwnersFile,
             leaseVars
    <3>3. QED
      BY <2>2, <3>1, <3>2
  <2>3. QED
    BY <1>2, <2>1, <2>2 DEF Resume
<1>3. ASSUME NEW p \in Procs, RunnerStep(p) PROVE CtlInv'
  <2>1. /\ TypeOK' /\ Live' \in {Live, Live \ {p}} /\ (~hasty => LockKept')
        /\ UNCHANGED <<panelVars, doomed>>
    BY <1>3, RunnerKeeps DEF RunnerStep
  <2>2. CtlInv'
    BY <2>1 DEF CtlInv, CtlTypeOK, Supervised, panelVars
  <2>3. QED
    BY <2>2
<1>4. ASSUME \/ \E p \in Procs : ExitEvent(p)
             \/ \E graceful, again \in BOOLEAN : StopRunner(graceful, again)
             \/ \E c \in calls : TermTimeout(c) \/ KillTimeout(c) \/ JoinTimeout(c)
             \/ ResetState
             \/ PanelRestart
      PROVE  CtlInv'
  <2>1. UNCHANGED pc
    BY <1>4 DEF ExitEvent, StopRunner, TermTimeout, KillTimeout, JoinTimeout,
                ResetState, PanelRestart, leaseVars
  <2>2. CtlInv' /\ Live' = Live /\ hasty' \in {hasty, TRUE}
    BY <1>4, <2>1, PanelKeeps
  <2>3. QED
    BY <2>2
<1>5. ASSUME UNCHANGED ctlVars PROVE CtlInv'
  <2>1. UNCHANGED pc /\ Live' = Live
    BY <1>5 DEF ctlVars, leaseVars, Live, IsProcessRunning
  <2>2. QED
    BY <1>5, <2>1
       DEF ctlVars, leaseVars, panelVars, CtlInv, CtlTypeOK, TypeOK, Supervised,
           LockKept, OwnersFile
<1>6. QED
  BY <1>1, <1>2, <1>3, <1>4, <1>5 DEF CtlNext

LEMMA CtlInvAlways == CtlSpec => []CtlInv
BY CtlInvInit, CtlStep, PTL DEF CtlSpec

(* The variables of the controller and of the lease keep their types. *)
THEOREM ControllerTypes == CtlSpec => []CtlTypeOK
<1>1. CtlInv => CtlTypeOK
  BY DEF CtlInv
<1>2. QED
  BY <1>1, CtlInvAlways, PTL

(* The panel never has a second or an unknown runner of a directory while  *)
(* it is in control.                                                       *)
THEOREM OneKnown == CtlSpec => []OneKnownRunner
<1>1. CtlInv => OneKnownRunner
  BY DEF CtlInv, CtlTypeOK, Supervised, OneKnownRunner
<1>2. QED
  BY <1>1, CtlInvAlways, PTL

(* Under the panel's control the lease needs no assumption on the starts:  *)
(* they do not race, the owner's lock stays in place and a reset deletes   *)
(* the state of nobody.                                                    *)
THEOREM StateProtected == CtlSpec => []ControlProtectsState
<1>1. CtlInv => ControlProtectsState
  <2> SUFFICES ASSUME CtlInv, ~hasty PROVE ControlProtectsState
    BY DEF ControlProtectsState
  <2>1. MutualExclusion
    BY LiveIsRunning DEF CtlInv, Supervised, MutualExclusion
  <2>2. QED
    BY <2>1 DEF CtlInv, LockKept, ControlProtectsState
<1>2. QED
  BY <1>1, CtlInvAlways, PTL

(* What the lease keeps by itself (SerialInv of StateLease_proofs), the    *)
(* panel leaves in place: clearStaleLock touches the lock of no process    *)
(* that runs, and a reset that does is excepted.                           *)
LeaseKept == ~raced /\ ~spoiled => SerialInv

LEMMA SpawnKeepsLease ==
    ASSUME TypeOK, LeaseKept, NEW p \in Procs, Spawn(p)
    PROVE  LeaseKept'
<1> SUFFICES ASSUME ~raced', ~spoiled' PROVE SerialInv'
  BY DEF LeaseKept
<1>0. /\ spoiled' = spoiled
      /\ raced' = raced \/ raced' = (raced \/ \E q \in Procs : Acquiring(q))
  BY DEF Spawn
<1>1. ~raced /\ SerialInv
  <2>1. ~raced
    BY <1>0, Zenon
  <2>2. QED
    BY <1>0, <2>1 DEF LeaseKept
<1>2. /\ \/ UNCHANGED <<file, named>>
         \/ file' = NoFile /\ file \in Procs /\ ~IsProcessRunning(file)
      /\ seen' = seen
  BY LeaseAssumption DEF Spawn, ClearStaleLock, LockOwner, TypeOK
<1>3. CASE Goto(p, "exited")
  <2>1. \A q \in Procs : pc'[q] = IF q = p THEN "exited" ELSE pc[q]
    BY <1>3 DEF Goto, TypeOK
  <2>2. QED
    BY <1>1, <1>2, <2>1, LeaseAssumption
       DEF SerialInv, OneAcquirer, OwnersFile, WriterIsCreator, RemovedIsAbsent,
           SeenIsCurrent, RemovesTheDead, Acquiring, IsProcessRunning, TypeOK
<1>4. CASE Goto(p, "open") /\ \A q \in Procs : ~Acquiring(q)
  <2>1. \A q \in Procs : pc'[q] = IF q = p THEN "open" ELSE pc[q]
    BY <1>4 DEF Goto, TypeOK
  <2>2. QED
    BY <1>1, <1>2, <1>4, <2>1, LeaseAssumption
       DEF SerialInv, OneAcquirer, OwnersFile, WriterIsCreator, RemovedIsAbsent,
           SeenIsCurrent, RemovesTheDead, Acquiring, IsProcessRunning, TypeOK
<1>5. QED
  BY <1>3, <1>4 DEF Spawn

LEMMA RunnerKeepsLease ==
    ASSUME TypeOK, LeaseKept, NEW p \in Procs, RunnerStep(p)
    PROVE  LeaseKept'
<1>1. [Next]_vars /\ raced' = raced /\ spoiled' = spoiled
  BY DEF RunnerStep, Next, panelVars, AcquireStep, Create, Refused, RefusedAgain, Write,
         ReadOwner, Probe, RemoveStale, Release, Exit, HookedExit, Kill
<1>2. PICK place \in Places \ {"new"} :
          pc' = [pc EXCEPT ![p] = place] /\ pc[p] # "new"
  BY SMTT(30) DEF RunnerStep, Places, Kill, IsProcessRunning, AcquireStep, Create, Refused,
         RefusedAgain, Write, ReadOwner, Probe, RemoveStale, Release, Exit, HookedExit, Goto
<1>3. StartsAlone
  BY <1>2 DEF StartsAlone, Start, Goto, TypeOK
<1>4. QED
  BY <1>1, <1>3, SerialStep DEF LeaseKept

LEMMA ResetKeepsLease ==
    ASSUME TypeOK, LeaseKept, ResetState
    PROVE  LeaseKept'
<1> SUFFICES ASSUME ~raced', ~spoiled' PROVE SerialInv'
  BY DEF LeaseKept
<1>1. /\ SerialInv /\ file' = NoFile /\ UNCHANGED <<pc, seen>>
      /\ \A p \in Procs : pc[p] \notin {"write", "rewrite", "own"}
  BY DEF ResetState, LeaseKept
<1>2. QED
  BY <1>1 DEF SerialInv, OneAcquirer, OwnersFile, WriterIsCreator, RemovedIsAbsent,
              SeenIsCurrent, RemovesTheDead, Acquiring, IsProcessRunning

LEMMA LeaseKeptStep ==
    ASSUME CtlTypeOK, LeaseKept, [CtlNext]_ctlVars
    PROVE  LeaseKept'
<1> USE DEF CtlTypeOK
<1>1. ASSUME UNCHANGED <<leaseVars, spoiled>> PROVE LeaseKept'
  BY <1>1 DEF leaseVars, LeaseKept, SerialInv, OneAcquirer, OwnersFile, WriterIsCreator,
              RemovedIsAbsent, SeenIsCurrent, RemovesTheDead, Acquiring, IsProcessRunning
<1>2. ASSUME NEW p \in Procs, StartRunner(p) PROVE LeaseKept'
  BY <1>2, SpawnKeepsLease DEF StartRunner
<1>3. CASE Resume
  BY <1>1, <1>3, SpawnKeepsLease DEF Resume
<1>4. ASSUME NEW p \in Procs, RunnerStep(p) PROVE LeaseKept'
  BY <1>4, RunnerKeepsLease
<1>5. CASE ResetState
  BY <1>5, ResetKeepsLease
<1>6. CASE \/ \E p \in Procs : ExitEvent(p)
           \/ \E graceful, again \in BOOLEAN : StopRunner(graceful, again)
           \/ \E c \in calls : TermTimeout(c) \/ KillTimeout(c) \/ JoinTimeout(c)
           \/ PanelRestart
           \/ UNCHANGED ctlVars
  <2>1. UNCHANGED <<leaseVars, spoiled>>
    BY <1>6 DEF ExitEvent, StopRunner, TermTimeout, KillTimeout, JoinTimeout,
                PanelRestart, ctlVars, panelVars
  <2>2. QED
    BY <1>1, <2>1
<1>7. QED
  BY <1>2, <1>3, <1>4, <1>5, <1>6 DEF CtlNext

(* Whatever the panel lost control of, the lease still keeps a second      *)
(* runner out of the directory.                                            *)
THEOREM LockOutlives == CtlSpec => []LockOutlivesControl
<1>1. CtlInit => LeaseKept
  <2>1. CtlInit => Init
    BY DEF CtlInit
  <2>2. Init => LeaseKept
    BY IInvInit DEF IInv, LeaseKept
  <2>3. QED
    BY <2>1, <2>2
<1>2. CtlTypeOK /\ LeaseKept /\ [CtlNext]_ctlVars => LeaseKept'
  BY LeaseKeptStep
<1>3. LeaseKept => LockOutlivesControl
  BY DEF LeaseKept, SerialInv, OwnersFile, MutualExclusion, LockOutlivesControl
<1>4. QED
  BY <1>1, <1>2, <1>3, ControllerTypes, PTL DEF CtlSpec

(* The health timer of a live runner is armed while the panel is in        *)
(* control.                                                                *)
THEOREM Polled == CtlSpec => []LiveRunnerIsPolled
<1>1. CtlInv => LiveRunnerIsPolled
  BY DEF CtlInv, Supervised, LiveRunnerIsPolled
<1>2. QED
  BY <1>1, CtlInvAlways, PTL

-----------------------------------------------------------------------------
(* A stop in progress has a call whose timers will end it, it waits for    *)
(* the exit of its victim first, and it is past that only with the SIGKILL *)
(* sent.                                                                   *)
EscalationPending ==
    /\ status = "stopping" =>
           proc # NoProc /\ \E c \in calls : c.wait \in {"term", "kill"}
    /\ \A c \in calls : c.wait = "term" => c.onExit = c.victim
    /\ \A c \in calls : c.wait = "kill" => c.victim \in doomed

LEMMA EscalationStep ==
    ASSUME CtlTypeOK, EscalationPending, [CtlNext]_ctlVars
    PROVE  EscalationPending'
<1> USE DEF EscalationPending
<1>1. ASSUME status' # "stopping", calls' \subseteq calls, doomed' = doomed
      PROVE  EscalationPending'
  BY <1>1
<1>2. ASSUME UNCHANGED <<status, proc, calls, doomed>> PROVE EscalationPending'
  BY <1>2
<1>3. ASSUME NEW p \in Procs, StartRunner(p) PROVE EscalationPending'
  BY <1>1, <1>3 DEF StartRunner, Spawn
<1>4. ASSUME NEW p \in Procs, ExitEvent(p) PROVE EscalationPending'
  <2>1. status' \in {"idle", "crashed"} /\ calls' \subseteq calls /\ doomed' = doomed
    BY <1>4 DEF ExitEvent
  <2> QED
    BY <1>1, <2>1
<1>5. ASSUME NEW p \in Procs, RunnerStep(p) PROVE EscalationPending'
  BY <1>2, <1>5 DEF RunnerStep, panelVars
<1>6. ASSUME NEW graceful \in BOOLEAN, NEW again \in BOOLEAN, StopRunner(graceful, again)
      PROVE  EscalationPending'
  <2> DEFINE first == status # "stopping"
             call == [wait |-> IF first THEN "term" ELSE "join", victim |-> proc,
                      onExit |-> proc, again |-> again]
  <2>1. /\ proc # NoProc /\ proc' = proc
        /\ calls' = IF first \/ again THEN calls \cup {call} ELSE calls
        /\ doomed \subseteq doomed'
    BY <1>6 DEF StopRunner
  <2>2. /\ call.wait = IF first THEN "term" ELSE "join"
        /\ call.onExit = proc /\ call.victim = proc
    OBVIOUS
  <2> HIDE DEF call
  <2>3. \E c \in calls' : c.wait \in {"term", "kill"}
    BY <2>1, <2>2
  <2> QED
    BY <2>1, <2>2, <2>3
<1>7. ASSUME NEW c \in calls, TermTimeout(c) PROVE EscalationPending'
  <2> DEFINE d == [c EXCEPT !.wait = "kill", !.onExit = proc]
  <2>1. /\ doomed' = doomed \cup {c.victim} /\ UNCHANGED <<status, proc>>
        /\ calls' = (calls \ {c}) \cup (IF proc = NoProc THEN {} ELSE {d})
    BY <1>7 DEF TermTimeout
  <2>2. d.wait = "kill" /\ d.victim = c.victim
    BY DEF CtlTypeOK, Calls
  <2> HIDE DEF d
  <2> QED
    BY <2>1, <2>2
<1>8. ASSUME NEW c \in calls, KillTimeout(c) PROVE EscalationPending'
  BY <1>1, <1>8 DEF KillTimeout
<1>9. ASSUME NEW c \in calls, JoinTimeout(c) PROVE EscalationPending'
  BY <1>9 DEF JoinTimeout
<1>10. CASE Resume
  <2>1. CASE \E p \in Procs : Spawn(p)
    BY <1>1, <2>1 DEF Spawn
  <2>2. CASE UNCHANGED <<leaseVars, status, proc, watched, calls, polling,
                         doomed, hasty, spoiled>>
    BY <1>2, <2>2
  <2> QED
    BY <1>10, <2>1, <2>2 DEF Resume
<1>11. CASE ResetState \/ UNCHANGED ctlVars
  BY <1>2, <1>11 DEF ResetState, ctlVars, panelVars
<1>12. CASE PanelRestart
  BY <1>12 DEF PanelRestart
<1> QED
  BY <1>3, <1>4, <1>5, <1>6, <1>7, <1>8, <1>9, <1>10, <1>11, <1>12 DEF CtlNext

LEMMA EscalationInit == CtlInit => EscalationPending
  BY DEF CtlInit, EscalationPending

(* What StopEnds and VictimDies need of the timers: while the status is    *)
(* "stopping" a call is there whose next timeout or exit ends the stop.    *)
THEOREM StopHasTimer == CtlSpec => []EscalationPending
<1>1. CtlInv => CtlTypeOK
  BY DEF CtlInv
<1> QED
  BY <1>1, EscalationInit, EscalationStep, CtlInvAlways, PTL DEF CtlSpec

(* A wait for the exit of a victim ends when the victim is dead or has     *)
(* been sent SIGKILL, whatever starts, stops and exits overlap with it;    *)
(* else the panel itself died.                                             *)
WaitEndsWithVictim ==
    \A c \in calls :
        c.wait = "term" /\ c \notin calls' =>
            \/ ~IsProcessRunning(c.victim)
            \/ c.victim \in doomed'
            \/ watched' = {} /\ calls' = {}

THEOREM VictimSeenDead == CtlSpec => [][WaitEndsWithVictim]_ctlVars
<1>1. ASSUME EscalationPending, [CtlNext]_ctlVars
      PROVE  [WaitEndsWithVictim]_ctlVars
  <2> SUFFICES ASSUME CtlNext, NEW c \in calls, c.wait = "term", c \notin calls'
               PROVE  \/ ~IsProcessRunning(c.victim)
                      \/ c.victim \in doomed'
                      \/ watched' = {} /\ calls' = {}
    BY <1>1 DEF WaitEndsWithVictim
  <2>1. ASSUME NEW p \in Procs, ExitEvent(p) PROVE ~IsProcessRunning(c.victim)
    BY <1>1, <2>1 DEF ExitEvent, EscalationPending
  <2>2. ASSUME NEW d \in calls, TermTimeout(d) PROVE c.victim \in doomed'
    BY <2>2 DEF TermTimeout
  <2>3. ASSUME NEW d \in calls, KillTimeout(d) \/ JoinTimeout(d) PROVE FALSE
    BY <2>3 DEF KillTimeout, JoinTimeout
  <2>4. CASE PanelRestart
    BY <2>4 DEF PanelRestart
  <2>5. ASSUME NEW p \in Procs, StartRunner(p) \/ RunnerStep(p) PROVE FALSE
    BY <2>5 DEF StartRunner, Spawn, RunnerStep, panelVars
  <2>6. ASSUME NEW graceful \in BOOLEAN, NEW again \in BOOLEAN, StopRunner(graceful, again)
        PROVE  FALSE
    BY <2>6 DEF StopRunner
  <2>7. CASE Resume \/ ResetState
    BY <2>7 DEF Resume, Spawn, ResetState
  <2> QED
    BY <2>1, <2>2, <2>3, <2>4, <2>5, <2>6, <2>7 DEF CtlNext
<1> QED
  BY <1>1, StopHasTimer, PTL DEF CtlSpec
=============================================================================
