------------------------------ MODULE AnvilPool ------------------------------
(***************************************************************************)
(* The panel's pool of forked chains: panel/src/server/sim/anvil-pool.ts.  *)
(*                                                                         *)
(* Callers share one anvil process per chain.  acquire awaits three times  *)
(* on the way to a new one: for the victim of the eviction to end, for the *)
(* process to listen, and for the calls that set the fork up.  Between     *)
(* those, other callers look up, evict and spawn, processes die, and the   *)
(* panel is told to end, ends or is killed.  A panel that ended is started *)
(* again, with a pool that knows of no fork.                               *)
(*                                                                         *)
(* The continuations of everyone who awaits one spawn run in one drain of  *)
(* the microtask queue, so they are one step.  Time is not modelled: the   *)
(* oldest slot may be any, and a timer that is armed may fire.             *)
(***************************************************************************)
EXTENDS Naturals, FiniteSets

CONSTANTS
    Chains,
    Callers,  \* those who simulate at once
    Procs,    \* processes; one that nothing refers to stands for a new one
    MaxLive,  \* SIM_ANVIL_MAX_LIVE
    None

ASSUME PoolAssumption ==
    /\ IsFiniteSet(Chains)
    /\ IsFiniteSet(Callers) /\ Callers # {}
    /\ IsFiniteSet(Procs)
    /\ MaxLive \in Nat \ {0}
    /\ None \notin Chains \cup Procs

VARIABLES
    slots,  \* this.slots: the process of a chain
    idle,   \* armed idle timers, with the slot and chain they close over
    proc,   \* the operating system's view: "none" has exited or is new
    call,   \* where each caller is in acquire
    down    \* shutdown: "no", "closing" (awaits its kills), "closed"

poolVars == <<slots, idle, proc, call, down>>

(* A caller in one of these three is the entry of this.spawning. *)
Spawning == {"evicting", "starting", "probing"}
Places == {"idle", "asked", "waiting", "using", "failed"} \cup Spawning

Call == [at : Places, chain : Chains \cup {None}, fork : Procs \cup {None}]
At(place, chain, fork) == [at |-> place, chain |-> chain, fork |-> fork]

PoolTypeOK ==
    /\ slots \in [Chains -> Procs \cup {None}]
    /\ idle \subseteq Procs \X Chains
    /\ proc \in [Procs -> {"none", "starting", "up", "killed"}]
    /\ call \in [Callers -> Call]
    /\ down \in {"no", "closing", "closed"}

PoolInit ==
    /\ slots = [h \in Chains |-> None]
    /\ idle = {}
    /\ proc = [p \in Procs |-> "none"]
    /\ call = [c \in Callers |-> At("idle", None, None)]
    /\ down = "no"

Live == {h \in Chains : slots[h] # None}
Spawners == {c \in Callers : call[c].at \in Spawning}
Spawner(h) == {c \in Spawners : call[c].chain = h}
Waiters(h) == {c \in Callers : call[c].at = "waiting" /\ call[c].chain = h}

(* Processes that run and were not killed. *)
Running == {p \in Procs : proc[p] \in {"starting", "up"}}
Filed == {p \in Procs : \E h \in Chains : slots[h] = p}

Unused(p) ==
    /\ proc[p] = "none"
    /\ \A h \in Chains : slots[h] # p /\ <<p, h>> \notin idle
    /\ \A c \in Callers : call[c].fork # p

WithoutTimer(p) == {t \in idle : t[1] # p}

(* kill() marks a process that still runs. *)
Killed(p) == [proc EXCEPT ![p] = IF @ = "none" THEN @ ELSE "killed"]
-----------------------------------------------------------------------------
(* acquire, up to its first await. *)
Acquire(c, h) ==
    /\ call[c].at = "idle"
    /\ call' = [call EXCEPT ![c] = IF down = "no" THEN At("asked", h, None)
                                                  ELSE At("failed", None, None)]
    /\ UNCHANGED <<slots, idle, proc, down>>

(* acquire finds the slot of the chain and touches it. *)
Hit(c) ==
    /\ call[c].at = "asked"
    /\ LET h == call[c].chain
       IN  /\ slots[h] # None
           /\ idle' = idle \cup {<<slots[h], h>>}
           /\ call' = [call EXCEPT ![c] = At("using", None, slots[h])]
    /\ UNCHANGED <<slots, proc, down>>

(* It joins a spawn under way. *)
Join(c) ==
    /\ call[c].at = "asked"
    /\ slots[call[c].chain] = None
    /\ Spawner(call[c].chain) # {}
    /\ call' = [call EXCEPT ![c].at = "waiting"]
    /\ UNCHANGED <<slots, idle, proc, down>>

(* It spawns: there is room, *)
Begin(c) ==
    /\ call[c].at = "asked"
    /\ slots[call[c].chain] = None
    /\ Spawner(call[c].chain) = {}
    /\ Cardinality(Live) < MaxLive
    /\ call' = [call EXCEPT ![c].at = "evicting"]
    /\ UNCHANGED <<slots, idle, proc, down>>

Evict_OneTooMany(c, v) ==
    /\ call[c].at = "asked"
    /\ slots[call[c].chain] = None
    /\ Spawner(call[c].chain) = {}
    /\ slots[v] # None
    /\ IF Cardinality(Live) > MaxLive
       THEN /\ slots' = [slots EXCEPT ![v] = None]
            /\ idle' = WithoutTimer(slots[v])
            /\ proc' = Killed(slots[v])
       ELSE UNCHANGED <<slots, idle, proc>>
    /\ call' = [call EXCEPT ![c].at = "evicting"]
    /\ UNCHANGED down

(* or the oldest slot, v, goes first (evictOldestIfNeeded and killSlot).   *)
(* spawnSlot goes on when it has exited or after two seconds.              *)
Evict(c, v) ==
    /\ call[c].at = "asked"
    /\ slots[call[c].chain] = None
    /\ Spawner(call[c].chain) = {}
    /\ Cardinality(Live) >= MaxLive
    /\ slots[v] # None
    /\ slots' = [slots EXCEPT ![v] = None]
    /\ idle' = WithoutTimer(slots[v])
    /\ proc' = Killed(slots[v])
    /\ call' = [call EXCEPT ![c].at = "evicting"]
    /\ UNCHANGED down

SpawnFork(c) ==
    /\ call[c].at = "evicting"
    /\ \E p \in Procs : Unused(p)
    /\ LET p == CHOOSE q \in Procs : Unused(q)
       IN  /\ proc' = [proc EXCEPT ![p] = "starting"]
           /\ call' = [call EXCEPT ![c] = At("starting", call[c].chain, p)]
    /\ UNCHANGED <<slots, idle, down>>

(* "Listening on ..." *)
Listening(c) ==
    /\ call[c].at = "starting"
    /\ proc[call[c].fork] = "starting"
    /\ proc' = [proc EXCEPT ![call[c].fork] = "up"]
    /\ call' = [call EXCEPT ![c].at = "probing"]
    /\ UNCHANGED <<slots, idle, down>>

(* Everyone who awaits the spawn of c gets the same answer. *)
Answer(c, place, fork) ==
    LET h == call[c].chain
    IN  [d \in Callers |-> IF d = c \/ d \in Waiters(h) THEN At(place, None, fork)
                                                        ELSE call[d]]

NoEndpoint(c) ==
    /\ call[c].at = "evicting"
    /\ call' = Answer(c, "failed", None)
    /\ UNCHANGED <<slots, idle, proc, down>>

FailSpawn_NoKill(c) ==
    /\ call[c].at = "starting"
    /\ call' = Answer(c, "failed", None)
    /\ UNCHANGED <<slots, idle, proc, down>>

(* The start times out, or the process exits or cannot be started. *)
FailSpawn(c) ==
    /\ call[c].at = "starting"
    /\ \E state \in {"none", "killed"} : proc' = [proc EXCEPT ![call[c].fork] = state]
    /\ call' = Answer(c, "failed", None)
    /\ UNCHANGED <<slots, idle, down>>

(* The set-up is done; the exit handler is registered only now, and the    *)
(* slot goes into the map whether its process still runs or not.           *)
Insert(c) ==
    /\ call[c].at = "probing"
    /\ LET h == call[c].chain
           p == call[c].fork
       IN  /\ slots' = [slots EXCEPT ![h] = p]
           /\ idle' = idle \cup {<<p, h>>}
           /\ call' = Answer(c, "using", p)
    /\ UNCHANGED <<proc, down>>

(* The caller is done with the instance it got, or with the failure. *)
Release(c) ==
    /\ call[c].at \in {"using", "failed"}
    /\ call' = [call EXCEPT ![c] = At("idle", None, None)]
    /\ UNCHANGED <<slots, idle, proc, down>>

(* A process exits, killed or not; the exit handler looks for its slot. *)
Exit(p) ==
    /\ proc[p] \in {"up", "killed"}
    /\ proc' = [proc EXCEPT ![p] = "none"]
    /\ slots' = [h \in Chains |-> IF slots[h] = p THEN None ELSE slots[h]]
    /\ idle' = IF \E h \in Chains : slots[h] = p THEN WithoutTimer(p) ELSE idle
    /\ UNCHANGED <<call, down>>

(* Nobody acquired the slot for IDLE_MS. *)
IdleTimeout(p, h) ==
    /\ <<p, h>> \in idle
    /\ idle' = WithoutTimer(p)
    /\ slots' = [slots EXCEPT ![h] = None]
    /\ proc' = Killed(p)
    /\ UNCHANGED <<call, down>>

(* The panel gets SIGINT or SIGTERM, whose handler does not end it:        *)
(* shutdown kills what is in the map, waits for it,                        *)
Shutdown ==
    /\ down = "no"
    /\ down' = "closing"
    /\ idle' = {t \in idle : \A h \in Chains : slots[h] # t[1]}
    /\ proc' = [p \in Procs |->
                   IF proc[p] # "none" /\ p \in Filed THEN "killed" ELSE proc[p]]
    /\ UNCHANGED <<slots, call>>

(* and clears the map, with what was spawned meanwhile. *)
Clear ==
    /\ down = "closing"
    /\ down' = "closed"
    /\ slots' = [h \in Chains |-> None]
    /\ UNCHANGED <<idle, proc, call>>

(* What runs on when the panel ends now: process.exit gets as far in       *)
(* shutdown as to send SIGTERM to what is in the map; a kill runs nothing. *)
LeftByExit == Running \ Filed
LeftByKill == Running

(* The panel ends, with all its timers, and another starts with an empty   *)
(* pool.  What the first left running is no panel's any more.              *)
PanelEnds ==
    /\ slots' = [h \in Chains |-> None]
    /\ idle' = {}
    /\ proc' = [p \in Procs |-> "none"]
    /\ call' = [c \in Callers |-> At("idle", None, None)]
    /\ down' = "no"

(* The steps of the pool; Acquire and Release are its callers'. *)
PoolStep(c) ==
    \/ Hit(c) \/ Join(c)
    \/ Begin(c) \/ (\E v \in Chains : Evict(c, v))
    \/ SpawnFork(c) \/ NoEndpoint(c)
    \/ Listening(c) \/ FailSpawn(c)
    \/ Insert(c)

PoolEvent ==
    \/ \E p \in Procs : Exit(p)
    \/ \E p \in Procs, h \in Chains : IdleTimeout(p, h)
    \/ Shutdown
    \/ Clear

PoolNext ==
    \/ PoolEvent
    \/ PanelEnds
    \/ \E c \in Callers : PoolStep(c) \/ Release(c) \/ (\E h \in Chains : Acquire(c, h))
-----------------------------------------------------------------------------
(* "We cap MAX_LIVE concurrent forks" (anvil-pool.ts:6): the check comes   *)
(* before the awaits and the insertion after them, so that spawns that     *)
(* overlap exceed the cap, each caller but one by at most one fork.        *)
PoolBounded ==
    Cardinality(Live) + Cardinality(Spawners) <= MaxLive + Cardinality(Callers) - 1

(* No fork is forgotten: while the panel lives, a fork of its own that runs *)
(* and was not killed is being set up, or is in the map with an idle timer *)
(* that will kill it, whatever evictions, failed starts and exits come in  *)
(* between; after a shutdown the timer alone is left of what was inserted  *)
(* meanwhile.  And whenever the panel ends, process.exit leaves at most    *)
(* one fork for each caller behind, a kill as many as the pool can hold.   *)
NoForkForgotten ==
    /\ \A p \in Running :
          \/ \E c \in Callers : call[c].at \in {"starting", "probing"} /\ call[c].fork = p
          \/ \E h \in Chains : <<p, h>> \in idle /\ (down = "closed" \/ slots[h] = p)
    /\ Cardinality(LeftByExit) <= Cardinality(Callers)
    /\ Cardinality(LeftByKill) <= MaxLive + Cardinality(Callers) - 1
=============================================================================
