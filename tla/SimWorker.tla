------------------------------ MODULE SimWorker ------------------------------
(***************************************************************************)
(* The simulation worker (panel/src/server/sim/worker.ts) over the pool of *)
(* forks and the findings table (findings-store.ts, prune-job.ts).         *)
(*                                                                         *)
(* A tick picks findings without a verdict, awaits what their contracts    *)
(* hold, and has the rest simulated group by group, one group at a time    *)
(* (SIM_CONCURRENCY is 1 by default).  While it awaits, findings are       *)
(* ingested again, which resets their verdict, or pruned, others use the   *)
(* pool, and the panel ends and is started again.                          *)
(***************************************************************************)
EXTENDS AnvilPool

CONSTANTS
    Findings,
    Codes,
    Results,    \* what a simulation answers: verdicts, failures, skips
    CodeOf,     \* the bytecode of a finding; its rule is one
    ChainOf,    \* its chain
    Manual,     \* the findings of manual audits
    Worker,     \* the worker as a caller of the pool
    BatchSize,  \* SIM_BATCH_SIZE
    MaxTimers,  \* bound: timers that are counted
    MaxIngests  \* bound: ingestions

ASSUME WorkerAssumption ==
    /\ CodeOf \in [Findings -> Codes]
    /\ ChainOf \in [Findings -> Chains]
    /\ Manual \subseteq Findings
    /\ Worker \in Callers
    /\ IsFiniteSet(Findings)
    /\ BatchSize \in Nat \ {0} /\ MaxTimers \in Nat \ {0}
    /\ MaxIngests \in Nat
    /\ Results # {} /\ "absent" \notin Results /\ "none" \notin Results

VARIABLES
    verdict,  \* the row of a finding: "absent", no verdict ("none"), or one
    cache,    \* simulation_cache
    armed,    \* how many timers are armed
    tick,     \* where the running tick is, or "off"
    batch,    \* what it has yet to settle
    group,    \* the group being simulated, empty for none
    ingests

workerVars == <<verdict, cache, armed, tick, batch, group, ingests>>
vars == <<poolVars, workerVars>>

Pending == {f \in Findings : verdict[f] = "none"}
Alike(S, b) == {f \in S : CodeOf[f] = b}

TypeOK ==
    /\ PoolTypeOK
    /\ verdict \in [Findings -> {"absent", "none"} \cup Results]
    /\ cache \in [Codes -> {"none"} \cup Results]
    /\ armed \in 0 .. MaxTimers
    /\ tick \in {"off", "exposure", "groups"}
    /\ batch \subseteq Findings
    /\ group \subseteq batch
    /\ ingests \in 0 .. MaxIngests

(* The panel starts with the rows that an earlier one left.                *)
Init ==
    /\ PoolInit
    /\ verdict \in [Findings -> {"absent", "none"}]
    /\ cache = [b \in Codes |-> "none"]
    /\ armed = 1
    /\ tick = "off"
    /\ batch = {}
    /\ group = {}
    /\ ingests = 0

(* UPDATE findings ... WHERE id = ?: a row that is gone stays gone. *)
Updated(S, v) == [f \in Findings |-> IF f \in S /\ verdict[f] # "absent" THEN v ELSE verdict[f]]

-----------------------------------------------------------------------------
(* INSERT OR REPLACE: a row without the columns of a simulation, which     *)
(* changes nothing of one that has no verdict.                             *)
Ingest(f) ==
    /\ verdict[f] # "none"
    /\ ingests < MaxIngests
    /\ ingests' = ingests + 1
    /\ verdict' = [verdict EXCEPT ![f] = "none"]
    /\ UNCHANGED <<poolVars, cache, armed, tick, batch, group>>

(* runPrune keeps the findings of manual audits. *)
Prune(f) ==
    /\ f \notin Manual
    /\ verdict[f] # "absent"
    /\ verdict' = [verdict EXCEPT ![f] = "absent"]
    /\ UNCHANGED <<poolVars, cache, armed, tick, batch, group, ingests>>

(* pickBatch: manual findings first, up to the limit. *)
Batches ==
    {S \in SUBSET Pending :
        /\ Cardinality(S) <= BatchSize
        /\ S # Pending => Cardinality(S) = BatchSize
        /\ S \subseteq Manual \/ Pending \cap Manual \subseteq S}

(* n more timers, those past the bound left out. *)
Scheduled(n) == IF armed + n <= MaxTimers THEN armed + n ELSE MaxTimers

(* A timer fires while no tick runs (during one, it only arms another).    *)
(* An empty tick schedules in its early return and again in finally, so    *)
(* that there are two timers for the one that fired.                       *)
Tick ==
    /\ armed > 0
    /\ tick = "off"
    /\ \E S \in Batches :
          /\ batch' = S
          /\ armed' = IF S = {} THEN Scheduled(1) ELSE armed - 1
          /\ tick' = CASE S = {} -> "off"
                       [] S # {} /\ S \subseteq Manual -> "groups"
                       [] OTHER -> "exposure"
    /\ UNCHANGED <<poolVars, verdict, cache, group, ingests>>

(* The exposure lookup answers: some of the runner's findings are not      *)
(* worth a simulation.  When all are, it ends like an empty tick.          *)
Expose(S) ==
    /\ tick = "exposure"
    /\ S \subseteq batch \ Manual
    /\ \E v \in Results : verdict' = Updated(S, v)
    /\ batch' = batch \ S
    /\ IF batch' = {}
       THEN tick' = "off" /\ armed' = Scheduled(2)
       ELSE tick' = "groups" /\ UNCHANGED armed
    /\ UNCHANGED <<poolVars, cache, group, ingests>>

(* handleGroup, from the cache: not for a group with a manual finding. *)
FromCache(b) ==
    /\ tick = "groups"
    /\ group = {}
    /\ Alike(batch, b) # {}
    /\ Alike(batch, b) \cap Manual = {}
    /\ cache[b] # "none"
    /\ verdict' = Updated(Alike(batch, b), cache[b])
    /\ batch' = batch \ Alike(batch, b)
    /\ UNCHANGED <<poolVars, cache, armed, tick, group, ingests>>

(* handleGroup, to the verifier: it acquires the chain of the first.       *)
Simulate(f) ==
    /\ tick = "groups"
    /\ group = {}
    /\ f \in batch
    /\ \/ Alike(batch, CodeOf[f]) \cap Manual # {}
       \/ cache[CodeOf[f]] = "none"
    /\ group' = Alike(batch, CodeOf[f])
    /\ Acquire(Worker, ChainOf[f])
    /\ UNCHANGED <<verdict, cache, armed, tick, batch, ingests>>

(* The verdict goes into the cache, errors too, to the group, and to every *)
(* other finding of the bytecode that has none.                            *)
Settle(b, v) ==
    /\ group # {}
    /\ group = Alike(batch, b)
    /\ call[Worker].at \in {"using", "failed"}
    /\ Release(Worker)
    /\ cache' = [cache EXCEPT ![b] = v]
    /\ verdict' = Updated(group \cup Alike(Pending, b), v)
    /\ batch' = batch \ group
    /\ group' = {}
    /\ UNCHANGED <<armed, tick, ingests>>

EndTick_NoFinally ==
    /\ tick = "groups"
    /\ batch = {}
    /\ tick' = "off"
    /\ UNCHANGED <<poolVars, verdict, cache, armed, batch, group, ingests>>

(* finally *)
EndTick ==
    /\ tick = "groups"
    /\ batch = {}
    /\ tick' = "off"
    /\ armed' = Scheduled(1)
    /\ UNCHANGED <<poolVars, verdict, cache, batch, group, ingests>>

(* The panel ends and is started again: startIfNeeded gives what waits for *)
(* a verdict the one in the cache, a manual finding too, and schedules.    *)
PanelRestarts ==
    /\ PanelEnds
    /\ verdict' = [f \in Findings |->
                      IF f \in Pending /\ cache[CodeOf[f]] # "none"
                      THEN cache[CodeOf[f]] ELSE verdict[f]]
    /\ armed' = 1
    /\ tick' = "off"
    /\ batch' = {}
    /\ group' = {}
    /\ UNCHANGED <<cache, ingests>>

(* Everyone else who uses the pool, on demand. *)
OnDemand(c) ==
    /\ c # Worker
    /\ (\E h \in Chains : Acquire(c, h)) \/ Release(c)
    /\ UNCHANGED workerVars

WorkerStep ==
    \/ Tick
    \/ \E S \in SUBSET batch : Expose(S)
    \/ \E b \in Codes : FromCache(b)
    \/ \E f \in Findings : Simulate(f)
    \/ \E b \in Codes, v \in Results : Settle(b, v)
    \/ EndTick

PoolWork(c) == PoolStep(c) /\ UNCHANGED workerVars

Next ==
    \/ WorkerStep
    \/ \E f \in Findings : Ingest(f) \/ Prune(f)
    \/ \E c \in Callers : PoolWork(c) \/ OnDemand(c)
    \/ PoolEvent /\ UNCHANGED workerVars
    \/ PanelRestarts

(* Timers fire and awaits return: the lookup and the verifiers have time   *)
(* limits, and a spawn listens or fails within its own.                    *)
Fairness ==
    /\ WF_vars(WorkerStep)
    /\ \A c \in Callers : WF_vars(PoolWork(c))

Spec == Init /\ [][Next]_vars /\ Fairness
-----------------------------------------------------------------------------
(* A finding that waits for a verdict gets one or is pruned, whatever      *)
(* happens to the forks and to the row meanwhile: the worker never falls   *)
(* asleep with findings to settle ("simulation_status IS NULL" is picked   *)
(* up by a later tick), and no wait for a fork lasts for ever.  It may take *)
(* any number of restarts of the panel, but the last one has to stay up.   *)
FindingsSettle ==
    <>[][~PanelRestarts]_vars =>
        \A f \in Findings : verdict[f] = "none" ~> verdict[f] # "none"

(* The worker only acquires and releases: the pool is that of AnvilPool.   *)
PoolSpec == PoolInit /\ [][PoolNext]_poolVars
=============================================================================
