-------------------------- MODULE SimWorker_proofs --------------------------
(***************************************************************************)
(* Proofs about the pool of forks under the simulation worker, for any     *)
(* number of chains, callers, findings and processes.  The worker only     *)
(* acquires and releases (Composition), so that what the pool keeps on its *)
(* own it keeps under the worker.                                          *)
(***************************************************************************)
EXTENDS SimWorker, FiniteSetTheorems, TLAPS

Holding(c) == call[c].at \in {"starting", "probing"}

(* Where a call is determines what it carries. *)
CallsInv ==
    /\ \A c \in Callers : call[c].at \in {"asked", "waiting"} \cup Spawning => call[c].chain \in Chains
    /\ \A c \in Callers : Holding(c) => call[c].fork \in Procs

(* A chain that is being spawned has no slot and one spawner, with a fork  *)
(* of its own.                                                             *)
SpawnInv ==
    /\ \A c \in Callers : call[c].at \in Spawning => slots[call[c].chain] = None
    /\ \A c, d \in Callers :
           /\ call[c].at \in Spawning
           /\ call[d].at \in Spawning
           /\ call[c].chain = call[d].chain
           => c = d
    /\ \A c, d \in Callers : Holding(c) /\ Holding(d) /\ call[c].fork = call[d].fork => c = d

(* Until a shutdown ends, an idle timer is that of the slot in the map. *)
TimerInv == down # "closed" => \A t \in idle : slots[t[2]] = t[1]

(* A fork that runs is being set up, or its own timer is armed. *)
ForksInHand ==
    \A p \in Procs :
        proc[p] \in {"starting", "up"} =>
            \/ \E c \in Callers : Holding(c) /\ call[c].fork = p
            \/ \E h \in Chains : <<p, h>> \in idle /\ (down = "closed" \/ slots[h] = p)

(* From a shutdown on, what runs was spawned by callers who were past the  *)
(* check then: the rest of them have no fork yet.                          *)
Forkless == {c \in Callers : call[c].at \in {"asked", "evicting"}}
CloseInv ==
    down # "no" =>
        Cardinality(Running) + Cardinality(Forkless) <= Cardinality(Callers)

PoolInv ==
    PoolTypeOK /\ CallsInv /\ SpawnInv /\ TimerInv /\ ForksInHand /\ CloseInv
-----------------------------------------------------------------------------
LEMMA InitPool == PoolInit => PoolInv
  BY PoolAssumption
     DEF PoolInit, PoolInv, PoolTypeOK, CallsInv, SpawnInv, TimerInv, ForksInHand, CloseInv,
         Call, At, Places, Spawning, Spawners, Holding

(* A call that is answered with an instance or a failure. *)
LEMMA AnswerType ==
    ASSUME PoolTypeOK, NEW c \in Callers, NEW place \in {"using", "failed"},
           NEW fork \in Procs \cup {None}
    PROVE  /\ Answer(c, place, fork) \in [Callers -> Call]
           /\ \A d \in Callers :
                  Answer(c, place, fork)[d].at # place =>
                      Answer(c, place, fork)[d] = call[d] /\ d # c
  BY DEF Answer, PoolTypeOK, Call, At, Places

(* None of them is on its way to a fork any more. *)
LEMMA AnswerLeaves ==
    ASSUME PoolTypeOK, NEW c \in Callers,
           \/ call' = Answer(c, "failed", None)
           \/ call' = Answer(c, "using", call[c].fork) /\ call[c].fork \in Procs
    PROVE  \A d \in Callers :
               call'[d].at \in {"asked", "waiting"} \cup Spawning => call'[d] = call[d] /\ d # c
<1>1. CASE call' = Answer(c, "failed", None)
  BY <1>1, AnswerType DEF Spawning
<1>2. CASE call' = Answer(c, "using", call[c].fork) /\ call[c].fork \in Procs
  BY <1>2, AnswerType DEF Spawning
<1> QED
  BY <1>1, <1>2

LEMMA AnswerKeeps ==
    ASSUME PoolTypeOK, NEW c \in Callers, NEW place, NEW fork,
           call' = Answer(c, place, fork)
    PROVE  \A d \in Callers : Holding(d) /\ d # c => call'[d] = call[d]
  BY DEF Answer, Waiters, Holding

LEMMA NextTypes ==
    ASSUME PoolTypeOK, CallsInv, [PoolNext]_poolVars
    PROVE  PoolTypeOK'
<1> USE DEF PoolTypeOK, Call, At, Places, Spawning
<1>1. ASSUME NEW c \in Callers, PoolStep(c) PROVE PoolTypeOK'
  <2>1. CASE Hit(c)
    <3>1. call[c].chain \in Chains
      BY <2>1 DEF Hit, CallsInv
    <3> QED
      BY <2>1, <3>1 DEF Hit
  <2>2. CASE Join(c)
    BY <2>2 DEF Join
  <2>3. CASE Begin(c)
    BY <2>3 DEF Begin
  <2>4. ASSUME NEW v \in Chains, Evict(c, v) PROVE PoolTypeOK'
    BY <2>4 DEF Evict, WithoutTimer, Killed
  <2>5. CASE SpawnFork(c)
    <3> DEFINE p == CHOOSE q \in Procs : Unused(q)
    <3>1. p \in Procs
      BY <2>5 DEF SpawnFork
    <3>2. /\ proc' = [proc EXCEPT ![p] = "starting"]
          /\ call' = [call EXCEPT ![c] = At("starting", call[c].chain, p)]
          /\ UNCHANGED <<slots, idle, down>>
      BY <2>5 DEF SpawnFork
    <3> HIDE DEF p
    <3> QED
      BY <3>1, <3>2
  <2>6. CASE NoEndpoint(c)
    BY <2>6, AnswerType DEF NoEndpoint
  <2>7. CASE Listening(c)
    BY <2>7 DEF Listening
  <2>8. CASE FailSpawn(c)
    <3>1. PICK state \in {"none", "killed"} : proc' = [proc EXCEPT ![call[c].fork] = state]
      BY <2>8 DEF FailSpawn
    <3>2. call' \in [Callers -> Call]
      BY <2>8, AnswerType DEF FailSpawn
    <3>3. UNCHANGED <<slots, idle, down>>
      BY <2>8 DEF FailSpawn
    <3>4. proc' \in [Procs -> {"none", "starting", "up", "killed"}]
      BY <3>1
    <3> QED
      BY <3>2, <3>3, <3>4
  <2>9. CASE Insert(c)
    <3>1. call[c].chain \in Chains /\ call[c].fork \in Procs
      BY <2>9 DEF Insert, CallsInv, Holding
    <3>2. call' \in [Callers -> Call]
      BY <2>9, <3>1, AnswerType DEF Insert
    <3>3. /\ slots' = [slots EXCEPT ![call[c].chain] = call[c].fork]
          /\ idle' = idle \cup {<<call[c].fork, call[c].chain>>}
          /\ UNCHANGED <<proc, down>>
      BY <2>9 DEF Insert
    <3> QED
      BY <3>1, <3>2, <3>3
  <2> QED
    BY <1>1, <2>1, <2>2, <2>3, <2>4, <2>5, <2>6, <2>7, <2>8, <2>9 DEF PoolStep
<1>2. ASSUME NEW c \in Callers, Release(c) \/ \E h \in Chains : Acquire(c, h)
      PROVE  PoolTypeOK'
  BY <1>2 DEF Release, Acquire
<1>3. ASSUME NEW p \in Procs, Exit(p) PROVE PoolTypeOK'
  BY <1>3 DEF Exit, WithoutTimer
<1>4. ASSUME NEW p \in Procs, NEW h \in Chains, IdleTimeout(p, h) PROVE PoolTypeOK'
  BY <1>4 DEF IdleTimeout, WithoutTimer, Killed
<1>5. CASE Shutdown
  BY <1>5 DEF Shutdown
<1>6. CASE Clear
  BY <1>6 DEF Clear
<1>7. CASE UNCHANGED poolVars
  BY <1>7 DEF poolVars
<1>8. CASE PanelEnds
  BY <1>8 DEF PanelEnds, At
<1> QED
  BY <1>1, <1>2, <1>3, <1>4, <1>5, <1>6, <1>7, <1>8 DEF PoolNext, PoolEvent
(* The steps of a call keep what it carries. *)
LEMMA NextCalls ==
    ASSUME PoolTypeOK, CallsInv, [PoolNext]_poolVars
    PROVE  CallsInv'
<1> USE DEF PoolTypeOK, Call, At, Places, Spawning, CallsInv, Holding
<1>1. ASSUME NEW c \in Callers, PoolStep(c) PROVE CallsInv'
  <2>1. CASE Hit(c)
    BY <2>1 DEF Hit
  <2>2. CASE Join(c)
    BY <2>2 DEF Join
  <2>3. CASE Begin(c)
    BY <2>3 DEF Begin
  <2>4. ASSUME NEW v \in Chains, Evict(c, v) PROVE CallsInv'
    BY <2>4 DEF Evict
  <2>5. CASE SpawnFork(c)
    <3> DEFINE p == CHOOSE q \in Procs : Unused(q)
    <3>1. p \in Procs
      BY <2>5 DEF SpawnFork
    <3>2. call' = [call EXCEPT ![c] = At("starting", call[c].chain, p)]
      BY <2>5 DEF SpawnFork
    <3>3. call[c].chain \in Chains
      BY <2>5 DEF SpawnFork
    <3> HIDE DEF p
    <3> QED
      BY <3>1, <3>2, <3>3
  <2>6. CASE NoEndpoint(c)
    BY <2>6, AnswerLeaves DEF NoEndpoint
  <2>7. CASE Listening(c)
    BY <2>7 DEF Listening
  <2>8. CASE FailSpawn(c)
    BY <2>8, AnswerLeaves DEF FailSpawn
  <2>9. CASE Insert(c)
    <3>1. call' = Answer(c, "using", call[c].fork) /\ call[c].fork \in Procs
      BY <2>9 DEF Insert
    <3> QED
      BY <3>1, AnswerLeaves
  <2> QED
    BY <1>1, <2>1, <2>2, <2>3, <2>4, <2>5, <2>6, <2>7, <2>8, <2>9 DEF PoolStep
<1>2. ASSUME NEW c \in Callers, Release(c) \/ \E h \in Chains : Acquire(c, h)
      PROVE  CallsInv'
  BY <1>2 DEF Release, Acquire
<1>3. CASE PoolEvent \/ UNCHANGED poolVars
  BY <1>3 DEF PoolEvent, Exit, IdleTimeout, Shutdown, Clear, poolVars
<1>4. CASE PanelEnds
  BY <1>4 DEF PanelEnds, At
<1> QED
  BY <1>1, <1>2, <1>3, <1>4 DEF PoolNext

(* A chain has one spawner: who finds another one joins it. *)
LEMMA NextSpawn ==
    ASSUME PoolTypeOK, CallsInv, SpawnInv, [PoolNext]_poolVars
    PROVE  SpawnInv'
<1> USE PoolAssumption DEF PoolTypeOK, Call, At, Places, Spawning, SpawnInv, Holding
<1>1. ASSUME NEW c \in Callers, PoolStep(c) PROVE SpawnInv'
  <2>1. CASE Hit(c)
    BY <2>1 DEF Hit
  <2>2. CASE Join(c)
    BY <2>2 DEF Join
  <2>3. CASE Begin(c)
    BY <2>3 DEF Begin, Spawner, Spawners
  <2>4. ASSUME NEW v \in Chains, Evict(c, v) PROVE SpawnInv'
    BY <2>4, CallsInv DEF Evict, Spawner, Spawners, CallsInv
  <2>5. CASE SpawnFork(c)
    <3> DEFINE p == CHOOSE q \in Procs : Unused(q)
    <3>1. p \in Procs /\ \A d \in Callers : call[d].fork # p
      BY <2>5 DEF SpawnFork, Unused
    <3>2. /\ call' = [call EXCEPT ![c] = At("starting", call[c].chain, p)]
          /\ call[c].at = "evicting"
          /\ slots' = slots
      BY <2>5 DEF SpawnFork
    <3> HIDE DEF p
    <3> QED
      BY <3>1, <3>2
  <2>6. CASE NoEndpoint(c)
    BY <2>6, AnswerLeaves DEF NoEndpoint
  <2>7. CASE Listening(c)
    BY <2>7 DEF Listening
  <2>8. CASE FailSpawn(c)
    BY <2>8, AnswerLeaves DEF FailSpawn
  <2>9. CASE Insert(c)
    <3>1. /\ call' = Answer(c, "using", call[c].fork)
          /\ call[c].fork \in Procs
          /\ slots' = [slots EXCEPT ![call[c].chain] = call[c].fork]
          /\ call[c].at = "probing"
      BY <2>9 DEF Insert, CallsInv
    <3>2. \A d \in Callers : call'[d].at \in Spawning => d # c /\ call'[d] = call[d]
      BY <3>1, AnswerLeaves
    <3>3. \A d \in Callers :
              call'[d].at \in Spawning => call[d].chain \in Chains /\ call[d].chain # call[c].chain
      BY <3>1, <3>2, CallsInv DEF CallsInv
    <3>4. \A d \in Callers : call'[d].at \in Spawning => slots'[call'[d].chain] = None
      BY <3>1, <3>2, <3>3
    <3> QED
      BY <3>2, <3>4
  <2> QED
    BY <1>1, <2>1, <2>2, <2>3, <2>4, <2>5, <2>6, <2>7, <2>8, <2>9 DEF PoolStep
<1>2. ASSUME NEW c \in Callers, Release(c) \/ \E h \in Chains : Acquire(c, h)
      PROVE  SpawnInv'
  BY <1>2 DEF Release, Acquire
<1>3. CASE PoolEvent \/ UNCHANGED poolVars
  <2>1. call' = call /\ \A h \in Chains : slots[h] = None => slots'[h] = None
    <3>1. ASSUME NEW p \in Procs, Exit(p)
          PROVE  call' = call /\ \A h \in Chains : slots[h] = None => slots'[h] = None
      BY <3>1 DEF Exit
    <3>2. ASSUME NEW p \in Procs, NEW g \in Chains, IdleTimeout(p, g)
          PROVE  call' = call /\ \A h \in Chains : slots[h] = None => slots'[h] = None
      BY <3>2 DEF IdleTimeout
    <3>3. CASE Shutdown \/ Clear \/ UNCHANGED poolVars
      BY <3>3 DEF Shutdown, Clear, poolVars
    <3> QED
      BY <1>3, <3>1, <3>2, <3>3 DEF PoolEvent
  <2> QED
    BY <2>1, CallsInv DEF CallsInv
<1>4. CASE PanelEnds
  BY <1>4 DEF PanelEnds, At
<1> QED
  BY <1>1, <1>2, <1>3, <1>4 DEF PoolNext

(* A timer goes when its slot does. *)
LEMMA NextTimer ==
    ASSUME PoolTypeOK, CallsInv, SpawnInv, TimerInv, [PoolNext]_poolVars
    PROVE  TimerInv'
<1> USE PoolAssumption DEF PoolTypeOK, TimerInv
<1>1. ASSUME NEW c \in Callers, PoolStep(c) PROVE TimerInv'
  <2>1. CASE Hit(c)
    <3>1. call[c].chain \in Chains
      BY <2>1 DEF Hit, CallsInv
    <3> QED
      BY <2>1, <3>1 DEF Hit
  <2>2. ASSUME NEW v \in Chains, Evict(c, v) PROVE TimerInv'
    BY <2>2 DEF Evict, WithoutTimer
  <2>3. CASE Insert(c)
    <3> DEFINE h == call[c].chain
               p == call[c].fork
    <3>1. /\ h \in Chains /\ p \in Procs
          /\ slots[h] = None
          /\ slots' = [slots EXCEPT ![h] = p]
          /\ idle' = idle \cup {<<p, h>>}
          /\ down' = down
      BY <2>3 DEF Insert, CallsInv, SpawnInv, Spawning, Holding
    <3> HIDE DEF h, p
    <3>2. down # "closed" => \A t \in idle : t[2] # h
      BY <3>1
    <3> QED
      BY <3>1, <3>2
  <2>4. CASE Join(c) \/ Begin(c) \/ SpawnFork(c) \/ NoEndpoint(c) \/ Listening(c) \/ FailSpawn(c)
    <3>1. UNCHANGED <<slots, idle, down>>
      BY <2>4 DEF Join, Begin, SpawnFork, NoEndpoint, Listening, FailSpawn
    <3> QED
      BY <3>1
  <2> QED
    BY <1>1, <2>1, <2>2, <2>3, <2>4 DEF PoolStep
<1>2. ASSUME NEW c \in Callers, Release(c) \/ \E h \in Chains : Acquire(c, h)
      PROVE  TimerInv'
  BY <1>2 DEF Release, Acquire
<1>3. ASSUME NEW p \in Procs, Exit(p) PROVE TimerInv'
  BY <1>3 DEF Exit, WithoutTimer
<1>4. ASSUME NEW p \in Procs, NEW h \in Chains, IdleTimeout(p, h) PROVE TimerInv'
  BY <1>4 DEF IdleTimeout, WithoutTimer
<1>5. CASE Shutdown
  BY <1>5 DEF Shutdown
<1>6. CASE Clear \/ UNCHANGED poolVars
  BY <1>6 DEF Clear, poolVars
<1>7. CASE PanelEnds
  BY <1>7 DEF PanelEnds, At
<1> QED
  BY <1>1, <1>2, <1>3, <1>4, <1>5, <1>6, <1>7 DEF PoolNext, PoolEvent

Alive(p) == proc[p] \in {"starting", "up"}
Held(p) == \E c \in Callers : Holding(c) /\ call[c].fork = p
Timed(p) == \E h \in Chains : <<p, h>> \in idle /\ (down = "closed" \/ slots[h] = p)

LEMMA ForkKnown == ForksInHand <=> \A p \in Procs : Alive(p) => Held(p) \/ Timed(p)
  BY DEF ForksInHand, Alive, Held, Timed, Holding

LEMMA NextInHand ==
    ASSUME PoolTypeOK, CallsInv, SpawnInv, TimerInv, ForksInHand, [PoolNext]_poolVars
    PROVE  ForksInHand'
<1> USE PoolAssumption DEF PoolTypeOK, Call, At, Places, Spawning, ForksInHand, Holding
<1>1. ASSUME NEW c \in Callers, PoolStep(c) PROVE ForksInHand'
  <2>1. CASE Hit(c) \/ Join(c) \/ Begin(c)
    <3>1. /\ UNCHANGED <<slots, proc, down>>
          /\ idle \subseteq idle'
          /\ \A d \in Callers : Holding(d) => call'[d] = call[d]
      BY <2>1 DEF Hit, Join, Begin, Holding
    <3> QED
      BY <3>1 DEF Holding
  <2>2. ASSUME NEW v \in Chains, Evict(c, v) PROVE ForksInHand'
    <3>1. /\ slots[v] \in Procs
          /\ down' = down
          /\ proc' = Killed(slots[v])
          /\ slots' = [slots EXCEPT ![v] = None]
          /\ idle' = WithoutTimer(slots[v])
          /\ \A d \in Callers : Holding(d) => call'[d] = call[d]
      BY <2>2 DEF Evict, Holding
    <3>2. \A p \in Procs : proc'[p] \in {"starting", "up"} => p # slots[v] /\ proc'[p] = proc[p]
      BY <3>1 DEF Killed
    <3>3. \A p \in Procs, g \in Chains :
              p # slots[v] /\ <<p, g>> \in idle => <<p, g>> \in idle' /\ (slots[g] = p => slots'[g] = p)
      BY <3>1 DEF WithoutTimer
    <3>4. ASSUME NEW p \in Procs, Alive(p)' PROVE Held(p)' \/ Timed(p)'
      <4>1. p # slots[v] /\ Alive(p)
        BY <3>2, <3>4 DEF Alive
      <4>2. CASE Held(p)
        BY <3>1, <4>2 DEF Held, Holding
      <4>3. CASE Timed(p)
        BY <3>1, <3>3, <4>1, <4>3 DEF Timed
      <4> QED
        BY <4>1, <4>2, <4>3, ForkKnown
    <3> QED
      BY <3>4 DEF ForksInHand, Alive, Held, Timed, Holding
  <2>3. CASE SpawnFork(c)
    <3> DEFINE q == CHOOSE r \in Procs : Unused(r)
    <3>1. /\ q \in Procs
          /\ UNCHANGED <<slots, idle, down>>
          /\ proc' = [proc EXCEPT ![q] = "starting"]
          /\ call' = [call EXCEPT ![c] = At("starting", call[c].chain, q)]
          /\ call[c].at = "evicting"
      BY <2>3 DEF SpawnFork
    <3> HIDE DEF q
    <3> QED
      BY <3>1
  <2>4. CASE Listening(c)
    BY <2>4 DEF Listening
  <2>5. CASE NoEndpoint(c)
    <3>1. \A d \in Callers : Holding(d) => call'[d] = call[d]
      BY <2>5, AnswerKeeps DEF NoEndpoint, Holding
    <3> QED
      BY <2>5, <3>1 DEF NoEndpoint, Holding
  <2>6. CASE FailSpawn(c)
    <3>1. \A d \in Callers : Holding(d) /\ d # c => call'[d] = call[d]
      BY <2>6, AnswerKeeps DEF FailSpawn
    <3>2. /\ call[c].fork \in Procs
          /\ UNCHANGED <<slots, idle, down>>
      BY <2>6 DEF FailSpawn, CallsInv, Holding
    <3>3. PICK state \in {"none", "killed"} : proc' = [proc EXCEPT ![call[c].fork] = state]
      BY <2>6 DEF FailSpawn
    <3>4. \A p \in Procs :
              proc'[p] \in {"starting", "up"} => p # call[c].fork /\ proc'[p] = proc[p]
      BY <3>2, <3>3
    <3>5. ASSUME NEW p \in Procs, Alive(p)' PROVE Held(p)' \/ Timed(p)'
      <4>1. p # call[c].fork /\ Alive(p)
        BY <3>4, <3>5 DEF Alive
      <4>2. CASE Held(p)
        BY <3>1, <4>1, <4>2 DEF Held, Holding
      <4>3. CASE Timed(p)
        BY <3>2, <4>3 DEF Timed
      <4> QED
        BY <4>1, <4>2, <4>3, ForkKnown
    <3> QED
      BY <3>5 DEF ForksInHand, Alive, Held, Timed, Holding
  <2>7. CASE Insert(c)
    <3> DEFINE h == call[c].chain
               q == call[c].fork
    <3>1. \A d \in Callers : Holding(d) /\ d # c => call'[d] = call[d]
      BY <2>7, AnswerKeeps DEF Insert
    <3>2. /\ h \in Chains /\ q \in Procs
          /\ slots[h] = None
          /\ slots' = [slots EXCEPT ![h] = q]
          /\ idle' = idle \cup {<<q, h>>}
          /\ UNCHANGED <<proc, down>>
      BY <2>7 DEF Insert, CallsInv, SpawnInv, Holding
    <3>3. ASSUME NEW p \in Procs, Alive(p)' PROVE Held(p)' \/ Timed(p)'
      <4>1. CASE p = q
        BY <3>2, <4>1 DEF Timed
      <4>2. CASE p # q /\ Held(p)
        BY <3>1, <4>2 DEF Held, Holding
      <4>3. CASE Timed(p)
        BY <3>2, <4>3 DEF Timed
      <4>4. Alive(p)
        BY <3>2, <3>3 DEF Alive
      <4> QED
        BY <4>1, <4>2, <4>3, <4>4, ForkKnown
    <3> QED
      BY <3>3 DEF ForksInHand, Alive, Held, Timed, Holding
  <2> QED
    BY <1>1, <2>1, <2>2, <2>3, <2>4, <2>5, <2>6, <2>7 DEF PoolStep
<1>2. ASSUME NEW c \in Callers, Release(c) \/ \E h \in Chains : Acquire(c, h)
      PROVE  ForksInHand'
  BY <1>2 DEF Release, Acquire
<1>3. ASSUME NEW p \in Procs, Exit(p) PROVE ForksInHand'
  BY <1>3 DEF Exit, WithoutTimer
<1>4. ASSUME NEW p \in Procs, NEW h \in Chains, IdleTimeout(p, h) PROVE ForksInHand'
  <2>1. \A q \in Procs : proc'[q] \in {"starting", "up"} => q # p /\ proc'[q] = proc[q]
    BY <1>4 DEF IdleTimeout, Killed
  <2>2. down # "closed" => slots[h] = p
    BY <1>4 DEF IdleTimeout, TimerInv
  <2> QED
    BY <1>4, <2>1, <2>2 DEF IdleTimeout, WithoutTimer
<1>5. CASE Shutdown
  BY <1>5 DEF Shutdown, Filed
<1>6. CASE Clear \/ UNCHANGED poolVars
  BY <1>6 DEF Clear, poolVars
<1>7. CASE PanelEnds
  BY <1>7 DEF PanelEnds, At
<1> QED
  BY <1>1, <1>2, <1>3, <1>4, <1>5, <1>6, <1>7 DEF PoolNext, PoolEvent

LEMMA Sizes ==
    /\ IsFiniteSet(Live) /\ Cardinality(Live) \in Nat
    /\ IsFiniteSet(Spawners) /\ Cardinality(Spawners) \in Nat
    /\ Cardinality(Spawners) <= Cardinality(Callers)
    /\ Cardinality(Callers) \in Nat \ {0}
<1>1. Live \subseteq Chains /\ Spawners \subseteq Callers
  BY DEF Live, Spawners
<1>2. IsFiniteSet(Live) /\ IsFiniteSet(Spawners) /\ Cardinality(Spawners) <= Cardinality(Callers)
  BY <1>1, PoolAssumption, FS_Subset
<1>3. Cardinality(Callers) # 0
  BY PoolAssumption, FS_EmptySet
<1> QED
  BY <1>2, <1>3, PoolAssumption, FS_CardinalityType

(* A set whose members are values of f on D is no larger than D. *)
LEMMA Covered ==
    ASSUME NEW D, IsFiniteSet(D), NEW f, NEW S, \A x \in S : \E d \in D : f[d] = x
    PROVE  /\ IsFiniteSet(S)
           /\ Cardinality(S) \in Nat
           /\ Cardinality(S) <= Cardinality(D)
<1> DEFINE E == {d \in D : f[d] \in S}
           g == [d \in E |-> f[d]]
<1>1. g \in Surjection(E, S)
  BY DEF Surjection
<1>2. IsFiniteSet(E) /\ Cardinality(E) <= Cardinality(D)
  BY FS_Subset
<1>3. IsFiniteSet(S) /\ Cardinality(S) <= Cardinality(E)
  BY <1>1, <1>2, FS_Surjection
<1> QED
  BY <1>2, <1>3, FS_CardinalityType

(* Forks that callers of D carry. *)
LEMMA CarriedBy ==
    ASSUME NEW D \in SUBSET Callers, NEW S, \A p \in S : \E c \in D : call[c].fork = p
    PROVE  /\ IsFiniteSet(S)
           /\ Cardinality(S) \in Nat
           /\ Cardinality(S) <= Cardinality(D)
<1> DEFINE f == [c \in D |-> call[c].fork]
<1>1. IsFiniteSet(D)
  BY PoolAssumption, FS_Subset
<1>2. \A p \in S : \E c \in D : f[c] = p
  OBVIOUS
<1> HIDE DEF f
<1> QED
  BY <1>1, <1>2, Covered

LEMMA RunningSizes ==
    /\ IsFiniteSet(Running) /\ Cardinality(Running) \in Nat
    /\ IsFiniteSet(Forkless) /\ Cardinality(Forkless) \in Nat
<1>1. Running \subseteq Procs /\ Forkless \subseteq Callers
  BY DEF Running, Forkless
<1> QED
  BY <1>1, PoolAssumption, FS_Subset, FS_CardinalityType

(* A step after which no more runs and no more will. *)
LEMMA NoMoreRuns ==
    ASSUME CloseInv, Running' \subseteq Running, Forkless' \subseteq Forkless,
           down = "no" => down' = "no"
    PROVE  CloseInv'
<1>1. /\ Cardinality(Running') \in Nat /\ Cardinality(Running') <= Cardinality(Running)
      /\ Cardinality(Forkless') \in Nat /\ Cardinality(Forkless') <= Cardinality(Forkless)
  BY RunningSizes, FS_Subset, FS_CardinalityType
<1> QED
  BY <1>1, RunningSizes, Sizes DEF CloseInv

(* After a shutdown nobody comes past the check, and who has none yet is   *)
(* counted until the fork is.                                              *)
LEMMA NextClose ==
    ASSUME PoolTypeOK, CallsInv, ForksInHand, CloseInv, [PoolNext]_poolVars
    PROVE  CloseInv'
<1> USE DEF PoolTypeOK, Call, At, Places, Spawning
<1>1. ASSUME NEW c \in Callers, PoolStep(c) PROVE CloseInv'
  <2>1. CASE Hit(c) \/ Join(c) \/ Begin(c)
    <3>1. UNCHANGED <<proc, down>> /\ Forkless' \subseteq Forkless
      BY <2>1 DEF Hit, Join, Begin, Forkless
    <3> QED
      BY <3>1, NoMoreRuns DEF Running
  <2>2. ASSUME NEW v \in Chains, Evict(c, v) PROVE CloseInv'
    <3>1. /\ down' = down
          /\ Forkless' \subseteq Forkless
          /\ Running' \subseteq Running
      BY <2>2 DEF Evict, Forkless, Running, Killed
    <3> QED
      BY <3>1, NoMoreRuns
  <2>3. CASE SpawnFork(c)
    <3> DEFINE q == CHOOSE r \in Procs : Unused(r)
    <3>1. /\ q \in Procs /\ proc[q] = "none"
          /\ down' = down
          /\ proc' = [proc EXCEPT ![q] = "starting"]
          /\ call' = [call EXCEPT ![c] = At("starting", call[c].chain, q)]
          /\ call[c].at = "evicting"
      BY <2>3 DEF SpawnFork, Unused
    <3> HIDE DEF q
    <3>2. q \notin Running /\ Running' = Running \cup {q}
      BY <3>1 DEF Running
    <3>3. c \in Forkless /\ Forkless' = Forkless \ {c}
      BY <3>1 DEF Forkless
    <3>4. Cardinality(Running') = Cardinality(Running) + 1
      BY <3>2, RunningSizes, FS_AddElement
    <3>5. Cardinality(Forkless') = Cardinality(Forkless) - 1
      BY <3>3, RunningSizes, FS_RemoveElement
    <3> QED
      BY <3>1, <3>4, <3>5, RunningSizes, Sizes DEF CloseInv
  <2>4. CASE Listening(c)
    <3>1. down' = down /\ Forkless' \subseteq Forkless /\ Running' \subseteq Running
      BY <2>4 DEF Listening, Forkless, Running
    <3> QED
      BY <3>1, NoMoreRuns
  <2>5. CASE NoEndpoint(c) \/ FailSpawn(c) \/ Insert(c)
    <3>1. Forkless' \subseteq Forkless
      <4>1. \/ call' = Answer(c, "failed", None)
            \/ call' = Answer(c, "using", call[c].fork) /\ call[c].fork \in Procs
        BY <2>5 DEF NoEndpoint, FailSpawn, Insert, CallsInv, Holding
      <4> QED
        BY <4>1, AnswerLeaves DEF Forkless
    <3>2. down' = down /\ Running' \subseteq Running
      BY <2>5 DEF NoEndpoint, FailSpawn, Insert, Running
    <3> QED
      BY <3>1, <3>2, NoMoreRuns
  <2> QED
    BY <1>1, <2>1, <2>2, <2>3, <2>4, <2>5 DEF PoolStep
<1>2. ASSUME NEW c \in Callers, Release(c) \/ \E h \in Chains : Acquire(c, h)
      PROVE  CloseInv'
  <2>1. UNCHANGED <<proc, down>> /\ (down # "no" => Forkless' \subseteq Forkless)
    BY <1>2 DEF Release, Acquire, Forkless
  <2>2. CASE down = "no"
    BY <2>1, <2>2 DEF CloseInv
  <2> QED
    BY <2>1, <2>2, NoMoreRuns DEF Running
<1>3. CASE \/ \E p \in Procs : Exit(p)
           \/ \E p \in Procs, h \in Chains : IdleTimeout(p, h)
           \/ Clear \/ UNCHANGED poolVars
  <2>1. /\ down = "no" => down' = "no"
        /\ Running' \subseteq Running /\ Forkless' \subseteq Forkless
    BY <1>3 DEF Exit, IdleTimeout, Clear, poolVars, Running, Forkless, Killed
  <2> QED
    BY <2>1, NoMoreRuns
<1>4. CASE Shutdown
  <2>1. /\ call' = call /\ down = "no"
        /\ proc' = [p \in Procs |->
                       IF proc[p] # "none" /\ p \in Filed THEN "killed" ELSE proc[p]]
    BY <1>4 DEF Shutdown
  <2>2. \A p \in Running' : \E c \in Callers \ Forkless : call[c].fork = p
    BY <2>1 DEF Running, Filed, ForksInHand, Holding, Forkless
  <2>3. Cardinality(Running') \in Nat /\ Cardinality(Running') <= Cardinality(Callers \ Forkless)
    BY <2>2, CarriedBy
  <2>4. Cardinality(Callers \ Forkless) = Cardinality(Callers) - Cardinality(Forkless)
    <3>1. Callers \cap Forkless = Forkless
      BY DEF Forkless
    <3> QED
      BY <3>1, PoolAssumption, FS_Difference
  <2>5. Forkless' = Forkless
    BY <2>1 DEF Forkless
  <2> QED
    BY <2>3, <2>4, <2>5, RunningSizes, Sizes DEF CloseInv
<1>5. CASE PanelEnds
  BY <1>5 DEF PanelEnds, CloseInv
<1> QED
  BY <1>1, <1>2, <1>3, <1>4, <1>5 DEF PoolNext, PoolEvent

(* What the end of the panel leaves running. *)
LEMMA FewLeft == PoolInv /\ PoolBounded => NoForkForgotten
<1> SUFFICES ASSUME PoolInv, PoolBounded PROVE NoForkForgotten
  OBVIOUS
<1> DEFINE Carried == {p \in Running : \E c \in Spawners : call[c].fork = p}
           Kept == {p \in Running : \E h \in Live : slots[h] = p}
<1>1. Cardinality(Carried) \in Nat /\ Cardinality(Carried) <= Cardinality(Spawners)
  BY CarriedBy DEF Spawners
<1>2. Cardinality(Kept) \in Nat /\ Cardinality(Kept) <= Cardinality(Live)
  BY Covered, Sizes
<1>3. IsFiniteSet(Carried) /\ IsFiniteSet(Kept)
  BY RunningSizes, FS_Subset
<1>4. \A p \in Running :
          \/ \E c \in Callers : call[c].at \in {"starting", "probing"} /\ call[c].fork = p
          \/ \E h \in Chains : <<p, h>> \in idle /\ (down = "closed" \/ slots[h] = p)
  BY DEF PoolInv, ForksInHand, Running, Holding
<1>5. CASE down = "no"
  <2>1. Running = Carried \cup Kept
    BY <1>5, PoolAssumption
       DEF PoolInv, ForksInHand, Running, Spawners, Live, Holding, Spawning, PoolTypeOK
  <2>2. Cardinality(Running) <= Cardinality(Carried) + Cardinality(Kept)
    <3> HIDE DEF Carried, Kept
    <3>1. Cardinality(Carried \cap Kept) \in Nat
      BY <1>3, FS_Intersection, FS_CardinalityType
    <3>2. Cardinality(Carried \cup Kept) =
              Cardinality(Carried) + Cardinality(Kept) - Cardinality(Carried \cap Kept)
      BY <1>3, FS_Union
    <3> QED
      BY <2>1, <1>1, <1>2, <3>1, <3>2
  <2>3. Cardinality(LeftByKill) <= MaxLive + Cardinality(Callers) - 1
    BY <2>2, <1>1, <1>2, Sizes, RunningSizes, PoolAssumption DEF LeftByKill, PoolBounded
  <2>4. LeftByExit \subseteq Carried
    <3>1. Kept \subseteq Filed
      BY DEF Running, Live, Filed
    <3> HIDE DEF Carried, Kept
    <3> QED
      BY <2>1, <3>1 DEF LeftByExit
  <2>5. Cardinality(LeftByExit) \in Nat /\ Cardinality(LeftByExit) <= Cardinality(Carried)
    BY <2>4, <1>3, FS_Subset, FS_CardinalityType
  <2>6. Cardinality(LeftByExit) <= Cardinality(Callers)
    BY <2>5, <1>1, Sizes
  <2> QED
    BY <1>4, <2>3, <2>6 DEF NoForkForgotten
<1>6. CASE down # "no"
  <2>1. Cardinality(Running) <= Cardinality(Callers)
    BY <1>6, RunningSizes, Sizes DEF PoolInv, CloseInv
  <2>2. Cardinality(LeftByExit) \in Nat /\ Cardinality(LeftByExit) <= Cardinality(Running)
    <3>1. LeftByExit \subseteq Running
      BY DEF LeftByExit
    <3> QED
      BY <3>1, RunningSizes, FS_Subset, FS_CardinalityType
  <2>3. Cardinality(LeftByExit) <= Cardinality(Callers)
    BY <2>1, <2>2, Sizes, RunningSizes
  <2>4. Cardinality(LeftByKill) <= MaxLive + Cardinality(Callers) - 1
    BY <2>1, Sizes, RunningSizes, PoolAssumption DEF LeftByKill
  <2> QED
    BY <1>4, <2>3, <2>4 DEF NoForkForgotten
<1> QED
  BY <1>5, <1>6

(* A step that adds neither a fork to the map nor a spawn keeps the bound. *)
LEMMA Shrinks ==
    ASSUME PoolBounded, Live' \subseteq Live, Spawners' \subseteq Spawners
    PROVE  PoolBounded'
<1>1. /\ Cardinality(Live') \in Nat /\ Cardinality(Live') <= Cardinality(Live)
      /\ Cardinality(Spawners') \in Nat /\ Cardinality(Spawners') <= Cardinality(Spawners)
  BY Sizes, FS_Subset, FS_CardinalityType
<1> QED
  BY <1>1, Sizes, PoolAssumption DEF PoolBounded

LEMMA NextBounded ==
    ASSUME PoolTypeOK, CallsInv, SpawnInv, PoolBounded, [PoolNext]_poolVars
    PROVE  PoolBounded'
<1> USE PoolAssumption DEF PoolTypeOK, Call, At, Places, Spawning
<1>1. ASSUME NEW c \in Callers, PoolStep(c) PROVE PoolBounded'
  <2>1. CASE Hit(c) \/ Join(c) \/ Listening(c)
    <3>1. Live' = Live /\ Spawners' = Spawners
      BY <2>1 DEF Hit, Join, Listening, Live, Spawners
    <3> QED
      BY <3>1, Shrinks
  <2>2. CASE SpawnFork(c)
    <3>1. PICK q : call' = [call EXCEPT ![c] = At("starting", call[c].chain, q)]
      BY <2>2 DEF SpawnFork
    <3>2. Live' = Live /\ Spawners' = Spawners
      BY <2>2, <3>1 DEF SpawnFork, Live, Spawners
    <3> QED
      BY <3>2, Shrinks
  <2>3. CASE NoEndpoint(c) \/ FailSpawn(c)
    <3>1. slots' = slots /\ call' = Answer(c, "failed", None)
      BY <2>3 DEF NoEndpoint, FailSpawn
    <3>2. Live' = Live /\ Spawners' \subseteq Spawners
      BY <3>1, AnswerLeaves DEF Live, Spawners
    <3> QED
      BY <3>2, Shrinks
  <2>4. CASE Begin(c)
    <3>1. Live' = Live /\ Spawners' \subseteq Callers
      BY <2>4 DEF Begin, Live, Spawners
    <3>2. Cardinality(Spawners') \in Nat /\ Cardinality(Spawners') <= Cardinality(Callers)
      BY <3>1, FS_Subset, FS_CardinalityType
    <3>3. Cardinality(Live) < MaxLive
      BY <2>4 DEF Begin
    <3> QED
      BY <3>1, <3>2, <3>3, Sizes DEF PoolBounded
  <2>5. ASSUME NEW v \in Chains, Evict(c, v) PROVE PoolBounded'
    <3>1. /\ v \in Live /\ Live' = Live \ {v}
          /\ c \notin Spawners /\ Spawners' = Spawners \cup {c}
      BY <2>5 DEF Evict, Live, Spawners
    <3>2. Cardinality(Live') = Cardinality(Live) - 1
      BY <3>1, Sizes, FS_RemoveElement
    <3>3. Cardinality(Spawners') = Cardinality(Spawners) + 1
      BY <3>1, Sizes, FS_AddElement
    <3> QED
      BY <3>2, <3>3, Sizes DEF PoolBounded
  <2>6. CASE Insert(c)
    <3> DEFINE h == call[c].chain
    <3>1. /\ slots' = [slots EXCEPT ![h] = call[c].fork]
          /\ call' = Answer(c, "using", call[c].fork)
          /\ call[c].fork \in Procs
          /\ c \in Spawners
          /\ slots[h] = None
          /\ h \in Chains
      BY <2>6 DEF Insert, CallsInv, SpawnInv, Holding, Spawners
    <3>2. h \notin Live /\ Live' = Live \cup {h}
      BY <3>1 DEF Live
    <3>3. Spawners' \subseteq Spawners \ {c}
      BY <3>1, AnswerLeaves DEF Spawners
    <3>4. Cardinality(Live') = Cardinality(Live) + 1
      BY <3>2, Sizes, FS_AddElement
    <3>5. /\ IsFiniteSet(Spawners \ {c})
          /\ Cardinality(Spawners \ {c}) = Cardinality(Spawners) - 1
      BY <3>1, Sizes, FS_RemoveElement
    <3>6. Cardinality(Spawners') \in Nat /\ Cardinality(Spawners') <= Cardinality(Spawners) - 1
      BY <3>3, <3>5, FS_Subset, FS_CardinalityType
    <3> QED
      BY <3>4, <3>6, Sizes DEF PoolBounded
  <2> QED
    BY <1>1, <2>1, <2>2, <2>3, <2>4, <2>5, <2>6 DEF PoolStep
<1>2. ASSUME NEW c \in Callers, Release(c) \/ \E h \in Chains : Acquire(c, h)
      PROVE  PoolBounded'
  <2>1. Live' = Live /\ Spawners' \subseteq Spawners
    BY <1>2 DEF Release, Acquire, Live, Spawners
  <2> QED
    BY <2>1, Shrinks
<1>3. ASSUME \/ \E p \in Procs : Exit(p)
             \/ \E p \in Procs, h \in Chains : IdleTimeout(p, h)
             \/ Shutdown \/ Clear \/ UNCHANGED poolVars
      PROVE  PoolBounded'
  <2>1. Live' \subseteq Live /\ Spawners' = Spawners
    BY <1>3 DEF Exit, IdleTimeout, Shutdown, Clear, poolVars, Live, Spawners
  <2> QED
    BY <2>1, Shrinks
<1>4. CASE PanelEnds
  <2>1. Live' \subseteq Live /\ Spawners' \subseteq Spawners
    BY <1>4 DEF PanelEnds, Live, Spawners
  <2> QED
    BY <2>1, Shrinks
<1> QED
  BY <1>1, <1>2, <1>3, <1>4 DEF PoolNext, PoolEvent
-----------------------------------------------------------------------------
(* What the worker and the findings do to the pool. *)
LEMMA Composition == [Next]_vars => [PoolNext]_poolVars
<1> SUFFICES ASSUME [Next]_vars PROVE [PoolNext]_poolVars
  OBVIOUS
<1>1. ASSUME NEW f \in Findings, Simulate(f) PROVE PoolNext
  BY <1>1, WorkerAssumption DEF Simulate, PoolNext
<1>2. ASSUME NEW b \in Codes, NEW v \in Results, Settle(b, v) PROVE PoolNext
  BY <1>2, WorkerAssumption DEF Settle, PoolNext
<1>3. CASE WorkerStep
  <2>1. CASE Tick \/ (\E S \in SUBSET batch : Expose(S)) \/ (\E b \in Codes : FromCache(b)) \/ EndTick
    BY <2>1 DEF Tick, Expose, FromCache, EndTick
  <2> QED
    BY <1>1, <1>2, <1>3, <2>1 DEF WorkerStep
<1>4. ASSUME NEW f \in Findings, Ingest(f) \/ Prune(f) PROVE UNCHANGED poolVars
  BY <1>4 DEF Ingest, Prune
<1>5. ASSUME NEW c \in Callers, PoolWork(c) \/ OnDemand(c) PROVE PoolNext
  BY <1>5 DEF PoolWork, OnDemand, PoolNext
<1>6. CASE PanelRestarts
  BY <1>6 DEF PanelRestarts, PoolNext
<1>7. CASE UNCHANGED vars
  BY <1>7 DEF vars
<1> QED
  BY <1>3, <1>4, <1>5, <1>6, <1>7 DEF Next, PoolNext

LEMMA NextPool == PoolInv /\ [Next]_vars => PoolInv'
  BY Composition, NextTypes, NextCalls, NextSpawn, NextTimer, NextInHand, NextClose DEF PoolInv

LEMMA InitBounded == PoolInit => PoolBounded
<1> SUFFICES ASSUME PoolInit PROVE PoolBounded
  OBVIOUS
<1>1. Live = {} /\ Spawners = {}
  BY DEF PoolInit, Live, Spawners, At, Spawning
<1>2. Cardinality({}) = 0
  BY FS_EmptySet
<1> QED
  BY <1>1, <1>2, Sizes, PoolAssumption DEF PoolBounded
-----------------------------------------------------------------------------
(* A group is simulated in a tick that handles groups. *)
WorkerInv == TypeOK /\ (group # {} => tick = "groups")

LEMMA UpdatedType ==
    ASSUME verdict \in [Findings -> {"absent", "none"} \cup Results],
           NEW S, NEW v \in {"absent", "none"} \cup Results
    PROVE  Updated(S, v) \in [Findings -> {"absent", "none"} \cup Results]
  BY DEF Updated

LEMMA ScheduledType ==
    ASSUME armed \in 0 .. MaxTimers, NEW n \in 1 .. 2
    PROVE  Scheduled(n) \in 1 .. MaxTimers
  BY WorkerAssumption DEF Scheduled

LEMMA NextWorker == WorkerInv /\ PoolTypeOK' /\ [Next]_vars => WorkerInv'
<1> SUFFICES ASSUME WorkerInv, PoolTypeOK', [Next]_vars PROVE WorkerInv'
  OBVIOUS
<1> USE DEF WorkerInv, TypeOK
<1>1. CASE Tick
  <2>1. PICK S \in Batches :
            /\ batch' = S
            /\ armed' = IF S = {} THEN Scheduled(1) ELSE armed - 1
            /\ tick' = CASE S = {} -> "off"
                        [] S # {} /\ S \subseteq Manual -> "groups"
                        [] OTHER -> "exposure"
    BY <1>1 DEF Tick
  <2>2. batch' \subseteq Findings /\ armed' \in 0 .. MaxTimers
    <3>1. armed > 0
      BY <1>1 DEF Tick
    <3> QED
      BY <2>1, <3>1, ScheduledType, WorkerAssumption DEF Batches, Pending
  <2>3. tick' \in {"off", "exposure", "groups"}
    BY <2>1
  <2>4. group = {}
    BY <1>1 DEF Tick
  <2> QED
    <3>1. UNCHANGED <<poolVars, verdict, cache, group, ingests>>
      BY <1>1 DEF Tick
    <3> QED
      BY <2>2, <2>3, <2>4, <3>1
<1>2. ASSUME NEW S \in SUBSET batch, Expose(S) PROVE WorkerInv'
  <2>1. verdict' \in [Findings -> {"absent", "none"} \cup Results]
    <3>1. PICK v \in Results : verdict' = Updated(S, v)
      BY <1>2 DEF Expose
    <3> QED
      BY <3>1, UpdatedType
  <2>2. /\ batch' = batch \ S
        /\ UNCHANGED <<poolVars, cache, group, ingests>>
        /\ group = {}
        /\ armed' \in 0 .. MaxTimers
        /\ tick' \in {"off", "groups"}
    BY <1>2, ScheduledType DEF Expose
  <2> QED
    BY <2>1, <2>2
<1>3. ASSUME NEW b \in Codes, FromCache(b) PROVE WorkerInv'
  <2>1. verdict' \in [Findings -> {"absent", "none"} \cup Results]
    BY <1>3, UpdatedType DEF FromCache
  <2> QED
    BY <1>3, <2>1 DEF FromCache
<1>4. ASSUME NEW f \in Findings, Simulate(f) PROVE WorkerInv'
  BY <1>4 DEF Simulate, Alike
<1>5. ASSUME NEW b \in Codes, NEW v \in Results, Settle(b, v) PROVE WorkerInv'
  <2>1. verdict' \in [Findings -> {"absent", "none"} \cup Results]
    BY <1>5, UpdatedType DEF Settle
  <2>2. cache' \in [Codes -> {"none"} \cup Results]
    BY <1>5 DEF Settle
  <2> QED
    BY <1>5, <2>1, <2>2 DEF Settle
<1>6. CASE EndTick
  BY <1>6, ScheduledType DEF EndTick
<1>7. ASSUME NEW f \in Findings, Ingest(f) \/ Prune(f) PROVE WorkerInv'
  <2>1. verdict' \in [Findings -> {"absent", "none"} \cup Results]
    BY <1>7 DEF Ingest, Prune
  <2>2. ingests' \in 0 .. MaxIngests
    BY <1>7, WorkerAssumption DEF Ingest, Prune
  <2> QED
    BY <1>7, <2>1, <2>2 DEF Ingest, Prune
<1>8. CASE PanelRestarts
  <2>1. verdict' \in [Findings -> {"absent", "none"} \cup Results]
    BY <1>8, WorkerAssumption DEF PanelRestarts
  <2> QED
    BY <1>8, <2>1, WorkerAssumption DEF PanelRestarts
<1>9. CASE UNCHANGED workerVars
  BY <1>9 DEF workerVars
<1> QED
  BY <1>1, <1>2, <1>3, <1>4, <1>5, <1>6, <1>7, <1>8, <1>9
     DEF Next, WorkerStep, PoolWork, OnDemand, vars

(* Types: the worker's variables and the pool's keep their shape, and the  *)
(* group under simulation is part of the batch.                            *)
THEOREM WorkerTypes == Spec => []TypeOK
<1>1. Init => WorkerInv /\ PoolInv
  BY InitPool, WorkerAssumption DEF Init, WorkerInv, TypeOK, PoolInv
<1>2. WorkerInv /\ PoolInv /\ [Next]_vars => (WorkerInv /\ PoolInv)'
  BY NextPool, NextWorker DEF PoolInv
<1>3. WorkerInv => TypeOK
  BY DEF WorkerInv
<1> QED
  BY <1>1, <1>2, <1>3, PTL DEF Spec

(* The pool of the worker is the pool on its own. *)
THEOREM ImplementsPool == Spec => PoolSpec
<1>1. Init => PoolInit
  BY DEF Init
<1> QED
  BY <1>1, Composition, PTL DEF Spec, PoolSpec

(* No fork is forgotten (anvil-pool.ts): whatever overlaps, a fork that    *)
(* runs is being set up or will be killed by its own idle timer; and when  *)
(* the panel ends, what it leaves running is at most one fork for each     *)
(* caller, or as many as the pool can hold when it was killed.             *)
THEOREM Remembered == Spec => []NoForkForgotten
<1>1. Init => PoolInv /\ PoolBounded
  BY InitPool, InitBounded DEF Init
<1>2. PoolInv /\ PoolBounded /\ [Next]_vars => (PoolInv /\ PoolBounded)'
  BY NextPool, NextBounded, Composition DEF PoolInv
<1> QED
  BY <1>1, <1>2, FewLeft, PTL DEF Spec

(* The cap on the forks holds up to the spawns that overlap, for any       *)
(* number of callers.                                                      *)
THEOREM Bounded == Spec => []PoolBounded
<1>1. Init => PoolInv /\ PoolBounded
  BY InitPool, InitBounded DEF Init
<1>2. PoolInv /\ PoolBounded /\ [Next]_vars => (PoolInv /\ PoolBounded)'
  BY NextPool, NextBounded, Composition DEF PoolInv
<1> QED
  BY <1>1, <1>2, PTL DEF Spec
-----------------------------------------------------------------------------
(* Nothing gets stuck: what the fairness of the timers and awaits is then  *)
(* enough for.                                                             *)
WaitInv == \A c \in Callers : call[c].at = "waiting" => Spawner(call[c].chain) # {}

AwakeInv ==
    /\ tick = "off" => armed > 0 /\ batch = {}
    /\ group = {} <=> call[Worker].at = "idle"
    /\ group # {} => \E b \in Codes : group = Alike(batch, b)

(* Who gets the answer of c no longer waits; the spawners of other chains  *)
(* are where they were.                                                    *)
LEMMA AnswerWait ==
    ASSUME PoolTypeOK, CallsInv, WaitInv, NEW c \in Callers, call[c].at \in Spawning,
           NEW place \in {"using", "failed"}, NEW fork \in Procs \cup {None},
           call' = Answer(c, place, fork)
    PROVE  WaitInv'
<1> SUFFICES ASSUME NEW d \in Callers, call'[d].at = "waiting"
             PROVE  Spawner(call[d].chain)' # {} /\ call'[d] = call[d]
  BY DEF WaitInv
<1>1. call'[d] = call[d] /\ d # c
  BY AnswerType
<1>2. call[d].chain # call[c].chain
  BY <1>1 DEF Answer, Waiters, At, PoolTypeOK
<1>3. PICK e \in Spawner(call[d].chain) : TRUE
  BY <1>1 DEF WaitInv
<1>4. e \in Callers /\ e # c /\ e \notin Waiters(call[c].chain)
  BY <1>2, <1>3 DEF Spawner, Spawners, Waiters, Spawning
<1>5. call'[e] = call[e]
  BY <1>4 DEF Answer
<1> QED
  BY <1>1, <1>3, <1>4, <1>5 DEF Spawner, Spawners

LEMMA NextWait ==
    ASSUME PoolTypeOK, CallsInv, WaitInv, [PoolNext]_poolVars
    PROVE  WaitInv'
<1>1. ASSUME NEW c \in Callers, call[c].at \notin Spawning,
             \A d \in Callers \ {c} : call'[d] = call[d], call'[c].at # "waiting"
      PROVE  WaitInv'
  BY <1>1 DEF WaitInv, Spawner, Spawners
<1>2. ASSUME NEW c \in Callers, call[c].at \in Spawning, call'[c].at \in Spawning,
             call'[c].chain = call[c].chain, \A d \in Callers \ {c} : call'[d] = call[d]
      PROVE  WaitInv'
  BY <1>2 DEF WaitInv, Spawner, Spawners, Spawning
<1>3. ASSUME NEW c \in Callers, PoolStep(c) PROVE WaitInv'
  <2>1. CASE Hit(c) \/ Begin(c) \/ \E v \in Chains : Evict(c, v)
    <3>1. /\ call[c].at = "asked" /\ call'[c].at \in {"using", "evicting"}
          /\ \A d \in Callers \ {c} : call'[d] = call[d]
      <4>1. CASE Hit(c) \/ Begin(c)
        BY <4>1 DEF Hit, Begin, At, PoolTypeOK, Call
      <4>2. ASSUME NEW v \in Chains, Evict(c, v)
            PROVE  /\ call[c].at = "asked" /\ call'[c].at = "evicting"
                   /\ \A d \in Callers \ {c} : call'[d] = call[d]
        BY <4>2 DEF Evict, PoolTypeOK, Call
      <4> QED
        BY <2>1, <4>1, <4>2
    <3> QED
      BY <1>1, <3>1 DEF Spawning
  <2>2. CASE Join(c)
    <3>1. /\ call[c].at = "asked" /\ Spawner(call[c].chain) # {}
          /\ call' = [call EXCEPT ![c].at = "waiting"]
      BY <2>2 DEF Join
    <3>2. call'[c].chain = call[c].chain /\ \A d \in Callers \ {c} : call'[d] = call[d]
      BY <3>1 DEF PoolTypeOK, Call
    <3>3. \A h : Spawner(h) \subseteq Spawner(h)'
      BY <3>1, <3>2 DEF Spawner, Spawners, Spawning
    <3> QED
      BY <3>1, <3>2, <3>3 DEF WaitInv
  <2>3. CASE SpawnFork(c)
    <3>1. \E p : call' = [call EXCEPT ![c] = At("starting", call[c].chain, p)]
      BY <2>3 DEF SpawnFork
    <3>2. call[c].at = "evicting"
      BY <2>3 DEF SpawnFork
    <3> QED
      BY <1>2, <3>1, <3>2 DEF At, Spawning, PoolTypeOK
  <2>4. CASE Listening(c)
    BY <1>2, <2>4 DEF Listening, Spawning, PoolTypeOK, Call
  <2>5. CASE NoEndpoint(c)
    BY <2>5, AnswerWait DEF NoEndpoint, Spawning
  <2>6. CASE FailSpawn(c)
    BY <2>6, AnswerWait DEF FailSpawn, Spawning
  <2>7. CASE Insert(c)
    BY <2>7, AnswerWait DEF Insert, Spawning, PoolTypeOK, Call
  <2> QED
    BY <1>3, <2>1, <2>2, <2>3, <2>4, <2>5, <2>6, <2>7 DEF PoolStep
<1>4. ASSUME NEW c \in Callers, Release(c) \/ \E h \in Chains : Acquire(c, h)
      PROVE  WaitInv'
  BY <1>1, <1>4 DEF Release, Acquire, At, Spawning, PoolTypeOK
<1>5. CASE PoolEvent \/ UNCHANGED poolVars
  BY <1>5 DEF PoolEvent, Exit, IdleTimeout, Shutdown, Clear, poolVars, WaitInv, Spawner,
              Spawners
<1>6. CASE PanelEnds
  BY <1>6 DEF PanelEnds, At, WaitInv
<1> QED
  BY <1>3, <1>4, <1>5, <1>6 DEF PoolNext

(* A step of the pool on its own takes no caller to idle, and none away.   *)
LEMMA PoolKeepsBusy ==
    ASSUME PoolTypeOK, CallsInv, NEW c \in Callers, PoolStep(c)
    PROVE  \A d \in Callers : call'[d].at = "idle" <=> call[d].at = "idle"
<1>1. ASSUME NEW place \in {"using", "failed"}, NEW fork, call' = Answer(c, place, fork),
             call[c].at # "idle"
      PROVE  \A d \in Callers : call'[d].at = "idle" <=> call[d].at = "idle"
  BY <1>1 DEF Answer, At, Waiters
<1>2. CASE Hit(c) \/ Join(c) \/ Begin(c)
  BY <1>2 DEF Hit, Join, Begin, At, PoolTypeOK, Call
<1>3. ASSUME NEW v \in Chains, Evict(c, v)
      PROVE  \A d \in Callers : call'[d].at = "idle" <=> call[d].at = "idle"
  BY <1>3 DEF Evict, PoolTypeOK, Call
<1>4. CASE Listening(c)
  BY <1>4 DEF Listening, PoolTypeOK
<1>5. CASE SpawnFork(c)
  <2>1. \E p : call' = [call EXCEPT ![c] = At("starting", call[c].chain, p)]
    BY <1>5 DEF SpawnFork
  <2>2. call[c].at = "evicting"
    BY <1>5 DEF SpawnFork
  <2> QED
    BY <2>1, <2>2 DEF At, PoolTypeOK
<1>6. CASE NoEndpoint(c) \/ FailSpawn(c) \/ Insert(c)
  BY <1>1, <1>6 DEF NoEndpoint, FailSpawn, Insert
<1> QED
  BY <1>2, <1>3, <1>4, <1>5, <1>6 DEF PoolStep

LEMMA NextAwake ==
    ASSUME TypeOK, WorkerInv, CallsInv, AwakeInv, [Next]_vars
    PROVE  AwakeInv'
<1> USE DEF AwakeInv
<1>1. CASE Tick
  <2>1. /\ group' = group /\ call' = call /\ group = {}
        /\ tick' = "off" => armed' > 0 /\ batch' = {}
    BY <1>1, ScheduledType DEF Tick, WorkerInv, poolVars, TypeOK
  <2> QED
    BY <2>1
<1>2. ASSUME NEW S \in SUBSET batch, Expose(S) PROVE AwakeInv'
  <2>1. /\ group' = group /\ call' = call /\ group = {}
        /\ tick' = "off" => armed' > 0 /\ batch' = {}
    BY <1>2, ScheduledType DEF Expose, WorkerInv, poolVars, TypeOK
  <2> QED
    BY <2>1
<1>3. ASSUME NEW b \in Codes, FromCache(b) PROVE AwakeInv'
  BY <1>3 DEF FromCache, poolVars
<1>4. ASSUME NEW f \in Findings, Simulate(f) PROVE AwakeInv'
  <2>1. /\ group' = Alike(batch, CodeOf[f]) /\ f \in group' /\ UNCHANGED <<tick, batch, armed>>
        /\ call'[Worker].at # "idle" /\ CodeOf[f] \in Codes /\ tick = "groups"
    BY <1>4, WorkerAssumption DEF Simulate, Alike, Acquire, At, TypeOK, PoolTypeOK
  <2> QED
    BY <2>1 DEF Alike
<1>5. ASSUME NEW b \in Codes, NEW v \in Results, Settle(b, v) PROVE AwakeInv'
  <2>1. /\ group' = {} /\ tick' = tick /\ tick = "groups" /\ call'[Worker].at = "idle"
    BY <1>5, WorkerAssumption DEF Settle, Release, At, TypeOK, PoolTypeOK, WorkerInv
  <2> QED
    BY <2>1
<1>6. CASE EndTick
  BY <1>6, ScheduledType DEF EndTick, poolVars, TypeOK
<1>7. ASSUME NEW f \in Findings, Ingest(f) \/ Prune(f) PROVE AwakeInv'
  BY <1>7 DEF Ingest, Prune, poolVars, Alike
<1>8. ASSUME NEW c \in Callers, PoolWork(c) PROVE AwakeInv'
  <2>1. UNCHANGED workerVars /\ (call'[Worker].at = "idle" <=> call[Worker].at = "idle")
    BY <1>8, PoolKeepsBusy, WorkerAssumption DEF PoolWork, TypeOK
  <2> QED
    BY <2>1 DEF workerVars, Alike
<1>9. ASSUME NEW c \in Callers, OnDemand(c) PROVE AwakeInv'
  <2>1. UNCHANGED workerVars /\ call'[Worker] = call[Worker]
    BY <1>9, WorkerAssumption DEF OnDemand, Acquire, Release, TypeOK, PoolTypeOK
  <2> QED
    BY <2>1 DEF workerVars, Alike
<1>10. CASE (PoolEvent /\ UNCHANGED workerVars) \/ UNCHANGED vars
  BY <1>10 DEF PoolEvent, Exit, IdleTimeout, Shutdown, Clear, vars, poolVars, workerVars, Alike
<1>11. CASE PanelRestarts
  BY <1>11, WorkerAssumption DEF PanelRestarts, PanelEnds, At
<1> QED
  BY <1>1, <1>2, <1>3, <1>4, <1>5, <1>6, <1>7, <1>8, <1>9, <1>10, <1>11 DEF Next, WorkerStep

(* While findings wait a tick runs or a timer is armed for one; a group    *)
(* that is simulated is what Settle settles when the worker's call is      *)
(* answered; and no call awaits the answer of a spawn that is over: every  *)
(* continuation that FindingsSettle needs is pending somewhere.            *)
NothingStuck ==
    /\ Pending # {} => armed > 0 \/ tick # "off"
    /\ group # {} =>
           /\ tick = "groups"
           /\ call[Worker].at # "idle"
           /\ \E b \in Codes : group = Alike(batch, b)
    /\ tick = "groups" /\ group = {} => call[Worker].at = "idle"
    /\ \A c \in Callers : call[c].at = "waiting" => Spawner(call[c].chain) # {}

THEOREM NeverStuck == Spec => []NothingStuck
<1>1. Init => WorkerInv /\ PoolInv /\ WaitInv /\ AwakeInv
  <2>1. Init => WorkerInv /\ PoolInv
    BY InitPool, WorkerAssumption DEF Init, WorkerInv, TypeOK, PoolInv
  <2>2. Init => WaitInv /\ AwakeInv
    BY WorkerAssumption DEF Init, PoolInit, WaitInv, AwakeInv, At
  <2> QED
    BY <2>1, <2>2
<1>2. WorkerInv /\ PoolInv /\ WaitInv /\ AwakeInv /\ [Next]_vars
          => (WorkerInv /\ PoolInv /\ WaitInv /\ AwakeInv)'
  BY NextPool, NextWorker, NextWait, NextAwake, Composition DEF PoolInv, WorkerInv, TypeOK
<1>3. WorkerInv /\ PoolInv /\ WaitInv /\ AwakeInv => NothingStuck
  BY DEF WorkerInv, WaitInv, AwakeInv, NothingStuck
<1> QED
  BY <1>1, <1>2, <1>3, PTL DEF Spec
=============================================================================
