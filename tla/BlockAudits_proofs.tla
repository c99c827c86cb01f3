-------------------------- MODULE BlockAudits_proofs --------------------------
(***************************************************************************)
(* First the promise chain of StateStore: it implements a durable register *)
(* for any number of workers, of failed writes and of crashes, and so does *)
(* the runner that saves its audits and blocks with it.  Then what the     *)
(* runner does with a block: no deployment is left out, no report is that  *)
(* of another bytecode or other rules, no auditor is left running.         *)
(***************************************************************************)
EXTENDS BlockAudits, FiniteSetTheorems, TLAPS

(* Each save on the chain belongs to one worker that waits for it and was  *)
(* called for a version that memory already had.                           *)
QueueInv ==
    /\ \A i \in 1 .. Len(queue) :
          pc[queue[i]] = "waiting" /\ asked[queue[i]] <= mem
    /\ \A i, j \in 1 .. Len(queue) : queue[i] = queue[j] => i = j

(* The payload of the running save is at least as new as the file and as   *)
(* the version the save was called for.                                    *)
PayloadInv ==
    stage \in {"temp", "rename"} =>
        /\ disk <= snap
        /\ snap <= mem
        /\ asked[Head(queue)] <= snap

(* The durability promise on the file itself. *)
DurableInv == acked <= disk /\ disk <= mem

IInv == TypeOK /\ QueueInv /\ PayloadInv /\ DurableInv

LEMMA EmptyChain == <<>> \in Seq(Savers) /\ 1 .. Len(<<>>) = {}
OBVIOUS

LEMMA IInvInit == Init => IInv
<1> SUFFICES ASSUME Init PROVE IInv
  OBVIOUS
<1>1. TypeOK
  BY EmptyChain DEF Init, TypeOK, Stages
<1>2. QueueInv
  BY EmptyChain DEF Init, QueueInv
<1>3. PayloadInv /\ DurableInv
  BY DEF Init, PayloadInv, DurableInv
<1>4. QED
  BY <1>1, <1>2, <1>3 DEF IInv

(* Settling takes the head off the chain and changes no other entry. *)
LEMMA SettleKeepsQueue ==
    ASSUME IInv, stage # "idle", NEW o \in {"stored", "rejected"}, Settle(o),
           UNCHANGED <<mem, asked>>
    PROVE  /\ QueueInv'
           /\ queue' \in Seq(Savers)
           /\ pc' \in [Savers -> {"idle", "waiting", "stored", "rejected"}]
           /\ stage' = "idle"
           /\ failed' \in BOOLEAN
<1> USE DEF IInv, TypeOK, QueueInv, Settle
<1>1. queue # <<>> /\ queue' = Tail(queue) /\ Head(queue) = queue[1]
  OBVIOUS
<1>2. /\ queue' \in Seq(Savers)
      /\ Len(queue') = Len(queue) - 1
      /\ \A i \in 1 .. Len(queue') : queue'[i] = queue[i + 1]
  BY <1>1
<1>3. \A i \in 1 .. Len(queue') : queue'[i] # Head(queue)
  BY <1>1, <1>2
<1>4. \A i \in 1 .. Len(queue') : pc'[queue'[i]] = pc[queue'[i]]
  BY <1>2, <1>3
<1>5. \A i \in 1 .. Len(queue') :
         pc[queue'[i]] = "waiting" /\ asked[queue'[i]] <= mem
  BY <1>1, <1>2
<1>6. \A i, j \in 1 .. Len(queue') : queue'[i] = queue'[j] => i = j
  BY <1>1, <1>2
<1>7. QED
  BY <1>2, <1>4, <1>5, <1>6

(* The next process starts with what is in the file and an empty chain. *)
LEMMA ReloadRestores ==
    ASSUME IInv, Reload, faults' \in Nat PROVE IInv'
<1> USE DEF IInv
<1>1. queue' = <<>> /\ queue' \in Seq(Savers) /\ 1 .. Len(queue') = {}
  BY EmptyChain DEF Reload
<1>2. pc' \in [Savers -> {"idle", "waiting", "stored", "rejected"}]
  BY DEF Reload
<1>3. mem' \in Nat /\ disk' \in Nat /\ snap' \in Nat /\ acked' \in Nat
  BY DEF Reload, TypeOK
<1>4. asked' \in [Savers -> Nat]
  BY DEF Reload, TypeOK
<1>5. stage' = "idle" /\ failed' = FALSE
  BY DEF Reload
<1>6. TypeOK'
  BY <1>1, <1>2, <1>3, <1>4, <1>5 DEF TypeOK, Stages
<1>7. QueueInv'
  BY <1>1 DEF QueueInv
<1>8. PayloadInv' /\ DurableInv'
  BY <1>5 DEF Reload, TypeOK, PayloadInv, DurableInv
<1>9. QED
  BY <1>6, <1>7, <1>8

LEMMA IInvStep == IInv /\ [Next]_vars => IInv'
<1> SUFFICES ASSUME IInv, [Next]_vars PROVE IInv'
  OBVIOUS
<1> USE DEF IInv
<1>1. ASSUME NEW s \in Savers, Save(s) PROVE IInv'
  <2>1. /\ queue' = Append(queue, s) /\ mem' = mem + 1
        /\ pc' = [pc EXCEPT ![s] = "waiting"]
        /\ asked' = [asked EXCEPT ![s] = mem + 1]
        /\ pc[s] # "waiting"
        /\ UNCHANGED <<disk, stage, snap, acked, failed, faults>>
    BY <1>1 DEF Save
  <2>2. TypeOK'
    BY <2>1 DEF TypeOK, Stages
  <2>3. \A i \in 1 .. Len(queue) : queue[i] # s /\ queue'[i] = queue[i]
    BY <2>1 DEF TypeOK, QueueInv
  <2>4. Len(queue') = Len(queue) + 1 /\ queue'[Len(queue) + 1] = s
    BY <2>1 DEF TypeOK
  <2>5. QueueInv'
    BY <2>1, <2>3, <2>4 DEF TypeOK, QueueInv
  <2>6. queue # <<>> => Head(queue') = Head(queue) /\ Head(queue) # s
    BY <2>3, <2>4, <2>1 DEF TypeOK
  <2>7. PayloadInv' /\ DurableInv'
    BY <2>1, <2>6 DEF TypeOK, PayloadInv, DurableInv
  <2>8. QED
    BY <2>2, <2>5, <2>7
<1>2. ASSUME Begin PROVE IInv'
  BY <1>2 DEF Begin, TypeOK, Stages, QueueInv, PayloadInv, DurableInv
<1>3. ASSUME Serialise PROVE IInv'
  <2>1. Head(queue) = queue[1] /\ 1 \in 1 .. Len(queue)
    BY <1>3 DEF Serialise, TypeOK
  <2>2. QED
    BY <1>3, <2>1
       DEF Serialise, TypeOK, Stages, QueueInv, PayloadInv, DurableInv
<1>4. ASSUME WriteTemp PROVE IInv'
  BY <1>4 DEF WriteTemp, TypeOK, Stages, QueueInv, PayloadInv, DurableInv
<1>5. ASSUME Rename PROVE IInv'
  <2>1. stage # "idle" /\ UNCHANGED <<mem, asked>> /\ Settle("stored")
    BY <1>5 DEF Rename
  <2>2. /\ QueueInv' /\ queue' \in Seq(Savers) /\ stage' = "idle"
        /\ pc' \in [Savers -> {"idle", "waiting", "stored", "rejected"}]
        /\ failed' \in BOOLEAN
    BY <2>1, SettleKeepsQueue
  <2>3. Head(queue) \in Savers
    BY <2>1 DEF TypeOK
  <2>4. TypeOK' /\ PayloadInv' /\ DurableInv'
    BY <1>5, <2>2, <2>3
       DEF Rename, TypeOK, Stages, PayloadInv, DurableInv
  <2>5. QED
    BY <2>2, <2>4
<1>6. ASSUME Fail PROVE IInv'
  <2>1. stage # "idle" /\ UNCHANGED <<mem, asked>> /\ Settle("rejected")
    BY <1>6 DEF Fail
  <2>2. /\ QueueInv' /\ queue' \in Seq(Savers) /\ stage' = "idle"
        /\ pc' \in [Savers -> {"idle", "waiting", "stored", "rejected"}]
        /\ failed' \in BOOLEAN
    BY <2>1, SettleKeepsQueue
  <2>3. TypeOK' /\ PayloadInv' /\ DurableInv'
    BY <1>6, <2>2 DEF Fail, TypeOK, Stages, PayloadInv, DurableInv
  <2>4. QED
    BY <2>2, <2>3
<1>7. ASSUME Crash \/ Exit PROVE IInv'
  <2>1. Reload /\ faults' \in Nat
    BY <1>7 DEF Crash, Exit, TypeOK
  <2>2. QED
    BY <2>1, ReloadRestores
<1>8. CASE UNCHANGED vars
  BY <1>8 DEF vars, TypeOK, Stages, QueueInv, PayloadInv, DurableInv
<1>9. QED
  BY <1>1, <1>2, <1>3, <1>4, <1>5, <1>6, <1>7, <1>8
     DEF Next, ChainStep

(* The store's variables always have their types, and a save that runs is  *)
(* the head of a non-empty chain.                                          *)
THEOREM TypeCorrect == Spec => []TypeOK
<1>1. IInv => TypeOK
  BY DEF IInv
<1>2. QED
  BY IInvInit, IInvStep, <1>1, PTL DEF Spec

(* Every behaviour of the promise chain is a behaviour of the durable      *)
(* register: rename is Persist, a crash is Restart, a failed write and     *)
(* every other await is a stutter.                                         *)
THEOREM StoreImplementsRegister == Spec => ImplementsRegister
<1>1. Init => Register!Init
  BY DEF Init, Register!Init
<1>2. IInv /\ [Next]_vars => [Register!Next]_(Register!register)
  <2> SUFFICES ASSUME IInv, [Next]_vars
               PROVE  [Register!Next]_(Register!register)
    OBVIOUS
  <2> USE DEF Register!Next, Register!register, Register!Update,
              Register!Persist, Register!Restart
  <2>1. ASSUME NEW s \in Savers, Save(s) PROVE Register!Update
    BY <2>1 DEF Save
  <2>2. CASE Begin \/ Serialise \/ WriteTemp
    BY <2>2 DEF Begin, Serialise, WriteTemp
  <2>3. ASSUME Rename PROVE Register!Persist
    <3>1. /\ Head(queue) \in Savers /\ stage = "rename"
          /\ disk' = snap /\ mem' = mem
          /\ acked' = IF asked[Head(queue)] > acked
                      THEN asked[Head(queue)] ELSE acked
      BY <2>3 DEF Rename, IInv, TypeOK
    <3>2. QED
      BY <3>1 DEF IInv, TypeOK, PayloadInv, DurableInv
  <2>4. CASE Fail
    BY <2>4 DEF Fail
  <2>5. ASSUME Crash \/ Exit PROVE Register!Restart
    BY <2>5 DEF Crash, Exit, Reload
  <2>6. CASE UNCHANGED vars
    BY <2>6 DEF vars
  <2>7. QED
    BY <2>1, <2>2, <2>3, <2>4, <2>5, <2>6 DEF Next, ChainStep
<1>3. QED
  BY IInvInit, IInvStep, <1>1, <1>2, PTL
     DEF Spec, ImplementsRegister, Register!Spec

(* What a save reported as stored is in checkpoint.json, and the file is   *)
(* never ahead of memory.                                                  *)
THEOREM ReportedIsStored == Spec => []DurableInv
<1>1. IInv => DurableInv
  BY DEF IInv
<1>2. QED
  BY IInvInit, IInvStep, <1>1, PTL DEF Spec

(* The last save on the chain was called for what is in memory. *)
NewestInv == queue # <<>> => asked[queue[Len(queue)]] = mem

LEMMA NewestStep ==
    ASSUME IInv, NewestInv, DrainedIsLatest, [Next]_vars
    PROVE  NewestInv' /\ DrainedIsLatest'
<1> USE DEF NewestInv, DrainedIsLatest, TypeOK
<1>1. ASSUME NEW s \in Savers, Save(s) PROVE NewestInv' /\ DrainedIsLatest'
  <2>1. Len(queue') = Len(queue) + 1 /\ queue'[Len(queue')] = s /\ queue' # <<>>
    BY <1>1 DEF Save, IInv
  <2>2. QED
    BY <1>1, <2>1 DEF Save, IInv
<1>2. CASE Begin \/ Serialise \/ WriteTemp
  BY <1>2 DEF Begin, Serialise, WriteTemp, IInv
<1>3. ASSUME stage # "idle", NEW o \in {"stored", "rejected"}, Settle(o),
             UNCHANGED <<mem, asked>>
      PROVE  NewestInv'
  <2>1. queue # <<>> /\ queue' = Tail(queue)
    BY <1>3 DEF IInv, Settle
  <2>2. queue' # <<>> => queue'[Len(queue')] = queue[Len(queue)]
    BY <2>1 DEF IInv
  <2>3. QED
    BY <1>3, <2>1, <2>2
<1>4. CASE Rename
  <2>1. /\ stage = "rename" /\ disk' = snap /\ mem' = mem /\ asked' = asked
        /\ Settle("stored")
    BY <1>4 DEF Rename
  <2>2. NewestInv'
    BY <1>3, <2>1
  <2>3. queue # <<>> /\ queue' = Tail(queue) /\ Head(queue) = queue[1]
    BY <2>1 DEF IInv, Settle
  <2>4. queue' = <<>> => Len(queue) = 1
    <3>1. queue \in Seq(Savers) /\ Len(queue') = Len(queue) - 1
      BY <2>3 DEF IInv
    <3>2. queue' = <<>> => Len(queue') = 0
      OBVIOUS
    <3>3. QED
      BY <3>1, <3>2
  <2>5. asked[Head(queue)] <= snap /\ snap <= mem
    BY <2>1 DEF IInv, PayloadInv
  <2>6. queue' = <<>> => snap = mem
    BY <2>3, <2>4, <2>5 DEF IInv
  <2>7. QED
    BY <2>1, <2>2, <2>6
<1>5. CASE Fail
  BY <1>3, <1>5 DEF Fail, Settle
<1>6. CASE Crash \/ Exit
  BY <1>6 DEF Crash, Exit, Reload
<1>7. CASE UNCHANGED vars
  BY <1>7 DEF vars
<1>8. QED
  BY <1>1, <1>2, <1>4, <1>5, <1>6, <1>7 DEF Next, ChainStep

(* When the chain has drained and its last save did not reject, the file   *)
(* holds what memory holds, whatever failed or crashed before.             *)
THEOREM DrainedStoresLatest == Spec => []DrainedIsLatest
<1>1. Init => NewestInv /\ DrainedIsLatest
  BY DEF Init, NewestInv, DrainedIsLatest
<1>2. IInv /\ NewestInv /\ DrainedIsLatest /\ [Next]_vars
         => NewestInv' /\ DrainedIsLatest'
  BY NewestStep
<1>3. QED
  BY IInvInit, IInvStep, <1>1, <1>2, PTL DEF Spec
(* Whoever waits for a save has it on the chain.                           *)
WaitersQueued ==
    \A s \in Savers : pc[s] = "waiting" => \E i \in 1 .. Len(queue) : queue[i] = s

LEMMA WaitersStep == IInv /\ WaitersQueued /\ [Next]_vars => WaitersQueued'
<1> SUFFICES ASSUME IInv, WaitersQueued, [Next]_vars,
                    NEW s \in Savers, pc'[s] = "waiting"
             PROVE  \E i \in 1 .. Len(queue') : queue'[i] = s
  BY DEF WaitersQueued
<1> USE DEF IInv, TypeOK
<1>1. ASSUME NEW t \in Savers, Save(t)
      PROVE  \E i \in 1 .. Len(queue') : queue'[i] = s
  <2>1. /\ Len(queue') = Len(queue) + 1 /\ queue'[Len(queue) + 1] = t
        /\ \A i \in 1 .. Len(queue) : queue'[i] = queue[i]
    BY <1>1 DEF Save
  <2>2. CASE s = t
    BY <2>1, <2>2
  <2>3. CASE s # t
    <3>1. pc[s] = "waiting"
      BY <1>1, <2>3 DEF Save
    <3>2. PICK i \in 1 .. Len(queue) : queue[i] = s
      BY <3>1 DEF WaitersQueued
    <3>3. i \in 1 .. Len(queue') /\ queue'[i] = s
      BY <2>1, <3>2
    <3>4. QED
      BY <3>3
  <2>4. QED
    BY <2>2, <2>3
<1>2. CASE UNCHANGED <<queue, pc>>
  BY <1>2 DEF WaitersQueued
<1>3. ASSUME stage # "idle", NEW o \in {"stored", "rejected"}, Settle(o)
      PROVE  \E i \in 1 .. Len(queue') : queue'[i] = s
  <2>1. queue # <<>> /\ Head(queue) = queue[1] /\ Head(queue) \in Savers
    BY <1>3
  <2>2. /\ Len(queue') = Len(queue) - 1
        /\ \A i \in 1 .. Len(queue') : queue'[i] = queue[i + 1]
    BY <1>3, <2>1 DEF Settle
  <2>3. s # Head(queue) /\ pc[s] = "waiting"
    BY <1>3, <2>1 DEF Settle
  <2>4. PICK i \in 1 .. Len(queue) : queue[i] = s
    BY <2>3 DEF WaitersQueued
  <2>5. i - 1 \in 1 .. Len(queue') /\ queue'[i - 1] = s
    BY <2>1, <2>2, <2>3, <2>4
  <2>6. QED
    BY <2>5
<1>4. CASE Crash \/ Exit
  BY <1>4 DEF Crash, Exit, Reload
<1>5. QED
  BY <1>1, <1>2, <1>3, <1>4
     DEF Next, ChainStep, Begin, Serialise, WriteTemp, Rename, Fail, vars

(* No save is forgotten: a worker that waits for its save is on the chain, *)
(* whatever saves before it failed.  This is the safety half of            *)
(* SavesSettle, for any number of workers.                                 *)
THEOREM WaitersAreQueued == Spec => []WaitersQueued
<1>1. Init => WaitersQueued
  BY DEF Init, WaitersQueued
<1>2. QED
  BY IInvInit, IInvStep, <1>1, WaitersStep, PTL DEF Spec
-----------------------------------------------------------------------------
(* The runner on top of the store. *)

LEMMA PoolSaves == Pool \subseteq Savers /\ Loop \in Savers /\ IsFiniteSet(Pool)
<1>1. Loop \in Savers /\ IsFiniteSet(Savers) /\ Pool \in SUBSET Savers
  BY AuditsAssumption DEF Pool
<1>2. IsFiniteSet(Pool)
  BY <1>1, FS_Subset
<1>3. QED
  BY <1>1, <1>2

(* Whatever the runner does is a step of the store or leaves it alone. *)
LEMMA StoreStep == [AuditNext]_auditVars => [Next]_vars
<1> SUFFICES ASSUME [AuditNext]_auditVars PROVE [Next]_vars
  OBVIOUS
<1>1. CASE Chain
  BY <1>1 DEF Chain, Next, ChainStep
<1>2. CASE Dies \/ RunFails \/ EndRun
  BY <1>2 DEF Dies, RunFails, EndRun, Next
<1>3. ASSUME NEW s \in Savers, SaveRejected(s) PROVE UNCHANGED vars
  BY <1>3 DEF SaveRejected, store
<1>4. ASSUME NEW w \in Pool, Audit(w) PROVE Next \/ UNCHANGED vars
  <2>1. CASE FromCache(w) \/ StartAudit(w) \/ TimesOut(w) \/ EndKilled(w)
             \/ ResultSaved(w) \/ Tell(w)
    BY <2>1 DEF FromCache, StartAudit, TimesOut, EndKilled, ResultSaved, Tell
  <2>2. CASE SaveResult(w)
    BY <2>2, PoolSaves DEF SaveResult, SaveAs, Next
  <2>3. QED
    BY <1>4, <2>1, <2>2 DEF Audit
<1>5. ASSUME NEW w \in Pool, Exits(w) \/ Overflows(w) PROVE UNCHANGED vars
  BY <1>5 DEF Exits, Overflows, store
<1>6. CASE Commit
  BY <1>6, PoolSaves DEF Commit, SaveAs, Next
<1>7. ASSUME \/ StartRun \/ Close \/ NextBlock \/ Notify \/ EditRules \/ Quiet
             \/ \E missing \in SUBSET Direct[block], traced \in BOOLEAN : Detect(missing, traced)
             \/ \E d \in Deployments, lost \in {"none", "slots", "beacon"} : Open(d, lost)
      PROVE  UNCHANGED vars
  BY <1>7 DEF StartRun, Close, Processing, NextBlock, Notify, EditRules, Quiet, Detect,
              Open, store, auditVars
<1>8. CASE UNCHANGED auditVars
  BY <1>8 DEF auditVars, store
<1>9. QED
  BY <1>1, <1>2, <1>3, <1>4, <1>5, <1>6, <1>7, <1>8, PoolSaves
     DEF AuditNext, LoopStep, WorkerStep

(* A behaviour of the runner is one of the store: its audits, blocks and   *)
(* restarts ask nothing of the store that the store does not promise.      *)
THEOREM AuditsUseStore == AuditSpec => Spec
<1>1. AuditInit => Init
  BY DEF AuditInit
<1>2. QED
  BY <1>1, StoreStep, PTL DEF AuditSpec, Spec

(* So checkpoint.json is a durable register under everything the runner    *)
(* does with it ...                                                        *)
THEOREM RunnerImplementsRegister == AuditSpec => ImplementsRegister
BY AuditsUseStore, StoreImplementsRegister, PTL

(* ... and holds the latest checkpoint whenever no save is under way and   *)
(* the last one did not fail.                                              *)
THEOREM RunnerStoresLatest == AuditSpec => []DrainedIsLatest
BY AuditsUseStore, DrainedStoresLatest, PTL
-----------------------------------------------------------------------------
(* What a deployment brings. *)

LEMMA RangeOfJoin ==
    ASSUME NEW S, NEW s \in Seq(S), NEW t \in Seq(S)
    PROVE  s \o t \in Seq(S) /\ Range(s \o t) = Range(s) \cup Range(t)
<1>1. /\ s \o t \in Seq(S)
      /\ Len(s \o t) = Len(s) + Len(t)
      /\ \A i \in 1 .. Len(s) : (s \o t)[i] = s[i]
      /\ \A i \in 1 .. Len(t) : (s \o t)[Len(s) + i] = t[i]
  OBVIOUS
<1>2. ASSUME NEW x \in Range(s \o t) PROVE x \in Range(s) \cup Range(t)
  <2>1. PICK i \in 1 .. Len(s \o t) : x = (s \o t)[i]
    BY <1>1, <1>2 DEF Range
  <2>2. CASE i <= Len(s)
    BY <1>1, <2>1, <2>2 DEF Range
  <2>3. CASE i > Len(s)
    <3>1. i - Len(s) \in 1 .. Len(t) /\ x = t[i - Len(s)]
      BY <1>1, <2>1, <2>3
    <3>2. QED
      BY <3>1 DEF Range
  <2>4. QED
    BY <2>1, <2>2, <2>3, <1>1
<1>3. ASSUME NEW x \in Range(s) PROVE x \in Range(s \o t)
  <2>1. PICK i \in 1 .. Len(s) : x = s[i]
    BY <1>3 DEF Range
  <2>2. i \in 1 .. Len(s \o t) /\ (s \o t)[i] = x
    BY <1>1, <2>1
  <2>3. QED
    BY <1>1, <2>2 DEF Range
<1>4. ASSUME NEW x \in Range(t) PROVE x \in Range(s \o t)
  <2>1. PICK i \in 1 .. Len(t) : x = t[i]
    BY <1>4 DEF Range
  <2>2. Len(s) + i \in 1 .. Len(s \o t) /\ (s \o t)[Len(s) + i] = x
    BY <1>1, <2>1
  <2>3. QED
    BY <1>1, <2>2 DEF Range
<1>5. QED
  BY <1>1, <1>2, <1>3, <1>4

LEMMA HeadAndTail ==
    ASSUME NEW S, NEW s \in Seq(S), s # <<>>
    PROVE  /\ Head(s) \in S /\ Tail(s) \in Seq(S)
           /\ Range(s) \subseteq {Head(s)} \cup Range(Tail(s))
<1>1. /\ Head(s) \in S /\ Tail(s) \in Seq(S) /\ Head(s) = s[1]
      /\ Len(Tail(s)) = Len(s) - 1
      /\ \A i \in 1 .. Len(s) - 1 : Tail(s)[i] = s[i + 1]
  OBVIOUS
<1>2. ASSUME NEW x \in Range(s), x # Head(s) PROVE x \in Range(Tail(s))
  <2>1. PICK i \in 1 .. Len(s) : x = s[i]
    BY <1>2 DEF Range
  <2>2. i - 1 \in 1 .. Len(Tail(s)) /\ Tail(s)[i - 1] = x
    BY <1>1, <1>2, <2>1
  <2>3. DOMAIN Tail(s) = 1 .. Len(Tail(s))
    BY <1>1
  <2>4. QED
    BY <2>2, <2>3 DEF Range
<1>3. QED
  BY <1>1, <1>2

Resolutions == [detected : BOOLEAN, beacon : Accounts \cup {None}, impl : Accounts \cup {None}]

LEMMA ResolveType ==
    ASSUME NEW d \in Deployments, NEW lost \in {"none", "slots", "beacon"}
    PROVE  Resolve(d, lost) \in Resolutions
<1>1. /\ CodeOf[d] \in Codes /\ CloneOf[CodeOf[d]] \in Accounts \cup {None}
      /\ ImplSlot[d] \in Accounts \cup {None} /\ BeaconSlot[d] \in Accounts \cup {None}
      /\ BeaconSlot[d] # None => BeaconSays[BeaconSlot[d]] \in Accounts \cup {None}
  BY AuditsAssumption
<1>2. (CodeOf[d] \in Forwards) \in BOOLEAN
  OBVIOUS
<1>3. QED
  BY <1>1, <1>2 DEF Resolve, Proxy, Resolutions

LEMMA TargetsType ==
    ASSUME NEW d \in Deployments, NEW p \in Resolutions
    PROVE  TargetsOf(d, p) \in Seq(Target)
<1>1. ASSUME NEW kind \in Kinds, NEW a \in Accounts \cup {None}
      PROVE  TargetAt(d, kind, a) \in Seq(Target)
  <2>1. CASE HasCode(a)
    <3>1. a \in Accounts /\ CodeOf[a] \in Codes
      BY <2>1, AuditsAssumption DEF HasCode
    <3>2. [dep |-> d, kind |-> kind, code |-> CodeOf[a]] \in Target
      BY <3>1 DEF Target
    <3>3. QED
      BY <2>1, <3>2 DEF TargetAt
  <2>2. CASE ~HasCode(a)
    BY <2>2 DEF TargetAt
  <2>3. QED
    BY <2>1, <2>2
<1>2. BaseKind(p) \in Kinds /\ d \in Accounts /\ {"beacon", "implementation"} \subseteq Kinds
  BY AuditsAssumption DEF BaseKind, Kinds
<1>3. p.beacon \in Accounts \cup {None} /\ p.impl \in Accounts \cup {None}
  BY DEF Resolutions
<1>4. /\ TargetAt(d, BaseKind(p), d) \in Seq(Target)
      /\ TargetAt(d, "beacon", p.beacon) \in Seq(Target)
      /\ TargetAt(d, "implementation", p.impl) \in Seq(Target)
  BY <1>1, <1>2, <1>3
<1>5. TargetAt(d, BaseKind(p), d) \o TargetAt(d, "beacon", p.beacon) \in Seq(Target)
  BY <1>4, RangeOfJoin
<1>6. TargetAt(d, BaseKind(p), d) \o TargetAt(d, "beacon", p.beacon)
          \o TargetAt(d, "implementation", p.impl) \in Seq(Target)
  BY <1>4, <1>5, RangeOfJoin
<1>7. QED
  BY <1>6 DEF TargetsOf

LEMMA NoticesType ==
    ASSUME NEW d \in Deployments, NEW p PROVE NoticesOf(d, p) \in Seq(Id)
<1>1. \A n \in Notices : <<d, n>> \in Id /\ <<<<d, n>>>> \in Seq(Id)
  BY DEF Id
<1>2. {"detected", "skipped", "unresolved"} \subseteq Notices /\ <<>> \in Seq(Id)
  BY DEF Notices
<1>3. QED
  BY <1>1, <1>2, RangeOfJoin DEF NoticesOf
-----------------------------------------------------------------------------
(* Types, and who is at work. *)

Auditing == {w \in Pool : at[w] = "auditing"}

JobRec == [target : Target, result : Report \cup {None}]

(* A worker that is not free has a job, each auditor that runs is that of  *)
(* one worker, and there is work only for the deployment in hand.          *)
WorkInv ==
    /\ \A w \in Pool : IF at[w] = "free" THEN job[w] = None ELSE job[w] \in JobRec
    /\ auditors = Cardinality(Auditing)
    /\ phase # "audits" => todo = <<>> /\ notices = <<>> /\ \A w \in Pool : at[w] = "free"

LEMMA AuditorsCounted ==
    ASSUME NEW w \in Pool, at \in [Savers -> Places], NEW place \in Places,
           at' = [at EXCEPT ![w] = place]
    PROVE  /\ Cardinality(Auditing) \in Nat
           /\ at[w] = "auditing" => Cardinality(Auditing) - 1 \in Nat
           /\ Cardinality(Auditing') =
                 IF place = "auditing"
                 THEN IF at[w] = "auditing" THEN Cardinality(Auditing)
                      ELSE Cardinality(Auditing) + 1
                 ELSE IF at[w] = "auditing" THEN Cardinality(Auditing) - 1
                      ELSE Cardinality(Auditing)
<1>1. IsFiniteSet(Auditing)
  <2>1. Auditing \in SUBSET Pool
    BY DEF Auditing
  <2>2. QED
    BY <2>1, PoolSaves, FS_Subset
<1>2. w \in Savers /\ at'[w] = place /\ \A v \in Pool \ {w} : at'[v] = at[v]
  BY PoolSaves
<1>3. Cardinality(Auditing) \in Nat
  BY <1>1, FS_CardinalityType
<1>4. ASSUME at[w] = "auditing" PROVE Cardinality(Auditing) - 1 \in Nat
  <2>1. w \in Auditing
    BY <1>4 DEF Auditing
  <2>2. IsFiniteSet(Auditing \ {w}) /\ Cardinality(Auditing \ {w}) = Cardinality(Auditing) - 1
    BY <1>1, <2>1, FS_RemoveElement
  <2>3. QED
    BY <2>2, FS_CardinalityType
<1>5. CASE place = "auditing"
  <2>1. Auditing' = Auditing \cup {w} /\ (w \in Auditing <=> at[w] = "auditing")
    BY <1>2, <1>5 DEF Auditing
  <2>2. Cardinality(Auditing \cup {w}) =
           IF w \in Auditing THEN Cardinality(Auditing) ELSE Cardinality(Auditing) + 1
    BY <1>1, FS_AddElement
  <2>3. Cardinality(Auditing') = IF at[w] = "auditing" THEN Cardinality(Auditing)
                                 ELSE Cardinality(Auditing) + 1
    BY <2>1, <2>2
  <2>4. QED
    BY <1>5, <1>3, <1>4, <2>3
<1>6. CASE place # "auditing"
  <2>1. Auditing' = Auditing \ {w} /\ (w \in Auditing <=> at[w] = "auditing")
    BY <1>2, <1>6 DEF Auditing
  <2>2. Cardinality(Auditing \ {w}) =
           IF w \in Auditing THEN Cardinality(Auditing) - 1 ELSE Cardinality(Auditing)
    BY <1>1, FS_RemoveElement
  <2>3. Cardinality(Auditing') = IF at[w] = "auditing" THEN Cardinality(Auditing) - 1
                                 ELSE Cardinality(Auditing)
    BY <2>1, <2>2
  <2>4. QED
    BY <1>6, <1>3, <1>4, <2>3
<1>7. QED
  BY <1>5, <1>6, <1>3, <1>4

(* With every worker free no auditor runs. *)
LEMMA NoneAuditing ==
    ASSUME \A w \in Pool : at[w] = "free" PROVE Cardinality(Auditing) = 0
<1>1. Auditing = {}
  BY DEF Auditing
<1>2. QED
  BY <1>1, FS_EmptySet

LEMMA WorkInit == AuditInit => AuditTypeOK /\ WorkInv
<1> SUFFICES ASSUME AuditInit PROVE AuditTypeOK /\ WorkInv
  OBVIOUS
<1>1. TypeOK
  BY IInvInit DEF AuditInit, IInv
<1>2. Empty \in Contents
  BY DEF Empty, Contents
<1>3. at \in [Savers -> Places] /\ \A w \in Pool : at[w] = "free"
  BY PoolSaves DEF AuditInit, Places
<1>4. <<>> \in Seq(Target) /\ <<>> \in Seq(Id)
  OBVIOUS
<1>5. job \in [Pool -> JobRec \cup {None}]
  BY DEF AuditInit
<1>6. AuditTypeOK
  BY <1>1, <1>2, <1>3, <1>4, <1>5 DEF AuditInit, AuditTypeOK, JobRec
<1>7. WorkInv
  BY <1>3, NoneAuditing DEF AuditInit, WorkInv
<1>8. QED
  BY <1>6, <1>7

(* After Forget nothing is at work. *)
LEMMA ForgetKeepsWork ==
    ASSUME AuditTypeOK, TypeOK', Forget PROVE AuditTypeOK' /\ WorkInv'
<1>1. at' \in [Savers -> Places] /\ \A w \in Pool : at'[w] = "free"
  BY PoolSaves DEF Forget, Places
<1>2. <<>> \in Seq(Target) /\ <<>> \in Seq(Id)
  OBVIOUS
<1>3. job' \in [Pool -> JobRec \cup {None}] /\ \A w \in Pool : job'[w] = None
  BY DEF Forget
<1>4. AuditTypeOK'
  BY <1>1, <1>2, <1>3 DEF Forget, history, AuditTypeOK, JobRec
<1>5. Cardinality(Auditing') = 0
  <2>1. Auditing' = {}
    BY <1>1 DEF Auditing
  <2>2. QED
    BY <2>1, FS_EmptySet
<1>6. WorkInv'
  BY <1>1, <1>3, <1>5 DEF Forget, WorkInv
<1>7. QED
  BY <1>4, <1>6

(* A worker that goes on with a job from one place to another. *)
LEMMA WorkerKeepsWork ==
    ASSUME AuditTypeOK, WorkInv, NEW w \in Pool, NEW place \in Places,
           at' = [at EXCEPT ![w] = place],
           job' \in [Pool -> JobRec \cup {None}],
           \A v \in Pool \ {w} : job'[v] = job[v],
           IF place = "free" THEN job'[w] = None ELSE job'[w] \in JobRec,
           phase' = phase, notices' = notices,
           phase # "audits" => todo' = <<>> /\ place = "free",
           auditors' = IF place = "auditing"
                       THEN IF at[w] = "auditing" THEN auditors ELSE auditors + 1
                       ELSE IF at[w] = "auditing" THEN auditors - 1 ELSE auditors
    PROVE  /\ WorkInv' /\ auditors' \in Nat
           /\ at' \in [Savers -> Places]
<1>1. at \in [Savers -> Places] /\ w \in Savers /\ Pool \subseteq Savers
  BY PoolSaves DEF AuditTypeOK
<1>2. /\ at' \in [Savers -> Places] /\ at'[w] = place
      /\ \A v \in Pool \ {w} : at'[v] = at[v]
  BY <1>1
<1>3. auditors' = Cardinality(Auditing') /\ auditors' \in Nat
  <2>1. /\ Cardinality(Auditing) \in Nat
        /\ at[w] = "auditing" => Cardinality(Auditing) - 1 \in Nat
        /\ Cardinality(Auditing') =
              IF place = "auditing"
              THEN IF at[w] = "auditing" THEN Cardinality(Auditing)
                   ELSE Cardinality(Auditing) + 1
              ELSE IF at[w] = "auditing" THEN Cardinality(Auditing) - 1
                   ELSE Cardinality(Auditing)
    BY <1>1, AuditorsCounted
  <2>2. auditors = Cardinality(Auditing)
    BY DEF WorkInv
  <2>3. QED
    BY <2>1, <2>2
<1>4. \A v \in Pool : IF at'[v] = "free" THEN job'[v] = None ELSE job'[v] \in JobRec
  BY <1>2 DEF WorkInv
<1>5. phase' # "audits" =>
         todo' = <<>> /\ notices' = <<>> /\ \A v \in Pool : at'[v] = "free"
  BY <1>2 DEF WorkInv
<1>6. QED
  BY <1>2, <1>3, <1>4, <1>5 DEF WorkInv

LEMMA ContentsType ==
    ASSUME NEW c \in Contents, NEW t \in Target, NEW r \in Report, print \in Nat,
           NEW n \in Nat, NEW kept, kept \subseteq c.cache
    PROVE  /\ KeyOf(t) \in Key
           /\ [c EXCEPT !.cache = {e \in c.cache : e.key # KeyOf(t)}
                                      \cup {[key |-> KeyOf(t), report |-> r]}] \in Contents
           /\ [c EXCEPT !.last = n] \in Contents
           /\ [c EXCEPT !.cache = kept] \in Contents
BY DEF Contents, Key, Target, KeyOf

(* The steps of a worker keep the types and the bookkeeping of the work. *)
LEMMA WorkerStepKeepsWork ==
    ASSUME AuditTypeOK, WorkInv, TypeOK', NEW w \in Pool,
           Audit(w) \/ Exits(w) \/ Overflows(w)
    PROVE  AuditTypeOK' /\ WorkInv'
<1> USE DEF AuditTypeOK
<1> DEFINE Same == UNCHANGED <<payload, file, loopVars, orphans, unseen, unread, edited>>
<1>1. Same
  BY DEF Audit, Exits, Overflows, store, history
<1>2. UNCHANGED <<payload, file, rules, edits, print, phase, block, deps, late, dep,
                  notices, orphans, unseen, unread, edited>>
  BY <1>1 DEF loopVars
<1>3. /\ w \in Savers /\ job \in [Pool -> JobRec \cup {None}]
      /\ at[w] # "free" => job[w] \in JobRec /\ phase = "audits"
      /\ at[w] = "free" => job[w] = None
  BY PoolSaves DEF JobRec, WorkInv
<1>4. ASSUME now' \in Contents, todo' \in Seq(Target), settled' \subseteq Id,
             job' \in [Pool -> JobRec \cup {None}],
             WorkInv' /\ auditors' \in Nat /\ at' \in [Savers -> Places]
      PROVE  AuditTypeOK' /\ WorkInv'
  BY <1>2, <1>4 DEF JobRec
<1>5. {"auditing", "killed", "artifact", "saving", "telling", "free"} \subseteq Places
  BY DEF Places, Busy
<1>6. CASE FromCache(w)
  <2>1. /\ todo # <<>> /\ todo' = Tail(todo) /\ phase = "audits" /\ at[w] = "free"
        /\ UNCHANGED <<now, auditors, settled>>
    BY <1>6 DEF FromCache, Take
  <2>2. Head(todo) \in Target /\ todo' \in Seq(Target)
    BY <2>1, HeadAndTail
  <2>3. PICK e \in now.cache : /\ job' = [job EXCEPT ![w] = [target |-> Head(todo), result |-> e.report]]
                               /\ at' = [at EXCEPT ![w] = "telling"]
    BY <1>6 DEF FromCache, Cached, WithResult
  <2>4. e.report \in Report
    BY DEF Contents
  <2>5. [target |-> Head(todo), result |-> e.report] \in JobRec
    BY <2>2, <2>4 DEF JobRec
  <2>6. /\ job' \in [Pool -> JobRec \cup {None}] /\ job'[w] \in JobRec
        /\ \A v \in Pool \ {w} : job'[v] = job[v]
    BY <1>3, <2>3, <2>5
  <2>7. WorkInv' /\ auditors' \in Nat /\ at' \in [Savers -> Places]
    BY <1>2, <1>5, <2>1, <2>3, <2>6, WorkerKeepsWork
  <2>8. QED
    BY <1>4, <2>1, <2>2, <2>6, <2>7
<1>7. CASE StartAudit(w)
  <2>1. /\ todo # <<>> /\ todo' = Tail(todo) /\ phase = "audits" /\ at[w] = "free"
        /\ UNCHANGED <<now, settled>> /\ auditors' = auditors + 1
        /\ at' = [at EXCEPT ![w] = "auditing"]
        /\ job' = [job EXCEPT ![w] = [target |-> Head(todo),
                                      result |-> [code |-> Head(todo).code, rules |-> rules]]]
    BY <1>7 DEF StartAudit, Take, WithResult
  <2>2. Head(todo) \in Target /\ todo' \in Seq(Target)
    BY <2>1, HeadAndTail
  <2>3. [code |-> Head(todo).code, rules |-> rules] \in Report
    BY <2>2 DEF Target, Report
  <2>4. [target |-> Head(todo), result |-> [code |-> Head(todo).code, rules |-> rules]] \in JobRec
    BY <2>2, <2>3 DEF JobRec
  <2>5. /\ job' \in [Pool -> JobRec \cup {None}] /\ job'[w] \in JobRec
        /\ \A v \in Pool \ {w} : job'[v] = job[v]
    BY <1>3, <2>1, <2>4
  <2>6. WorkInv' /\ auditors' \in Nat /\ at' \in [Savers -> Places]
    BY <1>2, <1>5, <2>1, <2>5, WorkerKeepsWork
  <2>7. QED
    BY <1>4, <2>1, <2>2, <2>5, <2>6
<1>8. ASSUME at[w] # "free", todo' = todo, settled' = settled, now' \in Contents,
             NEW place \in {"killed", "artifact", "saving", "telling"},
             at' = [at EXCEPT ![w] = place],
             job' \in {job, [job EXCEPT ![w].result = None]},
             auditors' = IF at[w] = "auditing" THEN auditors - 1 ELSE auditors
      PROVE  AuditTypeOK' /\ WorkInv'
  <2>1. [job[w] EXCEPT !.result = None] \in JobRec
    BY <1>3, <1>8 DEF JobRec
  <2>2. /\ job' \in [Pool -> JobRec \cup {None}] /\ job'[w] \in JobRec
        /\ \A v \in Pool \ {w} : job'[v] = job[v]
    BY <1>3, <1>8, <2>1
  <2>3. place \in Places /\ place # "free" /\ place # "auditing"
    BY <1>5, <1>8
  <2>4. WorkInv' /\ auditors' \in Nat /\ at' \in [Savers -> Places]
    BY <1>2, <1>3, <1>8, <2>2, <2>3, WorkerKeepsWork
  <2>5. QED
    BY <1>4, <1>8, <2>2, <2>4
<1>9. CASE TimesOut(w)
  BY <1>8, <1>9 DEF TimesOut, Failure
<1>10. CASE EndKilled(w)
  BY <1>8, <1>10 DEF EndKilled, Failure
<1>11. CASE Exits(w)
  BY <1>8, <1>11 DEF Exits, store, history
<1>12. CASE Overflows(w)
  BY <1>8, <1>12 DEF Overflows, store, history
<1>13. CASE ResultSaved(w)
  BY <1>8, <1>13 DEF ResultSaved
<1>14. CASE SaveResult(w)
  <2>1. at[w] = "artifact" /\ job[w] \in JobRec
    BY <1>3, <1>14 DEF SaveResult
  <2>2. job[w].target \in Target /\ job[w].result \in Report \cup {None}
    BY <2>1 DEF JobRec
  <2>3. now' \in Contents
    BY <1>14, <2>2, ContentsType DEF SaveResult, SaveAs, Put
  <2>4. /\ at' = [at EXCEPT ![w] = "saving"]
        /\ UNCHANGED <<todo, job, auditors, settled>>
    BY <1>14 DEF SaveResult, SaveAs
  <2>5. QED
    BY <1>8, <2>1, <2>3, <2>4
<1>15. CASE Tell(w)
  <2>1. /\ at[w] = "telling" /\ at' = [at EXCEPT ![w] = "free"]
        /\ job' = [job EXCEPT ![w] = None]
        /\ settled' = settled \cup {TargetId(job[w].target)}
        /\ UNCHANGED <<now, todo, auditors>>
    BY <1>15 DEF Tell
  <2>2. TargetId(job[w].target) \in Id
    BY <1>3, <2>1 DEF JobRec, Target, TargetId, Id
  <2>3. /\ job' \in [Pool -> JobRec \cup {None}] /\ job'[w] = None
        /\ \A v \in Pool \ {w} : job'[v] = job[v]
    BY <1>3, <2>1
  <2>4. WorkInv' /\ auditors' \in Nat /\ at' \in [Savers -> Places]
    BY <1>2, <1>3, <1>5, <2>1, <2>3, WorkerKeepsWork
  <2>5. QED
    BY <1>4, <2>1, <2>2, <2>3, <2>4
<1>16. QED
  BY <1>6, <1>7, <1>9, <1>10, <1>11, <1>12, <1>13, <1>14, <1>15 DEF Audit

(* The loop's own awaits make no difference to the work. *)
LEMMA LoopKeepsWork ==
    ASSUME AuditTypeOK, WorkInv, NEW place \in Places, at' = [at EXCEPT ![Loop] = place],
           UNCHANGED <<todo, job, auditors, notices>>,
           phase' = "audits" <=> phase = "audits"
    PROVE  WorkInv' /\ at' \in [Savers -> Places]
<1>1. \A v \in Pool : at'[v] = at[v]
  BY PoolSaves DEF AuditTypeOK, Pool
<1>2. at' \in [Savers -> Places]
  BY PoolSaves DEF AuditTypeOK
<1>3. Auditing' = Auditing
  BY <1>1 DEF Auditing
<1>4. QED
  BY <1>1, <1>2, <1>3 DEF WorkInv

LEMMA WorkStep ==
    ASSUME AuditTypeOK, WorkInv, TypeOK', [AuditNext]_auditVars
    PROVE  AuditTypeOK' /\ WorkInv'
<1> USE DEF AuditTypeOK
<1>1. ASSUME UNCHANGED <<todo, at, job, auditors, notices, phase>> PROVE WorkInv'
  <2>1. Auditing' = Auditing
    BY <1>1 DEF Auditing
  <2>2. QED
    BY <1>1, <2>1 DEF WorkInv
<1>2. CASE Chain
  <2>1. UNCHANGED <<rules, edits, print, phase, block, deps, late, dep, notices, todo, at,
                    job, auditors, orphans, settled, unseen, unread, edited>>
    BY <1>2 DEF Chain, loopVars, history
  <2>2. now' \in Contents /\ payload' \in Contents /\ file' \in Contents
    <3>1. ASSUME NEW kept \in Kept(now.cache) PROVE kept \subseteq now.cache
      BY <3>1 DEF Kept
    <3>2. CASE Begin /\ \E kept \in Kept(now.cache) : now' = [now EXCEPT !.cache = kept]
      BY <1>2, <3>1, <3>2 DEF Chain, Begin, Serialise, Rename, WriteTemp, Fail, Contents
    <3>3. QED
      BY <1>2, <3>2 DEF Chain, Begin
  <2>3. QED
    BY <1>1, <2>1, <2>2
<1>3. CASE Dies \/ RunFails \/ EndRun
  BY <1>3, ForgetKeepsWork DEF Dies, RunFails, EndRun
<1>4. ASSUME NEW w \in Pool, Audit(w) \/ Exits(w) \/ Overflows(w)
      PROVE  AuditTypeOK' /\ WorkInv'
  BY <1>4, WorkerStepKeepsWork
<1>5. ASSUME NEW s \in Savers, SaveRejected(s) PROVE AuditTypeOK' /\ WorkInv'
  <2>1. /\ at[s] = "saving" /\ at' = [at EXCEPT ![s] = "failed"]
        /\ UNCHANGED <<now, payload, file, rules, edits, print, phase, block, deps, late,
                       dep, notices, todo, job, auditors, orphans, settled, unseen, unread,
                       edited>>
    BY <1>5 DEF SaveRejected, store, loopVars, history
  <2>2. {"free", "saving", "failed"} \subseteq Places
    BY DEF Places
  <2>3. CASE s = Loop
    <3>1. at' = [at EXCEPT ![Loop] = "failed"] /\ "failed" \in Places
      BY <2>1, <2>2, <2>3
    <3>2. UNCHANGED <<todo, job, auditors, notices>> /\ phase' = phase
      BY <2>1
    <3>3. WorkInv' /\ at' \in [Savers -> Places]
      BY <3>1, <3>2, LoopKeepsWork
    <3>4. QED
      BY <2>1, <3>3
  <2>4. CASE s # Loop
    <3>1. /\ at' \in [Savers -> Places] /\ at'[s] = "failed"
          /\ \A v \in Savers \ {s} : at'[v] = at[v]
      BY <2>1, <2>2
    <3>2. \A v \in Pool : /\ at'[v] = "free" <=> at[v] = "free"
                          /\ at'[v] = "auditing" <=> at[v] = "auditing"
      BY <2>1, <3>1, PoolSaves
    <3>3. Auditing' = Auditing
      BY <3>2 DEF Auditing
    <3>4. WorkInv'
      BY <2>1, <3>2, <3>3 DEF WorkInv
    <3>5. QED
      BY <2>1, <3>1, <3>4
  <2>5. QED
    BY <2>3, <2>4
<1>6. CASE StartRun
  <2>1. /\ phase = "down" /\ phase' = "block" /\ block' = now.last + 1 /\ now.last < LastBlock
        /\ print' = rules
        /\ UNCHANGED <<now, payload, file, rules, edits, deps, late, dep, notices, todo, at,
                       job, auditors, orphans, settled, unseen, unread, edited>>
    BY <1>6 DEF StartRun, store, history
  <2>2. now.last \in Nat /\ LastBlock \in Nat
    BY AuditsAssumption DEF Contents
  <2>3. Auditing' = Auditing
    BY <2>1 DEF Auditing
  <2>4. WorkInv'
    BY <2>1, <2>3 DEF WorkInv
  <2>5. QED
    BY <2>1, <2>2, <2>4
<1>7. ASSUME NEW missing \in SUBSET Direct[block], NEW traced \in BOOLEAN,
             Detect(missing, traced)
      PROVE  AuditTypeOK' /\ WorkInv'
  <2>1. /\ phase = "block" /\ phase' = "deployments" /\ deps' = Detected(block, missing, traced)
        /\ late' \subseteq deps'
        /\ unseen' = (unseen \ DeployedIn(block)) \cup (DeployedIn(block) \ deps')
        /\ UNCHANGED <<now, payload, file, rules, edits, print, block, dep, notices, todo,
                       at, job, auditors, orphans, settled, unread, edited>>
    BY <1>7 DEF Detect, store
  <2>2. DeployedIn(block) \subseteq Deployments /\ deps' \subseteq DeployedIn(block)
    BY <2>1, AuditsAssumption DEF Detected, DeployedIn
  <2>3. Auditing' = Auditing
    BY <2>1 DEF Auditing
  <2>4. WorkInv'
    BY <2>1, <2>3 DEF WorkInv
  <2>5. QED
    BY <2>1, <2>2, <2>4
<1>8. ASSUME NEW d \in Deployments, NEW lost \in {"none", "slots", "beacon"}, Open(d, lost)
      PROVE  AuditTypeOK' /\ WorkInv'
  <2>1. /\ phase = "deployments" /\ phase' = "audits" /\ d \in deps /\ dep' = d
        /\ notices' = NoticesOf(d, Resolve(d, lost)) /\ todo' = TargetsOf(d, Resolve(d, lost))
        /\ unread' \in {unread \ {d}, unread \cup {d}}
        /\ UNCHANGED <<now, payload, file, rules, edits, print, block, deps, late, at, job,
                       auditors, orphans, settled, unseen, edited>>
    BY <1>8 DEF Open, store
  <2>2. notices' \in Seq(Id) /\ todo' \in Seq(Target)
    BY <2>1, ResolveType, TargetsType, NoticesType
  <2>3. Auditing' = Auditing
    BY <2>1 DEF Auditing
  <2>4. WorkInv'
    BY <2>1, <2>3 DEF WorkInv
  <2>5. QED
    BY <2>1, <2>2, <2>4
<1>9. CASE Notify
  <2>1. /\ notices # <<>> /\ notices' = Tail(notices) /\ settled' = settled \cup {Head(notices)}
        /\ UNCHANGED <<now, payload, file, rules, edits, print, phase, block, deps, late,
                       dep, todo, at, job, auditors, orphans, unseen, unread, edited>>
    BY <1>9 DEF Notify, store
  <2>2. Head(notices) \in Id /\ notices' \in Seq(Id)
    BY <2>1, HeadAndTail
  <2>3. Auditing' = Auditing
    BY <2>1 DEF Auditing
  <2>4. WorkInv'
    BY <2>1, <2>3 DEF WorkInv
  <2>5. QED
    BY <2>1, <2>2, <2>4
<1>10. CASE Close
  <2>1. /\ phase = "audits" /\ \A s \in Savers : at[s] = "free"
        /\ notices = <<>> /\ todo = <<>>
        /\ phase' = "deployments" /\ dep' = None
        /\ deps' = deps \ {dep} /\ late' = late \ {dep}
        /\ UNCHANGED <<now, payload, file, rules, edits, print, block, notices, todo, at,
                       job, auditors, orphans, settled, unseen, unread, edited>>
    BY <1>10 DEF Close, Processing, store, history
  <2>2. Auditing' = Auditing
    BY <2>1 DEF Auditing
  <2>3. WorkInv'
    BY <2>1, <2>2, PoolSaves DEF WorkInv
  <2>4. QED
    BY <2>1, <2>3
<1>11. CASE Commit
  <2>1. /\ phase = "deployments" /\ phase' = "commit"
        /\ now' = [now EXCEPT !.last = block] /\ at' = [at EXCEPT ![Loop] = "saving"]
        /\ UNCHANGED <<payload, file, rules, edits, print, block, deps, late, dep, notices,
                       todo, job, auditors, orphans, settled, unseen, unread, edited>>
    BY <1>11 DEF Commit, SaveAs, history
  <2>2. now' \in Contents
    BY <2>1 DEF Contents
  <2>3. /\ phase # "audits" /\ phase' # "audits"
        /\ UNCHANGED <<todo, job, auditors, notices>>
        /\ {"free", "saving", "failed"} \subseteq Places
    BY <2>1 DEF Places
  <2>4. WorkInv' /\ at' \in [Savers -> Places]
    BY <2>1, <2>3, LoopKeepsWork
  <2>5. QED
    BY <2>1, <2>2, <2>4
<1>12. CASE NextBlock
  <2>1. /\ phase = "commit" /\ phase' = "block" /\ block < LastBlock /\ block' = block + 1
        /\ at' = [at EXCEPT ![Loop] = "free"]
        /\ UNCHANGED <<now, payload, file, rules, edits, print, deps, late, dep, notices,
                       todo, job, auditors, orphans, settled, unseen, unread, edited>>
    BY <1>12 DEF NextBlock, Committed, store, history
  <2>2. block' \in 1 .. LastBlock
    BY <2>1, AuditsAssumption
  <2>3. /\ phase # "audits" /\ phase' # "audits"
        /\ UNCHANGED <<todo, job, auditors, notices>>
        /\ {"free", "saving", "failed"} \subseteq Places
    BY <2>1 DEF Places
  <2>4. WorkInv' /\ at' \in [Savers -> Places]
    BY <2>1, <2>3, LoopKeepsWork
  <2>5. QED
    BY <2>1, <2>2, <2>4
<1>13. CASE EditRules
  <2>1. /\ rules' \in 0 .. MaxRules /\ edits' = edits + 1
        /\ edited' \in {edited, edited \cup {print}}
        /\ UNCHANGED <<now, payload, file, print, phase, block, deps, late, dep, notices,
                       todo, at, job, auditors, orphans, settled, unseen, unread>>
    BY <1>13 DEF EditRules, store
  <2>2. QED
    BY <1>1, <2>1, AuditsAssumption
<1>14. CASE UNCHANGED auditVars
  <2>1. UNCHANGED <<now, payload, file, rules, edits, print, phase, block, deps, late, dep,
                    notices, todo, at, job, auditors, orphans, settled, unseen, unread,
                    edited>>
    BY <1>14 DEF auditVars, store, loopVars, history
  <2>2. QED
    BY <1>1, <2>1
<1>15. QED
  BY <1>2, <1>3, <1>4, <1>5, <1>6, <1>7, <1>8, <1>9, <1>10, <1>11, <1>12, <1>13, <1>14,
     PoolSaves DEF AuditNext, LoopStep, WorkerStep, Quiet

LEMMA Base == AuditSpec => [](AuditTypeOK /\ WorkInv /\ TypeOK)
<1>1. AuditSpec => []TypeOK
  BY AuditsUseStore, TypeCorrect, PTL
<1>2. AuditTypeOK /\ WorkInv /\ TypeOK' /\ [AuditNext]_auditVars => AuditTypeOK' /\ WorkInv'
  BY WorkStep
<1>3. QED
  BY WorkInit, <1>1, <1>2, PTL DEF AuditSpec

(* Every variable of the block loop, of the workers and of the store       *)
(* always has its type.                                                    *)
THEOREM AuditTypes == AuditSpec => []AuditTypeOK
BY Base, PTL

(* Once a save was rejected the run is to fail: what it leaves behind then  *)
(* is already paid for by that failure.                                    *)
RunFailing == \E s \in Savers : at[s] = "failed" \/ pc[s] = "rejected"

OrphansInv ==
    /\ orphans <= Cardinality(Pool) * faults
    /\ RunFailing => orphans + Cardinality(Pool) <= Cardinality(Pool) * faults

LEMMA AuditorsInPool ==
    ASSUME WorkInv
    PROVE  /\ Cardinality(Pool) \in Nat /\ auditors \in Nat /\ auditors <= Cardinality(Pool)
           /\ phase # "audits" => auditors = 0
<1>1. Auditing \in SUBSET Pool
  BY DEF Auditing
<1>2. /\ Cardinality(Auditing) <= Cardinality(Pool)
      /\ Cardinality(Pool) \in Nat /\ Cardinality(Auditing) \in Nat
  BY <1>1, PoolSaves, FS_Subset, FS_CardinalityType
<1>3. phase # "audits" => Cardinality(Auditing) = 0
  BY NoneAuditing DEF WorkInv
<1>4. QED
  BY <1>2, <1>3 DEF WorkInv

(* A step that spends a fault may leave all auditors of a run behind. *)
LEMMA OneMoreFault ==
    ASSUME NEW n \in Nat, NEW f \in Nat PROVE n * (f + 1) = n * f + n /\ n * f \in Nat
OBVIOUS

LEMMA OrphansStep ==
    ASSUME AuditTypeOK, WorkInv, OrphansInv, [AuditNext]_auditVars PROVE OrphansInv'
<1> DEFINE P == Cardinality(Pool)
<1>1. P \in Nat /\ auditors \in Nat /\ auditors <= P /\ (phase # "audits" => auditors = 0)
  BY AuditorsInPool
<1>2. orphans \in Nat /\ faults \in Nat /\ P * faults \in Nat /\ P * (faults + 1) = P * faults + P
  BY <1>1, OneMoreFault DEF AuditTypeOK, TypeOK
<1>3. at \in [Savers -> Places] /\ pc \in [Savers -> {"idle", "waiting", "stored", "rejected"}]
  BY DEF AuditTypeOK, TypeOK
<1> HIDE DEF P
<1>4. orphans <= P * faults /\ (RunFailing => orphans + P <= P * faults)
  BY DEF OrphansInv, P
<1>5. ASSUME orphans' <= P * faults', RunFailing' => orphans' + P <= P * faults'
      PROVE  OrphansInv'
  BY <1>5 DEF OrphansInv, P
<1>6. ASSUME UNCHANGED <<orphans, faults>>, RunFailing' => RunFailing PROVE OrphansInv'
  BY <1>4, <1>5, <1>6
<1>7. CASE Dies
  <2>1. faults' = faults + 1 /\ orphans' = orphans + auditors /\ ~RunFailing'
    BY <1>7 DEF Dies, Crash, Reload, Forget, RunFailing
  <2>2. QED
    BY <1>1, <1>2, <1>4, <1>5, <2>1
<1>8. CASE RunFails
  <2>1. faults' = faults /\ orphans' = orphans + auditors /\ ~RunFailing' /\ RunFailing
    BY <1>8 DEF RunFails, Exit, Reload, Forget, RunFailing
  <2>2. QED
    BY <1>1, <1>2, <1>4, <1>5, <2>1
<1>9. CASE EndRun
  <2>1. /\ faults' = faults /\ orphans' = orphans + auditors /\ ~RunFailing'
        /\ phase = "commit"
    BY <1>9 DEF EndRun, Committed, Exit, Reload, Forget, RunFailing
  <2>2. QED
    BY <1>1, <1>2, <1>4, <1>5, <2>1
<1>10. CASE Chain
  <2>1. UNCHANGED <<orphans, at>>
    BY <1>10 DEF Chain, history
  <2>2. CASE Begin \/ Serialise \/ WriteTemp
    BY <1>6, <2>1, <2>2 DEF Begin, Serialise, WriteTemp, RunFailing
  <2>3. CASE Rename
    <3>1. \A s \in Savers : pc'[s] = pc[s] \/ pc'[s] = "stored"
      BY <1>3, <2>3 DEF Rename, Settle
    <3>2. QED
      BY <1>6, <2>1, <2>3, <3>1 DEF Rename, RunFailing
  <2>4. CASE Fail
    BY <1>1, <1>2, <1>4, <1>5, <2>1, <2>4 DEF Fail
  <2>5. QED
    BY <1>10, <2>2, <2>3, <2>4 DEF Chain
<1>11. ASSUME NEW s \in Savers, SaveRejected(s) PROVE OrphansInv'
  <2>1. /\ UNCHANGED <<orphans, faults, pc>> /\ pc[s] = "rejected"
    BY <1>11 DEF SaveRejected, store, vars, history
  <2>2. QED
    BY <1>6, <2>1 DEF RunFailing
<1>12. ASSUME NEW s \in Savers, NEW place, place # "failed", at' = [at EXCEPT ![s] = place],
              \A u \in Savers : pc'[u] # "rejected" \/ pc'[u] = pc[u],
              UNCHANGED <<orphans, faults>>
       PROVE  OrphansInv'
  <2>1. RunFailing' => RunFailing
    BY <1>3, <1>12 DEF RunFailing
  <2>2. QED
    BY <1>6, <1>12, <2>1
<1>13. ASSUME NEW w \in Pool, Audit(w) \/ Exits(w) \/ Overflows(w) PROVE OrphansInv'
  <2>1. orphans' = orphans /\ w \in Savers
    BY <1>13, PoolSaves DEF Audit, Exits, Overflows, history
  <2>2. CASE SaveResult(w)
    BY <1>3, <1>12, <2>1, <2>2 DEF SaveResult, SaveAs, Save
  <2>3. CASE FromCache(w) \/ StartAudit(w)
    BY <1>12, <2>1, <2>3 DEF FromCache, StartAudit, WithResult, vars
  <2>4. CASE TimesOut(w) \/ EndKilled(w) \/ ResultSaved(w) \/ Tell(w)
    BY <1>12, <2>1, <2>4 DEF TimesOut, EndKilled, ResultSaved, Tell, Failure, vars
  <2>5. CASE Exits(w) \/ Overflows(w)
    BY <1>12, <2>1, <2>5 DEF Exits, Overflows, store, vars
  <2>6. QED
    BY <1>13, <2>2, <2>3, <2>4, <2>5 DEF Audit
<1>14. CASE Commit
  BY <1>3, <1>12, <1>14, PoolSaves DEF Commit, SaveAs, Save, history
<1>15. CASE NextBlock
  BY <1>12, <1>15, PoolSaves DEF NextBlock, store, vars, history
<1>16. ASSUME \/ StartRun \/ Close \/ Notify \/ EditRules \/ UNCHANGED auditVars
              \/ \E missing \in SUBSET Direct[block], traced \in BOOLEAN :
                     Detect(missing, traced)
              \/ \E d \in Deployments, lost \in {"none", "slots", "beacon"} : Open(d, lost)
       PROVE  OrphansInv'
  <2>1. UNCHANGED <<orphans, faults, pc, at>>
    BY <1>16 DEF StartRun, Close, Processing, Notify, EditRules, Detect, Open, auditVars, store,
                 vars, history
  <2>2. QED
    BY <1>6, <2>1 DEF RunFailing
<1>17. QED
  BY <1>7, <1>8, <1>9, <1>10, <1>11, <1>13, <1>14, <1>15, <1>16, PoolSaves
     DEF AuditNext, LoopStep, WorkerStep, Quiet

(* An auditor process that was not killed is that of a worker that waits   *)
(* for it: there are never more than workers, and none when a block is     *)
(* committed.  The auditors that outlive their run are those of runs that  *)
(* died or failed, a pool of them for each.                                *)
THEOREM AuditorsAreBounded == AuditSpec => []AuditorsBounded
<1>1. ASSUME AuditInit PROVE OrphansInv
  <2>1. Cardinality(Pool) * faults = 0 /\ orphans = 0 /\ ~RunFailing
    BY <1>1, PoolSaves, FS_CardinalityType DEF AuditInit, Init, RunFailing
  <2>2. QED
    BY <2>1 DEF OrphansInv
<1>2. AuditTypeOK /\ WorkInv /\ OrphansInv /\ [AuditNext]_auditVars => OrphansInv'
  BY OrphansStep
<1>3. WorkInv /\ OrphansInv => AuditorsBounded
  BY AuditorsInPool DEF OrphansInv, AuditorsBounded
<1>4. QED
  BY Base, <1>1, <1>2, <1>3, PTL DEF AuditSpec
-----------------------------------------------------------------------------
(* Reports. *)

Filed == now.cache \cup payload.cache \cup file.cache

(* A report on code c that goes under the fingerprint p: what else it may   *)
(* have read are rules edited during a run with that fingerprint.          *)
Filable(rep, c, p) == rep.code = c /\ (rep.rules = p \/ p \in edited)

(* A run keeps the rules it hashed unless they are edited meanwhile; an     *)
(* entry of the cache, in memory or on disk, is a report on the bytecode   *)
(* of its key under its rules; and what a worker holds is a report on its  *)
(* target.                                                                 *)
ReportsInv ==
    /\ phase # "down" => print = rules \/ print \in edited
    /\ \A e \in Filed : Filable(e.report, e.key.code, e.key.rules)
    /\ \A w \in Pool : at[w] # "free" =>
          job[w].result = None \/ Filable(job[w].result, job[w].target.code, print)

LEMMA ReportsStep ==
    ASSUME AuditTypeOK, WorkInv, ReportsInv, [AuditNext]_auditVars PROVE ReportsInv'
<1>1. at \in [Savers -> Places] /\ Pool \subseteq Savers
  BY PoolSaves DEF AuditTypeOK
<1>2. ASSUME Filed' \subseteq Filed, UNCHANGED <<print, rules, phase, at, job, edited>>
      PROVE  ReportsInv'
  BY <1>2 DEF ReportsInv, Filable
<1>3. ASSUME Filed' \subseteq Filed, UNCHANGED <<print, rules, edited>>,
             phase' # "down" => phase # "down",
             NEW s \in Savers, NEW place, at' = [at EXCEPT ![s] = place], job' = job,
             at[s] # "free" \/ s = Loop
      PROVE  ReportsInv'
  <2>1. \A w \in Pool : at'[w] # "free" => at[w] # "free"
    BY <1>1, <1>3 DEF Pool
  <2>2. QED
    BY <1>3, <2>1 DEF ReportsInv, Filable
<1>4. CASE Chain
  <2>1. UNCHANGED <<print, rules, phase, at, job, edited>>
    BY <1>4 DEF Chain, loopVars, history
  <2>2. CASE Begin
    <3>1. PICK kept \in Kept(now.cache) : now' = [now EXCEPT !.cache = kept]
      BY <1>4, <2>2 DEF Chain, Begin, Serialise, Rename, WriteTemp, Fail
    <3>2. kept \subseteq now.cache /\ now \in Contents
      BY DEF Kept, AuditTypeOK
    <3>3. now'.cache = kept /\ payload' = payload /\ file' = file
      BY <1>4, <2>2, <3>1, <3>2 DEF Chain, Begin, Serialise, Rename, WriteTemp, Fail, Contents
    <3>4. QED
      BY <1>2, <2>1, <3>2, <3>3 DEF Filed
  <2>3. CASE ~Begin
    <3>1. Filed' \subseteq Filed
      BY <1>4, <2>3 DEF Chain, Filed
    <3>2. QED
      BY <1>2, <2>1, <3>1
  <2>4. QED
    BY <2>2, <2>3
<1>5. CASE Dies \/ RunFails \/ EndRun
  <2>1. Forget
    BY <1>5 DEF Dies, RunFails, EndRun
  <2>2. Filed' \subseteq Filed /\ phase' = "down" /\ edited' = edited
        /\ \A w \in Pool : at'[w] = "free"
    BY <1>1, <2>1 DEF Forget, Filed
  <2>3. QED
    BY <2>2 DEF ReportsInv, Filable
<1>6. ASSUME NEW s \in Savers, SaveRejected(s) PROVE ReportsInv'
  BY <1>3, <1>6 DEF SaveRejected, store, loopVars, history, Filed
<1>7. ASSUME NEW w \in Pool, Audit(w) \/ Exits(w) \/ Overflows(w) PROVE ReportsInv'
  <2>1. UNCHANGED <<payload, file, rules, print, phase, edited>>
    BY <1>7 DEF Audit, Exits, Overflows, store, loopVars, history
  <2>2. /\ w \in Savers /\ job \in [Pool -> JobRec \cup {None}]
        /\ at[w] # "free" => job[w] \in JobRec /\ phase # "down"
    BY <1>1 DEF AuditTypeOK, JobRec, WorkInv
  <2>3. ASSUME now' = now, NEW t \in Target, NEW r, NEW place,
               Filable(r, t.code, print),
               job' = [job EXCEPT ![w] = [target |-> t, result |-> r]],
               at' = [at EXCEPT ![w] = place]
        PROVE  ReportsInv'
    <3>1. job'[w] = [target |-> t, result |-> r]
          /\ \A v \in Pool \ {w} : job'[v] = job[v] /\ at'[v] = at[v]
      BY <1>1, <2>2, <2>3
    <3>2. Filable(job'[w].result, job'[w].target.code, print)
      BY <2>3, <3>1
    <3>3. Filed' = Filed
      BY <2>1, <2>3 DEF Filed
    <3>4. QED
      BY <2>1, <3>1, <3>2, <3>3 DEF ReportsInv, Filable
  <2>4. ASSUME at[w] # "free", now' = now, NEW place, at' = [at EXCEPT ![w] = place],
               job' \in {job, [job EXCEPT ![w].result = None]}
        PROVE  ReportsInv'
    <3>1. /\ \A v \in Pool \ {w} : job'[v] = job[v] /\ at'[v] = at[v]
          /\ job'[w].target = job[w].target /\ job'[w].result \in {job[w].result, None}
      BY <1>1, <2>2, <2>4 DEF JobRec
    <3>2. Filed' = Filed
      BY <2>1, <2>4 DEF Filed
    <3>3. \A v \in Pool : at'[v] # "free" =>
             job'[v].result = None \/ Filable(job'[v].result, job'[v].target.code, print)
      BY <2>1, <2>4, <3>1 DEF ReportsInv
    <3>4. QED
      BY <2>1, <3>2, <3>3 DEF ReportsInv, Filable
  <2>5. CASE FromCache(w)
    <3>1. /\ todo # <<>> /\ now' = now
          /\ \E e \in now.cache :
                /\ e.key = KeyOf(Head(todo))
                /\ job' = [job EXCEPT ![w] = [target |-> Head(todo), result |-> e.report]]
                /\ at' = [at EXCEPT ![w] = "telling"]
      BY <2>5 DEF FromCache, Take, Cached, WithResult
    <3>2. Head(todo) \in Target
      BY <3>1, HeadAndTail DEF AuditTypeOK
    <3>3. PICK e \in now.cache :
             /\ e.key = KeyOf(Head(todo))
             /\ job' = [job EXCEPT ![w] = [target |-> Head(todo), result |-> e.report]]
             /\ at' = [at EXCEPT ![w] = "telling"]
      BY <3>1
    <3>4. e.key.code = Head(todo).code /\ e.key.rules = print
      BY <3>3 DEF KeyOf
    <3>5. Filable(e.report, Head(todo).code, print)
      BY <3>4 DEF ReportsInv, Filed
    <3>6. QED
      BY <2>3, <3>1, <3>2, <3>3, <3>5
  <2>6. CASE StartAudit(w)
    <3>1. /\ todo # <<>> /\ now' = now /\ phase = "audits"
          /\ job' = [job EXCEPT ![w] =
                        [target |-> Head(todo),
                         result |-> [code |-> Head(todo).code, rules |-> rules]]]
          /\ at' = [at EXCEPT ![w] = "auditing"]
      BY <2>6 DEF StartAudit, Take, WithResult
    <3>2. /\ Head(todo) \in Target
          /\ Filable([code |-> Head(todo).code, rules |-> rules], Head(todo).code, print)
      BY <3>1, HeadAndTail DEF AuditTypeOK, ReportsInv, Filable
    <3>3. QED
      BY <2>3, <3>1, <3>2
  <2>7. CASE TimesOut(w) \/ EndKilled(w) \/ ResultSaved(w)
    BY <2>4, <2>7 DEF TimesOut, EndKilled, ResultSaved, Failure
  <2>8. CASE Exits(w) \/ Overflows(w)
    BY <2>4, <2>8 DEF Exits, Overflows, store
  <2>9. CASE SaveResult(w)
    <3>1. /\ at[w] = "artifact" /\ job' = job /\ at' = [at EXCEPT ![w] = "saving"]
          /\ now' = IF job[w].result = None THEN now
                    ELSE [now EXCEPT !.cache = Put(KeyOf(job[w].target), job[w].result)]
      BY <2>9 DEF SaveResult, SaveAs
    <3>2. \A v \in Pool : at'[v] # "free" => at[v] # "free"
      BY <1>1, <3>1
    <3>3. CASE job[w].result = None
      BY <2>4, <3>1, <3>3
    <3>4. CASE job[w].result # None
      <4>1. Filable(job[w].result, job[w].target.code, print)
        BY <3>1, <3>4 DEF ReportsInv
      <4>2. now'.cache = Put(KeyOf(job[w].target), job[w].result)
        BY <3>1, <3>4 DEF AuditTypeOK, Contents
      <4>3. \A e \in now'.cache : Filable(e.report, e.key.code, e.key.rules)
        <5>1. \A e \in now.cache : Filable(e.report, e.key.code, e.key.rules)
          BY DEF ReportsInv, Filed
        <5>2. /\ KeyOf(job[w].target).code = job[w].target.code
              /\ KeyOf(job[w].target).rules = print
          BY DEF KeyOf
        <5>3. ASSUME NEW e \in now'.cache, e \notin now.cache
              PROVE  e.key = KeyOf(job[w].target) /\ e.report = job[w].result
          BY <4>2, <5>3 DEF Put
        <5>4. QED
          BY <4>1, <5>1, <5>2, <5>3
      <4>4. \A e \in Filed' : Filable(e.report, e.key.code, e.key.rules)
        BY <2>1, <4>3 DEF Filed, ReportsInv
      <4>5. QED
        BY <2>1, <3>1, <3>2, <4>4 DEF ReportsInv, Filable
    <3>5. QED
      BY <3>3, <3>4
  <2>10. CASE Tell(w)
    <3>1. /\ at' = [at EXCEPT ![w] = "free"] /\ job' = [job EXCEPT ![w] = None] /\ now' = now
      BY <2>10 DEF Tell
    <3>2. /\ at'[w] = "free" /\ \A v \in Pool \ {w} : job'[v] = job[v] /\ at'[v] = at[v]
      BY <1>1, <2>2, <3>1
    <3>3. Filed' = Filed
      BY <2>1, <3>1 DEF Filed
    <3>4. QED
      BY <2>1, <3>2, <3>3 DEF ReportsInv, Filable
  <2>11. QED
    BY <1>7, <2>5, <2>6, <2>7, <2>8, <2>9, <2>10 DEF Audit
<1>8. CASE StartRun
  <2>1. phase = "down" /\ print' = rules /\ UNCHANGED <<now, payload, file, rules, at,
                                                        edited>>
    BY <1>8 DEF StartRun, store, history
  <2>2. \A w \in Pool : at'[w] = "free"
    BY <2>1 DEF WorkInv
  <2>3. Filed' = Filed
    BY <2>1 DEF Filed
  <2>4. QED
    BY <2>1, <2>2, <2>3 DEF ReportsInv, Filable
<1>9. ASSUME \/ Close \/ Notify
             \/ \E missing \in SUBSET Direct[block], traced \in BOOLEAN : Detect(missing, traced)
             \/ \E d \in Deployments, lost \in {"none", "slots", "beacon"} : Open(d, lost)
      PROVE  ReportsInv'
  <2>1. UNCHANGED <<now, payload, file, rules, print, at, job, edited>>
        /\ phase # "down"
    BY <1>9 DEF Close, Processing, Notify, Detect, Open, store, history, WorkInv
  <2>2. Filed' = Filed
    BY <2>1 DEF Filed
  <2>3. QED
    BY <2>1, <2>2 DEF ReportsInv, Filable
<1>10. CASE Commit \/ NextBlock
  <2>1. /\ UNCHANGED <<payload, file, rules, print, job, edited>> /\ phase # "down"
        /\ \E place \in {"saving", "free"} : at' = [at EXCEPT ![Loop] = place]
        /\ now'.cache = now.cache
    BY <1>10 DEF Commit, NextBlock, Committed, SaveAs, store, history, AuditTypeOK, Contents
  <2>2. Filed' = Filed
    BY <2>1 DEF Filed
  <2>3. QED
    BY <1>3, <2>1, <2>2, PoolSaves
<1>11. CASE EditRules
  <2>1. /\ UNCHANGED <<now, payload, file, print, phase, at, job>> /\ edited \subseteq edited'
        /\ phase # "down" => print \in edited'
    BY <1>11 DEF EditRules, store
  <2>2. Filed' = Filed
    BY <2>1 DEF Filed
  <2> DEFINE After(rep, c, p) == rep.code = c /\ (rep.rules = p \/ p \in edited')
  <2>3. \A rep, c, p : Filable(rep, c, p) => After(rep, c, p)
    BY <2>1 DEF Filable
  <2>4. \A e \in Filed : After(e.report, e.key.code, e.key.rules)
    BY <2>3 DEF ReportsInv
  <2>5. \A w \in Pool : at[w] # "free" =>
           job[w].result = None \/ After(job[w].result, job[w].target.code, print)
    BY <2>3 DEF ReportsInv
  <2>6. QED
    BY <2>1, <2>2, <2>4, <2>5 DEF ReportsInv, Filable
<1>12. CASE UNCHANGED auditVars
  BY <1>2, <1>12 DEF auditVars, store, loopVars, history, Filed
<1>13. QED
  BY <1>4, <1>5, <1>6, <1>7, <1>8, <1>9, <1>10, <1>11, <1>12, PoolSaves
     DEF AuditNext, LoopStep, WorkerStep, Quiet

(* Through crashes, pruning, results in flight and edits of the rules at   *)
(* any time, a result that is used is a report on the target's own         *)
(* bytecode, under the rules that the run hashed unless the rules were     *)
(* edited while a run with that fingerprint was going on.                  *)
THEOREM ResultsAreOwn == AuditSpec => []ReportsAreOwn
<1>1. AuditInit => ReportsInv
  BY PoolSaves DEF AuditInit, ReportsInv, Filed, Empty
<1>2. AuditTypeOK /\ WorkInv /\ ReportsInv /\ [AuditNext]_auditVars => ReportsInv'
  BY ReportsStep
<1>3. AuditTypeOK /\ WorkInv /\ ReportsInv => ReportsAreOwn
  BY DEF WorkInv, ReportsInv, Filable, ReportsAreOwn
<1>4. QED
  BY Base, <1>1, <1>2, <1>3, PTL DEF AuditSpec
-----------------------------------------------------------------------------
(* No deployment is left out. *)

(* What is saved lags behind what is in memory, which lags behind the loop *)
(* by the block it is at.                                                  *)
OrderInv ==
    /\ file.last <= payload.last /\ payload.last <= now.last /\ now.last <= LastBlock
    /\ phase \in {"block", "deployments", "audits"} => block = now.last + 1
    /\ phase = "commit" => block = now.last

(* What the node showed of a block, by a receipt or a trace. *)
Shown(b) == DeployedIn(b) \ unseen

PassedInv == \A b \in 1 .. now.last : \A d \in Shown(b) : Processed(d)

(* Of the block at hand, what is not processed is still in deps. *)
BlockInv ==
    phase \in {"deployments", "audits"} =>
        /\ deps \subseteq Shown(block)
        /\ \A d \in Shown(block) \ deps : Processed(d)

(* id went through emitEvent, or waits for its turn, or a worker has it. *)
Known(id) ==
    \/ id \in settled
    \/ id \in Range(notices)
    \/ \E t \in Range(todo) : id = TargetId(t)
    \/ \E w \in Pool : at[w] # "free" /\ id = TargetId(job[w].target)

(* Of the deployment in hand, nothing that Processed asks for is lost. *)
InHandInv ==
    phase = "audits" =>
        /\ Known(<<dep, "detected">>)
        /\ \E kind \in {"skipped", "runtime", "proxy_shell"} : Known(<<dep, kind>>)
        /\ dep \notin unread => \A kind \in Owed(dep) : Known(<<dep, kind>>)

LEMMA RangeOfOne == ASSUME NEW x PROVE Range(<<x>>) = {x} /\ Range(<<>>) = {}
BY DEF Range

(* The deployment itself is a target if it can be audited at all. *)
LEMMA TargetsOfDeployment ==
    ASSUME NEW d \in Deployments, NEW p \in Resolutions
    PROVE  /\ \A t \in Range(TargetsOf(d, p)) : t.dep = d
           /\ Auditable(CodeOf[d]) => \E t \in Range(TargetsOf(d, p)) :
                 t.dep = d /\ t.kind \in {"runtime", "proxy_shell"}
<1> DEFINE Own == TargetAt(d, BaseKind(p), d)
           Beacon == TargetAt(d, "beacon", p.beacon)
           Impl == TargetAt(d, "implementation", p.impl)
           Any == [dep : {d}, kind : Kinds, code : {CodeOf[a] : a \in Accounts \cup {None}}]
<1>1. ASSUME NEW kind \in Kinds, NEW a \in Accounts \cup {None}
      PROVE  /\ TargetAt(d, kind, a) \in Seq(Any)
             /\ HasCode(a) => Range(TargetAt(d, kind, a)) =
                                 {[dep |-> d, kind |-> kind, code |-> CodeOf[a]]}
  <2>1. CASE HasCode(a)
    <3>1. TargetAt(d, kind, a) = <<[dep |-> d, kind |-> kind, code |-> CodeOf[a]]>>
      BY <2>1 DEF TargetAt
    <3>2. [dep |-> d, kind |-> kind, code |-> CodeOf[a]] \in Any
      OBVIOUS
    <3>3. QED
      BY <2>1, <3>1, <3>2, RangeOfOne
  <2>2. CASE ~HasCode(a)
    BY <2>2 DEF TargetAt
  <2>3. QED
    BY <2>1, <2>2
<1>2. /\ BaseKind(p) \in Kinds /\ BaseKind(p) \in {"runtime", "proxy_shell"}
      /\ {"beacon", "implementation"} \subseteq Kinds /\ d \in Accounts
      /\ p.beacon \in Accounts \cup {None} /\ p.impl \in Accounts \cup {None}
  BY AuditsAssumption DEF BaseKind, Kinds, Resolutions
<1>3. Own \in Seq(Any) /\ Beacon \in Seq(Any) /\ Impl \in Seq(Any)
  BY <1>1, <1>2
<1>4. /\ Own \o Beacon \in Seq(Any) /\ (Own \o Beacon) \o Impl \in Seq(Any)
      /\ Range((Own \o Beacon) \o Impl) = Range(Own) \cup Range(Beacon) \cup Range(Impl)
  <2> HIDE DEF Own, Beacon, Impl, Any
  <2>1. Own \o Beacon \in Seq(Any) /\ Range(Own \o Beacon) = Range(Own) \cup Range(Beacon)
    BY <1>3, RangeOfJoin
  <2>2. ASSUME NEW s \in Seq(Any), NEW t \in Seq(Any)
        PROVE  s \o t \in Seq(Any) /\ Range(s \o t) = Range(s) \cup Range(t)
    BY RangeOfJoin
  <2>3. /\ (Own \o Beacon) \o Impl \in Seq(Any)
        /\ Range((Own \o Beacon) \o Impl) = Range(Own \o Beacon) \cup Range(Impl)
    BY <1>3, <2>1, <2>2
  <2>4. QED
    BY <2>1, <2>3
<1>5. \A s \in Seq(Any) : \A t \in Range(s) : t.dep = d
  <2>1. \A t \in Any : t.dep = d
    OBVIOUS
  <2> HIDE DEF Any
  <2>2. \A s \in Seq(Any) : \A t \in Range(s) : t \in Any
    BY DEF Range
  <2>3. QED
    BY <2>1, <2>2
<1>6. CASE ~Auditable(CodeOf[d])
  <2>1. TargetsOf(d, p) = <<>>
    BY <1>6 DEF TargetsOf
  <2>2. QED
    BY <1>6, <2>1, RangeOfOne
<1>7. CASE Auditable(CodeOf[d])
  <2>1. TargetsOf(d, p) = (Own \o Beacon) \o Impl
    BY <1>7 DEF TargetsOf
  <2>2. HasCode(d)
    BY <1>2, <1>7, AuditsAssumption DEF Auditable, HasCode
  <2>3. [dep |-> d, kind |-> BaseKind(p), code |-> CodeOf[d]] \in Range(TargetsOf(d, p))
    BY <1>1, <1>2, <1>4, <2>1, <2>2
  <2>4. QED
    BY <1>2, <1>4, <1>5, <2>1, <2>3
<1>8. QED
  BY <1>6, <1>7

LEMMA NoticesOfDeployment ==
    ASSUME NEW d \in Deployments, NEW p
    PROVE  /\ <<d, "detected">> \in Range(NoticesOf(d, p))
           /\ ~Auditable(CodeOf[d]) => <<d, "skipped">> \in Range(NoticesOf(d, p))
<1> DEFINE Rest == IF ~Auditable(CodeOf[d]) THEN <<<<d, "skipped">>>>
                   ELSE IF p.detected /\ p.impl = None THEN <<<<d, "unresolved">>>>
                   ELSE <<>>
           First == <<<<d, "detected">>>>
<1>1. First \in Seq(Id)
  BY DEF Id, Notices
<1>2. Rest \in Seq(Id)
  <2>1. <<<<d, "skipped">>>> \in Seq(Id) /\ <<<<d, "unresolved">>>> \in Seq(Id)
    BY DEF Id, Notices
  <2>2. <<>> \in Seq(Id)
    OBVIOUS
  <2>3. QED
    BY <2>1, <2>2
<1>3. NoticesOf(d, p) = First \o Rest
  BY DEF NoticesOf
<1>4. Range(NoticesOf(d, p)) = Range(First) \cup Range(Rest)
  <2> HIDE DEF First, Rest
  <2>1. QED
    BY <1>1, <1>2, <1>3, RangeOfJoin
<1>5. ~Auditable(CodeOf[d]) => Rest = <<<<d, "skipped">>>>
  OBVIOUS
<1>6. QED
  BY <1>4, <1>5, RangeOfOne

(* What was processed stays processed while the histories only grow. *)
LEMMA StaysProcessed ==
    ASSUME settled \subseteq settled', NEW d, Processed(d), d \in unread => d \in unread'
    PROVE  Processed(d)'
BY DEF Processed, Owed

(* Nothing that a step of a worker takes up is dropped. *)
LEMMA WorkerKeepsKnown ==
    ASSUME AuditTypeOK, WorkInv, NEW w \in Pool, Audit(w) \/ Exits(w) \/ Overflows(w),
           NEW id, Known(id)
    PROVE  Known(id)'
<1>1. at \in [Savers -> Places] /\ w \in Savers /\ Pool \subseteq Savers
      /\ job \in [Pool -> JobRec \cup {None}]
  BY PoolSaves DEF AuditTypeOK, JobRec
<1>2. /\ notices' = notices /\ settled \subseteq settled'
      /\ \A v \in Pool \ {w} : at'[v] = at[v] /\ job'[v] = job[v]
  BY <1>1 DEF Audit, FromCache, StartAudit, TimesOut, EndKilled, SaveResult, ResultSaved, Tell,
              Exits, Overflows, WithResult, Failure, SaveAs, loopVars, store, history
<1>3. CASE FromCache(w) \/ StartAudit(w)
  <2>1. /\ at[w] = "free" /\ todo # <<>> /\ todo' = Tail(todo)
        /\ at'[w] # "free" /\ job'[w].target = Head(todo)
    BY <1>1, <1>3 DEF FromCache, StartAudit, Take, WithResult
  <2>2. Range(todo) \subseteq {Head(todo)} \cup Range(Tail(todo))
    BY <2>1, HeadAndTail DEF AuditTypeOK
  <2>3. QED
    BY <1>2, <2>1, <2>2 DEF Known
<1>4. CASE Tell(w)
  <2>1. /\ todo' = todo /\ settled' = settled \cup {TargetId(job[w].target)}
    BY <1>4 DEF Tell
  <2>2. QED
    BY <1>2, <2>1 DEF Known
<1>5. CASE TimesOut(w) \/ EndKilled(w) \/ SaveResult(w) \/ ResultSaved(w) \/ Exits(w)
           \/ Overflows(w)
  <2>1. at[w] # "free"
    BY <1>5 DEF TimesOut, EndKilled, SaveResult, ResultSaved, Exits, Overflows
  <2>2. job[w] \in JobRec
    BY <2>1 DEF WorkInv
  <2>3. at'[w] # "free" /\ todo' = todo
    BY <1>1, <1>5 DEF TimesOut, EndKilled, SaveResult, ResultSaved, Exits, Overflows, Failure,
                      SaveAs
  <2>4. job' \in {job, [job EXCEPT ![w].result = None]}
    BY <1>5 DEF TimesOut, EndKilled, SaveResult, ResultSaved, Exits, Overflows, Failure
  <2>5. job'[w].target = job[w].target
    BY <1>1, <2>2, <2>4 DEF JobRec
  <2>6. QED
    BY <1>2, <2>1, <2>3, <2>5 DEF Known
<1>6. QED
  BY <1>3, <1>4, <1>5 DEF Audit

(* processDeployment takes up all that Processed asks for. *)
LEMMA OpenTakesAll ==
    ASSUME AuditTypeOK, NEW d \in Deployments, NEW lost \in {"none", "slots", "beacon"},
           Open(d, lost)
    PROVE  InHandInv'
<1> DEFINE p == Resolve(d, lost)
<1>1. /\ dep' = d /\ notices' = NoticesOf(d, p) /\ todo' = TargetsOf(d, p)
      /\ unread' = IF p = Resolve(d, "none") THEN unread \ {d} ELSE unread \cup {d}
  BY DEF Open
<1>2. p \in Resolutions
  BY ResolveType
<1> HIDE DEF p
<1>3. Known(<<d, "detected">>)'
  BY <1>1, NoticesOfDeployment DEF Known
<1>4. \E kind \in {"skipped", "runtime", "proxy_shell"} : Known(<<d, kind>>)'
  <2>1. CASE Auditable(CodeOf[d])
    <3>1. PICK t \in Range(TargetsOf(d, p)) : t.dep = d /\ t.kind \in {"runtime", "proxy_shell"}
      BY <1>2, <2>1, TargetsOfDeployment
    <3>2. TargetId(t) = <<d, t.kind>>
      BY <3>1 DEF TargetId
    <3>3. QED
      BY <1>1, <3>1, <3>2 DEF Known
  <2>2. CASE ~Auditable(CodeOf[d])
    BY <1>1, <2>2, NoticesOfDeployment DEF Known
  <2>3. QED
    BY <2>1, <2>2
<1>5. ASSUME d \notin unread', NEW kind \in Owed(d) PROVE Known(<<d, kind>>)'
  <2>1. p = Resolve(d, "none")
    BY <1>1, <1>5
  <2>2. PICK t \in Range(TargetsOf(d, p)) : t.kind = kind
    BY <1>5, <2>1 DEF Owed
  <2>3. TargetId(t) = <<d, kind>>
    BY <1>2, <2>2, TargetsOfDeployment DEF TargetId
  <2>4. QED
    BY <1>1, <2>2, <2>3 DEF Known
<1>6. QED
  BY <1>1, <1>3, <1>4, <1>5 DEF InHandInv

ProcInv == OrderInv /\ PassedInv /\ BlockInv /\ InHandInv

(* A step after which the loop is where it was, and nothing is dropped. *)
LEMMA QuietStep ==
    ASSUME ProcInv, settled \subseteq settled',
           UNCHANGED <<phase, block, deps, late, dep, unseen, unread>>,
           now'.last = now.last, OrderInv',
           phase = "audits" => \A id : Known(id) => Known(id)'
    PROVE  ProcInv'
<1>1. \A d : Processed(d) => Processed(d)'
  BY StaysProcessed
<1>2. \A b : Shown(b)' = Shown(b)
  BY DEF Shown
<1>3. PassedInv' /\ BlockInv'
  BY <1>1, <1>2 DEF ProcInv, PassedInv, BlockInv
<1>4. InHandInv'
  BY DEF ProcInv, InHandInv
<1>5. QED
  BY <1>3, <1>4 DEF ProcInv

LEMMA ProcStep ==
    ASSUME AuditTypeOK, WorkInv, ProcInv, [AuditNext]_auditVars PROVE ProcInv'
<1>1. /\ now.last \in Nat /\ payload.last \in Nat /\ file.last \in Nat /\ LastBlock \in Nat
      /\ now \in Contents
  BY AuditsAssumption DEF AuditTypeOK, Contents
<1>2. CASE Chain
  <2>1. UNCHANGED <<phase, block, deps, late, dep, notices, todo, at, job, orphans, settled,
                    unseen, unread, edited>>
    BY <1>2 DEF Chain, loopVars, history
  <2>2. /\ now'.last = now.last
        /\ payload'.last \in {payload.last, now.last}
        /\ file'.last \in {file.last, payload.last}
        /\ payload' = payload \/ file' = file
    BY <1>1, <1>2 DEF Chain, Contents
  <2>3. OrderInv'
    BY <1>1, <2>1, <2>2 DEF ProcInv, OrderInv
  <2>4. \A id : Known(id) => Known(id)'
    BY <2>1 DEF Known
  <2>5. QED
    BY <2>1, <2>2, <2>3, <2>4, QuietStep
<1>3. CASE Dies \/ RunFails \/ EndRun
  <2>1. /\ now' = file /\ payload' = file /\ file' = file /\ phase' = "down"
        /\ UNCHANGED <<settled, unseen, unread>>
    BY <1>3 DEF Dies, RunFails, EndRun, Forget, history
  <2>2. OrderInv'
    BY <1>1, <2>1 DEF ProcInv, OrderInv
  <2>3. 1 .. file.last \subseteq 1 .. now.last
    BY <1>1 DEF ProcInv, OrderInv
  <2>4. PassedInv'
    BY <2>1, <2>3, StaysProcessed DEF ProcInv, PassedInv, Shown
  <2>5. QED
    BY <2>1, <2>2, <2>4 DEF ProcInv, BlockInv, InHandInv
<1>4. ASSUME NEW s \in Savers, SaveRejected(s) PROVE ProcInv'
  <2>1. /\ UNCHANGED <<now, payload, file, phase, block, deps, late, dep, notices, todo,
                       job, settled, unseen, unread>>
        /\ at[s] = "saving" /\ at' = [at EXCEPT ![s] = "failed"]
    BY <1>4 DEF SaveRejected, store, loopVars, history
  <2>2. \A w \in Pool : at[w] # "free" => at'[w] # "free"
    BY <2>1, PoolSaves DEF AuditTypeOK
  <2>3. \A id : Known(id) => Known(id)'
    BY <2>1, <2>2 DEF Known
  <2>4. OrderInv'
    BY <2>1 DEF ProcInv, OrderInv
  <2>5. QED
    BY <2>1, <2>3, <2>4, QuietStep
<1>5. ASSUME NEW w \in Pool, Audit(w) \/ Exits(w) \/ Overflows(w) PROVE ProcInv'
  <2>1. /\ UNCHANGED <<payload, file, phase, block, deps, late, dep, unseen, unread>>
        /\ settled \subseteq settled'
    BY <1>5 DEF Audit, FromCache, StartAudit, TimesOut, EndKilled, SaveResult, ResultSaved, Tell,
                Exits, Overflows, loopVars, store, history
  <2>2. now'.last = now.last
    BY <1>1, <1>5 DEF Audit, FromCache, StartAudit, TimesOut, EndKilled, SaveResult, SaveAs,
                      ResultSaved, Tell, Exits, Overflows, store, Contents
  <2>3. OrderInv'
    BY <2>1, <2>2 DEF ProcInv, OrderInv
  <2>4. \A id : Known(id) => Known(id)'
    BY <1>5, WorkerKeepsKnown
  <2>5. QED
    BY <2>1, <2>2, <2>3, <2>4, QuietStep
<1>6. CASE StartRun \/ NextBlock
  <2>1. /\ UNCHANGED <<now, payload, file, orphans, settled, unseen, unread, edited>>
        /\ phase' = "block" /\ block' = now.last + 1
    BY <1>6 DEF StartRun, NextBlock, Committed, store, history, ProcInv, OrderInv
  <2>2. OrderInv' /\ BlockInv' /\ InHandInv'
    BY <1>1, <2>1 DEF ProcInv, OrderInv, BlockInv, InHandInv
  <2>3. PassedInv'
    BY <2>1, StaysProcessed DEF ProcInv, PassedInv, Shown
  <2>4. QED
    BY <2>2, <2>3 DEF ProcInv
<1>7. ASSUME NEW missing \in SUBSET Direct[block], NEW traced \in BOOLEAN,
             Detect(missing, traced)
      PROVE  ProcInv'
  <2>1. /\ phase = "block" /\ phase' = "deployments" /\ deps' = Detected(block, missing, traced)
        /\ unseen' = (unseen \ DeployedIn(block)) \cup (DeployedIn(block) \ deps')
        /\ UNCHANGED <<now, payload, file, block, settled, unread>>
    BY <1>7 DEF Detect, store
  <2>2. Shown(block)' = deps'
    <3>1. deps' \subseteq DeployedIn(block)
      BY <2>1 DEF Detected, DeployedIn
    <3>2. QED
      BY <2>1, <3>1 DEF Shown, DeployedIn
  <2>3. block = now.last + 1 /\ block \in 1 .. LastBlock
    BY <2>1 DEF ProcInv, OrderInv, AuditTypeOK
  <2>4. ASSUME NEW b \in 1 .. now.last PROVE Shown(b)' = Shown(b)
    <3>1. b # block /\ b \in 1 .. LastBlock
      BY <1>1, <2>3, <2>4 DEF ProcInv, OrderInv
    <3>2. DeployedIn(b) \cap DeployedIn(block) = {}
      BY <2>3, <3>1, AuditsAssumption DEF DeployedIn
    <3>3. QED
      BY <2>1, <3>2 DEF Shown, DeployedIn
  <2>5. PassedInv'
    BY <2>1, <2>4, StaysProcessed DEF ProcInv, PassedInv
  <2>6. OrderInv' /\ BlockInv' /\ InHandInv'
    BY <2>1, <2>2 DEF ProcInv, OrderInv, BlockInv, InHandInv
  <2>7. QED
    BY <2>5, <2>6 DEF ProcInv
<1>8. ASSUME NEW d \in Deployments, NEW lost \in {"none", "slots", "beacon"}, Open(d, lost)
      PROVE  ProcInv'
  <2>1. /\ phase = "deployments" /\ phase' = "audits" /\ d \in deps
        /\ unread' \in {unread \ {d}, unread \cup {d}}
        /\ UNCHANGED <<now, payload, file, block, deps, orphans, settled, unseen, edited>>
    BY <1>8 DEF Open, store
  <2>2. InHandInv'
    BY <1>8, OpenTakesAll
  <2>3. block \in 1 .. LastBlock /\ block = now.last + 1 /\ d \in Shown(block)
    BY <2>1 DEF AuditTypeOK, ProcInv, OrderInv, BlockInv
  <2>4. \A e : e # d /\ Processed(e) => Processed(e)'
    BY <2>1, StaysProcessed
  <2>5. ASSUME NEW b \in 1 .. now.last PROVE d \notin Shown(b)
    <3>1. b # block /\ b \in 1 .. LastBlock
      BY <1>1, <2>3, <2>5 DEF ProcInv, OrderInv
    <3>2. (Direct[b] \cup Traced[b]) \cap (Direct[block] \cup Traced[block]) = {}
      BY <2>3, <3>1, AuditsAssumption
    <3>3. QED
      BY <2>3, <3>2 DEF Shown, DeployedIn
  <2>6. \A b : Shown(b)' = Shown(b)
    BY <2>1 DEF Shown
  <2>7. PassedInv'
    BY <2>1, <2>4, <2>5, <2>6 DEF ProcInv, PassedInv
  <2>8. BlockInv'
    BY <2>1, <2>4, <2>6 DEF ProcInv, BlockInv
  <2>9. OrderInv'
    BY <2>1 DEF ProcInv, OrderInv
  <2>10. QED
    BY <2>2, <2>7, <2>8, <2>9 DEF ProcInv
<1>9. CASE Notify
  <2>1. /\ notices # <<>> /\ notices' = Tail(notices) /\ settled' = settled \cup {Head(notices)}
        /\ UNCHANGED <<now, payload, file, phase, block, deps, late, dep, todo, at, job,
                       orphans, unseen, edited, unread>>
    BY <1>9 DEF Notify, store
  <2>2. Range(notices) \subseteq {Head(notices)} \cup Range(Tail(notices))
    BY <2>1, HeadAndTail DEF AuditTypeOK
  <2>3. \A id : Known(id) => Known(id)'
    BY <2>1, <2>2 DEF Known
  <2>4. OrderInv'
    BY <2>1 DEF ProcInv, OrderInv
  <2>5. QED
    BY <2>1, <2>3, <2>4, QuietStep
<1>10. CASE Close
  <2>1. /\ phase = "audits" /\ \A s \in Savers : at[s] = "free"
        /\ notices = <<>> /\ todo = <<>>
        /\ phase' = "deployments" /\ deps' = deps \ {dep}
        /\ UNCHANGED <<now, payload, file, block, orphans, settled, unseen, unread, edited>>
    BY <1>10 DEF Close, Processing, store, history
  <2>2. \A id : Known(id) => id \in settled
    BY <2>1, PoolSaves, RangeOfOne DEF Known
  <2>3. Processed(dep)
    BY <2>1, <2>2 DEF ProcInv, InHandInv, Processed
  <2>4. \A d : Processed(d) => Processed(d)'
    BY <2>1, StaysProcessed
  <2>5. \A b : Shown(b)' = Shown(b)
    BY <2>1 DEF Shown
  <2>6. PassedInv' /\ BlockInv'
    BY <2>1, <2>3, <2>4, <2>5 DEF ProcInv, PassedInv, BlockInv
  <2>7. OrderInv' /\ InHandInv'
    BY <2>1 DEF ProcInv, OrderInv, InHandInv
  <2>8. QED
    BY <2>6, <2>7 DEF ProcInv
<1>11. CASE Commit
  <2>1. /\ phase = "deployments" /\ deps = {} /\ phase' = "commit"
        /\ now' = [now EXCEPT !.last = block]
        /\ UNCHANGED <<payload, file, block, orphans, settled, unseen, unread, edited>>
    BY <1>11 DEF Commit, SaveAs, history
  <2>2. now'.last = block /\ block = now.last + 1 /\ block <= LastBlock
    BY <1>1, <2>1 DEF Contents, ProcInv, OrderInv, AuditTypeOK
  <2>3. \A b \in 1 .. now'.last : b \in 1 .. now.last \/ b = block
    BY <1>1, <2>2
  <2>4. \A d : Processed(d) => Processed(d)'
    BY <2>1, StaysProcessed
  <2>5. \A b : Shown(b)' = Shown(b)
    BY <2>1 DEF Shown
  <2>6. PassedInv'
    BY <2>1, <2>3, <2>4, <2>5 DEF ProcInv, PassedInv, BlockInv
  <2>7. OrderInv' /\ BlockInv' /\ InHandInv'
    BY <1>1, <2>1, <2>2 DEF ProcInv, OrderInv, BlockInv, InHandInv
  <2>8. QED
    BY <2>6, <2>7 DEF ProcInv
<1>12. CASE EditRules \/ UNCHANGED auditVars
  <2>1. UNCHANGED <<now, payload, file, phase, block, deps, late, dep, notices, todo, at,
                    job, settled, unseen, unread>>
    BY <1>12 DEF EditRules, auditVars, store, loopVars, history
  <2>2. \A id : Known(id) => Known(id)'
    BY <2>1 DEF Known
  <2>3. OrderInv'
    BY <2>1 DEF ProcInv, OrderInv
  <2>4. QED
    BY <2>1, <2>2, <2>3, QuietStep
<1>13. QED
  BY <1>2, <1>3, <1>4, <1>5, <1>6, <1>7, <1>8, <1>9, <1>10, <1>11, <1>12, PoolSaves
     DEF AuditNext, LoopStep, WorkerStep, Quiet

(* Whatever fails, hangs or dies, a block that the checkpoint has passed,  *)
(* in memory or in the file, has each deployment that the node showed by a *)
(* receipt or a trace announced, and each of its targets audited or its    *)
(* bytecode refused.                                                       *)
THEOREM CommittedIsProcessed == AuditSpec => []CommittedMeansProcessed
<1>1. AuditInit => ProcInv
  BY AuditsAssumption
     DEF AuditInit, ProcInv, OrderInv, PassedInv, BlockInv, InHandInv, Empty
<1>2. AuditTypeOK /\ WorkInv /\ ProcInv /\ [AuditNext]_auditVars => ProcInv'
  BY ProcStep
<1>3. AuditTypeOK /\ ProcInv => CommittedMeansProcessed
  <2> SUFFICES ASSUME AuditTypeOK, ProcInv PROVE CommittedMeansProcessed
    OBVIOUS
  <2>1. now.last \in Nat /\ file.last \in Nat /\ file.last <= now.last
    BY DEF AuditTypeOK, Contents, ProcInv, OrderInv
  <2>2. \A c \in Checkpoints : 1 .. c.last \subseteq 1 .. now.last
    BY <2>1 DEF Checkpoints
  <2>3. QED
    BY <2>2 DEF CommittedMeansProcessed, ProcInv, PassedInv, Shown
<1>4. QED
  BY Base, <1>1, <1>2, <1>3, PTL DEF AuditSpec
-----------------------------------------------------------------------------
(* What is in the file when a block is committed. *)

(* A saver that waits for a save stands at its await; whoever stands there *)
(* has called one.                                                         *)
SavesAwaited ==
    \A s \in Savers :
        /\ pc[s] = "waiting" => at[s] = "saving"
        /\ at[s] = "saving" => pc[s] # "idle"

(* The loop saves when it commits a block and at no other time. *)
LoopSaves ==
    /\ at[Loop] \in {"free", "saving", "failed"}
    /\ phase = "commit" <=> at[Loop] # "free"

(* When the save of a block returned, checkpoint.json is what memory holds: *)
(* no save is under way and no change of an audit is missing from it, so   *)
(* the process may end at once (EndRun) and loses nothing.                 *)
CommitIsComplete == Committed => queue = <<>> /\ file = now /\ disk = mem

(* While it is under way, what was serialised is what memory holds.        *)
CommitPayload ==
    phase = "commit" /\ stage \in {"temp", "rename"} => payload = now /\ snap = mem

AwaitInv == SavesAwaited /\ LoopSaves

CommitBase == AuditTypeOK /\ IInv /\ WorkInv /\ AwaitInv

LEMMA AwaitInit == AuditInit => AwaitInv
BY PoolSaves DEF AuditInit, Init, AwaitInv, SavesAwaited, LoopSaves

(* A saver goes on from a place where it waits for no save. *)
LEMMA MoveKeepsAwait ==
    ASSUME AuditTypeOK, AwaitInv, NEW s \in Savers, NEW place,
           at' = [at EXCEPT ![s] = place], pc' = pc,
           pc[s] # "waiting", place # "saving",
           IF s = Loop THEN phase' = "block" /\ place = "free" ELSE phase' = phase
    PROVE  AwaitInv'
BY PoolSaves DEF AuditTypeOK, AwaitInv, SavesAwaited, LoopSaves

(* A saver calls save. *)
LEMMA SaveKeepsAwait ==
    ASSUME AuditTypeOK, AwaitInv, NEW s \in Savers, NEW c, SaveAs(s, c, "saving"),
           IF s = Loop THEN phase' = "commit" ELSE phase' = phase
    PROVE  AwaitInv'
BY PoolSaves DEF AuditTypeOK, TypeOK, AwaitInv, SavesAwaited, LoopSaves, SaveAs, Save

LEMMA ForgetKeepsAwait == Reload /\ Forget => AwaitInv'
BY PoolSaves DEF Reload, Forget, AwaitInv, SavesAwaited, LoopSaves

LEMMA ChainKeepsAwait ==
    ASSUME AuditTypeOK, AwaitInv, Chain
    PROVE  AwaitInv'
<1>1. UNCHANGED <<at, phase>>
  BY DEF Chain, loopVars
<1>2. \A s \in Savers : pc'[s] = pc[s] \/ pc'[s] \in {"stored", "rejected"}
  <2>1. CASE Begin \/ Serialise \/ WriteTemp
    BY <2>1 DEF Begin, Serialise, WriteTemp
  <2>2. CASE Rename \/ Fail
    BY <2>2 DEF Rename, Fail, Settle, AuditTypeOK, TypeOK
  <2>3. QED
    BY <2>1, <2>2 DEF Chain
<1>3. QED
  BY <1>1, <1>2 DEF AwaitInv, SavesAwaited, LoopSaves

LEMMA AwaitStep ==
    ASSUME AuditTypeOK, WorkInv, AwaitInv, [AuditNext]_auditVars
    PROVE  AwaitInv'
<1>1. ASSUME UNCHANGED <<pc, at>>, (phase = "commit") = (phase' = "commit") PROVE AwaitInv'
  BY <1>1 DEF AwaitInv, SavesAwaited, LoopSaves
<1>2. CASE Dies \/ RunFails \/ EndRun
  BY <1>2, ForgetKeepsAwait DEF Dies, RunFails, EndRun, Crash, Exit
<1>3. ASSUME NEW w \in Pool, Audit(w) \/ Exits(w) \/ Overflows(w) PROVE AwaitInv'
  <2>1. w \in Savers /\ w # Loop /\ phase' = phase
    BY <1>3, PoolSaves DEF Pool, Audit, Exits, Overflows, loopVars
  <2>2. CASE SaveResult(w)
    BY <2>1, <2>2, SaveKeepsAwait DEF SaveResult
  <2>3. ASSUME NEW place, place # "saving", at' = [at EXCEPT ![w] = place],
               at[w] # "saving" \/ pc[w] = "stored", pc' = pc
        PROVE  AwaitInv'
    <3>1. pc[w] # "waiting"
      BY <2>1, <2>3 DEF AwaitInv, SavesAwaited
    <3>2. QED
      BY <2>1, <2>3, <3>1, MoveKeepsAwait
  <2>4. CASE FromCache(w) \/ StartAudit(w)
    BY <2>3, <2>4 DEF FromCache, StartAudit, Take, WithResult, vars
  <2>5. CASE TimesOut(w) \/ EndKilled(w) \/ ResultSaved(w) \/ Tell(w)
    BY <2>3, <2>5 DEF TimesOut, EndKilled, ResultSaved, Tell, Failure, vars
  <2>6. CASE Exits(w) \/ Overflows(w)
    BY <2>3, <2>6 DEF Exits, Overflows, store, vars
  <2>7. QED
    BY <1>3, <2>2, <2>4, <2>5, <2>6 DEF Audit
<1>4. ASSUME NEW s \in Savers, SaveRejected(s) PROVE AwaitInv'
  BY <1>4, PoolSaves
     DEF SaveRejected, store, vars, loopVars, AuditTypeOK, AwaitInv, SavesAwaited, LoopSaves
<1>5. CASE Commit
  BY <1>5, PoolSaves, SaveKeepsAwait DEF Commit
<1>6. CASE NextBlock
  <2>1. /\ at' = [at EXCEPT ![Loop] = "free"] /\ pc' = pc /\ pc[Loop] = "stored"
        /\ phase' = "block"
    BY <1>6 DEF NextBlock, Committed, store, vars
  <2>2. QED
    BY <2>1, PoolSaves, MoveKeepsAwait
<1>7. CASE StartRun \/ Close \/ Notify \/ EditRules \/ Quiet
  BY <1>1, <1>7
     DEF StartRun, Close, Processing, Notify, EditRules, Quiet, auditVars, store, vars,
         loopVars, history
<1>8. ASSUME NEW missing \in SUBSET Direct[block], NEW traced \in BOOLEAN,
             Detect(missing, traced)
      PROVE  AwaitInv'
  BY <1>1, <1>8 DEF Detect, store, vars
<1>9. ASSUME NEW d \in Deployments, NEW lost \in {"none", "slots", "beacon"}, Open(d, lost)
      PROVE  AwaitInv'
  BY <1>1, <1>9 DEF Open, store, vars
<1>10. CASE UNCHANGED auditVars
  BY <1>1, <1>10 DEF auditVars, store, vars, loopVars
<1>11. QED
  BY <1>2, <1>3, <1>4, <1>5, <1>6, <1>7, <1>8, <1>9, <1>10, ChainKeepsAwait, PoolSaves
     DEF AuditNext, LoopStep, WorkerStep

(* Outside the audits of a deployment only the loop can be on the chain. *)
Alone ==
    phase # "audits" /\ queue # <<>> =>
        phase = "commit" /\ pc[Loop] = "waiting" /\ Head(queue) = Loop

LEMMA LoopAlone == CommitBase => Alone
<1> SUFFICES ASSUME CommitBase, phase # "audits", queue # <<>>
             PROVE  phase = "commit" /\ pc[Loop] = "waiting" /\ Head(queue) = Loop
  BY DEF Alone
<1>1. /\ queue \in Seq(Savers) /\ Len(queue) \in Nat \ {0}
      /\ Head(queue) = queue[1] /\ 1 \in 1 .. Len(queue)
  BY DEF CommitBase, IInv, TypeOK
<1>2. ASSUME NEW i \in 1 .. Len(queue) PROVE queue[i] = Loop /\ pc[Loop] = "waiting"
  <2>1. queue[i] \in Savers /\ pc[queue[i]] = "waiting"
    BY <1>1 DEF CommitBase, IInv, QueueInv
  <2>2. at[queue[i]] = "saving"
    BY <2>1 DEF CommitBase, AwaitInv, SavesAwaited
  <2>3. queue[i] \notin Pool
    BY <2>2 DEF CommitBase, WorkInv
  <2>4. QED
    BY <2>1, <2>3 DEF Pool
<1>3. phase = "commit"
  <2>1. at[Loop] = "saving"
    BY <1>1, <1>2, PoolSaves DEF CommitBase, AwaitInv, SavesAwaited
  <2>2. QED
    BY <2>1 DEF CommitBase, AwaitInv, LoopSaves
<1>4. QED
  BY <1>1, <1>2, <1>3

LEMMA CommitStep ==
    ASSUME CommitBase, Alone, CommitPayload, CommitIsComplete, [AuditNext]_auditVars, Alone'
    PROVE  CommitPayload' /\ CommitIsComplete'
<1> SUFFICES ASSUME phase' = "commit" PROVE CommitPayload' /\ CommitIsComplete'
  BY DEF CommitPayload, CommitIsComplete, Committed
<1>1. pc'[Loop] # "waiting" => queue' = <<>>
  <2>1. ASSUME queue' # <<>> PROVE pc'[Loop] = "waiting"
    BY <2>1 DEF Alone
  <2>2. QED
    BY <2>1
<1>2. CASE Commit
  <2>1. queue = <<>> /\ stage = "idle"
    BY <1>2 DEF Alone, Commit, CommitBase, IInv, TypeOK, Stages
  <2>2. pc'[Loop] = "waiting" /\ stage' = "idle"
    BY <1>2, <2>1, PoolSaves DEF Commit, SaveAs, Save, CommitBase, IInv, TypeOK
  <2>3. QED
    BY <2>2 DEF CommitPayload, CommitIsComplete, Committed
<1>3. CASE Chain
  <2>1. phase = "commit" /\ UNCHANGED at
    BY <1>3 DEF Chain, loopVars
  <2>2. queue # <<>>
    BY <1>3 DEF Chain, Begin, Serialise, Rename, WriteTemp, Fail, CommitBase, IInv, TypeOK
  <2>3. Head(queue) = Loop /\ pc[Loop] = "waiting"
    BY <2>1, <2>2 DEF Alone
  <2>4. CASE Begin \/ Serialise \/ WriteTemp
    <3>1. pc' = pc
      BY <2>4 DEF Begin, Serialise, WriteTemp
    <3>2. CommitIsComplete'
      BY <2>3, <3>1 DEF CommitIsComplete, Committed
    <3>3. CASE Begin
      BY <3>2, <3>3 DEF Begin, CommitPayload
    <3>4. CASE Serialise
      BY <1>3, <3>2, <3>4
         DEF Chain, Begin, Serialise, WriteTemp, Rename, Fail, Settle, CommitPayload
    <3>5. CASE WriteTemp
      BY <1>3, <2>1, <3>2, <3>5
         DEF Chain, Begin, Serialise, WriteTemp, Rename, Fail, CommitPayload
    <3>6. QED
      BY <2>4, <3>3, <3>4, <3>5
  <2>5. CASE Rename
    <3>1. /\ file' = payload /\ now' = now /\ disk' = snap /\ mem' = mem
          /\ stage = "rename" /\ stage' = "idle"
          /\ pc' = [pc EXCEPT ![Loop] = "stored"]
      BY <1>3, <2>3, <2>5 DEF Chain, Rename, Settle, Begin, Serialise, WriteTemp, Fail
    <3>2. payload = now /\ snap = mem
      BY <2>1, <3>1 DEF CommitPayload
    <3>3. queue' = <<>>
      BY <1>1, <3>1, PoolSaves DEF CommitBase, IInv, TypeOK
    <3>4. QED
      BY <3>1, <3>2, <3>3 DEF CommitPayload, CommitIsComplete, Committed
  <2>6. CASE Fail
    <3>1. stage' = "idle" /\ pc'[Loop] = "rejected"
      BY <2>3, <2>6, PoolSaves DEF Fail, Settle, CommitBase, IInv, TypeOK
    <3>2. QED
      BY <3>1 DEF CommitPayload, CommitIsComplete, Committed
  <2>7. QED
    BY <1>3, <2>4, <2>5, <2>6 DEF Chain
<1>4. ASSUME phase = "commit", UNCHANGED <<vars, now, payload, file>>,
             at'[Loop] = "saving" => at[Loop] = "saving"
      PROVE  CommitPayload' /\ CommitIsComplete'
  BY <1>4 DEF vars, CommitPayload, CommitIsComplete, Committed
<1>5. ASSUME NEW w \in Pool, Audit(w) \/ Exits(w) \/ Overflows(w)
      PROVE  CommitPayload' /\ CommitIsComplete'
  <2>1. phase = "commit" /\ at[w] = "free"
    BY <1>5 DEF Audit, Exits, Overflows, loopVars, CommitBase, WorkInv
  <2>2. QED
    BY <1>5, <2>1
       DEF Audit, Exits, Overflows, FromCache, StartAudit, Take, TimesOut, EndKilled,
           SaveResult, ResultSaved, Tell
<1>6. ASSUME NEW s \in Savers, SaveRejected(s) PROVE CommitPayload' /\ CommitIsComplete'
  <2>1. phase = "commit" /\ UNCHANGED <<vars, now, payload, file>>
    BY <1>6 DEF SaveRejected, store, loopVars
  <2>2. at'[Loop] = "saving" => at[Loop] = "saving"
    BY <1>6, PoolSaves DEF SaveRejected, CommitBase, AuditTypeOK
  <2>3. QED
    BY <1>4, <2>1, <2>2
<1>7. CASE UNCHANGED auditVars
  BY <1>4, <1>7 DEF auditVars, store, loopVars
<1>8. CASE Notify
  <2>1. phase = "commit" /\ notices # <<>>
    BY <1>8 DEF Notify
  <2>2. QED
    BY <2>1 DEF CommitBase, WorkInv
<1>9. CASE Dies \/ RunFails \/ EndRun
  BY <1>9 DEF Dies, RunFails, EndRun, Forget
<1>10. ASSUME NEW missing \in SUBSET Direct[block], NEW traced \in BOOLEAN,
              Detect(missing, traced)
       PROVE  FALSE
  BY <1>10 DEF Detect
<1>11. ASSUME NEW d \in Deployments, NEW lost \in {"none", "slots", "beacon"}, Open(d, lost)
       PROVE  FALSE
  BY <1>11 DEF Open
<1>12. CASE StartRun \/ Close \/ NextBlock
  BY <1>12 DEF StartRun, Close, Processing, NextBlock
<1>13. CASE EditRules
  <2>1. phase = "commit" /\ UNCHANGED <<vars, now, payload, file, at>>
    BY <1>13 DEF EditRules, store
  <2>2. QED
    BY <1>4, <2>1
<1>14. QED
  BY <1>2, <1>3, <1>5, <1>6, <1>7, <1>8, <1>9, <1>10, <1>11, <1>12, <1>13, PoolSaves
     DEF AuditNext, LoopStep, WorkerStep, Quiet

LEMMA CommitBaseHolds == AuditSpec => []CommitBase
<1>1. AuditSpec => []IInv
  BY AuditsUseStore, IInvInit, IInvStep, PTL DEF Spec
<1>2. AuditTypeOK /\ WorkInv /\ AwaitInv /\ [AuditNext]_auditVars => AwaitInv'
  BY AwaitStep
<1>3. CommitBase <=> AuditTypeOK /\ IInv /\ WorkInv /\ AwaitInv
  BY DEF CommitBase
<1>4. QED
  BY Base, AwaitInit, <1>1, <1>2, <1>3, PTL DEF AuditSpec

(* When the loop goes on to the next block, or the process ends after the  *)
(* last one, the file holds all that memory holds: the cached result of    *)
(* every audit of the block, with no save of a worker still on the chain.  *)
THEOREM CommitsAreComplete == AuditSpec => []CommitIsComplete
<1>1. AuditInit => CommitPayload /\ CommitIsComplete
  BY DEF AuditInit, CommitPayload, CommitIsComplete, Committed
<1>2. CommitBase /\ Alone /\ CommitPayload /\ CommitIsComplete /\ [AuditNext]_auditVars /\ Alone'
        => CommitPayload' /\ CommitIsComplete'
  BY CommitStep
<1>3. QED
  BY CommitBaseHolds, LoopAlone, <1>1, <1>2, PTL DEF AuditSpec

(* The safety half of BlocksFinish: a worker or the loop that awaits a     *)
(* save is on the chain or has its answer, and between two deployments the *)
(* chain is empty, so nothing waits for what cannot come.                  *)
AwaitsAreAnswered ==
    /\ \A s \in Savers : at[s] = "saving" =>
          \/ pc[s] \in {"stored", "rejected"}
          \/ \E i \in 1 .. Len(queue) : queue[i] = s
    /\ phase \notin {"audits", "commit"} => queue = <<>>

THEOREM NothingAwaitedInVain == AuditSpec => []AwaitsAreAnswered
<1>1. AuditSpec => []WaitersQueued
  BY AuditsUseStore, WaitersAreQueued, PTL
<1>2. ASSUME CommitBase, WaitersQueued PROVE AwaitsAreAnswered
  <2>1. ASSUME NEW s \in Savers, at[s] = "saving"
        PROVE  \/ pc[s] \in {"stored", "rejected"}
               \/ \E i \in 1 .. Len(queue) : queue[i] = s
    <3>1. pc[s] \in {"waiting", "stored", "rejected"}
      BY <1>2, <2>1 DEF CommitBase, IInv, TypeOK, AwaitInv, SavesAwaited
    <3>2. QED
      BY <1>2, <3>1 DEF WaitersQueued
  <2>2. phase \notin {"audits", "commit"} => queue = <<>>
    BY <1>2, LoopAlone DEF Alone
  <2>3. QED
    BY <2>1, <2>2 DEF AwaitsAreAnswered
<1>3. QED
  BY CommitBaseHolds, <1>1, <1>2, PTL
=============================================================================
