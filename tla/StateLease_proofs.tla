-------------------------- MODULE StateLease_proofs --------------------------
(***************************************************************************)
(* The lock file excludes a second runner as long as no start raced with   *)
(* another, for any number of processes and with kills at any step.        *)
(***************************************************************************)
EXTENDS StateLease, TLAPS

(* At most one process is between the start of acquire and its answer. *)
OneAcquirer == \A p, q \in Procs : Acquiring(p) /\ Acquiring(q) => p = q

(* The process that writes its pid writes it to the current lock file. *)
WriterIsCreator == \A p \in Procs : pc[p] \in {"write", "rewrite"} => file = p

(* After the stale file was removed nobody has put another in its place. *)
RemovedIsAbsent == \A p \in Procs : pc[p] = "reopen" => file = NoFile

(* The owner that was read still has its complete file, or the file is gone. *)
SeenIsCurrent ==
    \A p \in Procs : pc[p] \in {"probe", "remove"} =>
        /\ seen[p] \in Procs
        /\ file = NoFile \/ (file = seen[p] /\ named)

(* What is about to be removed is a dead process's lock. *)
RemovesTheDead ==
    \A p \in Procs : pc[p] = "remove" => ~IsProcessRunning(seen[p])

(* All of it depends on starts that do not race. *)
SerialInv ==
    /\ OneAcquirer
    /\ OwnersFile
    /\ WriterIsCreator
    /\ RemovedIsAbsent
    /\ SeenIsCurrent
    /\ RemovesTheDead

IInv == TypeOK /\ (~raced => SerialInv)

(* Who starts finds nobody acquiring. *)
StartsAlone == \A p \in Procs : Start(p) => \A q \in Procs : ~Acquiring(q)

LEMMA IInvInit == Init => IInv
BY LeaseAssumption
   DEF Init, IInv, SerialInv, TypeOK, Places, OneAcquirer, Acquiring, OwnersFile,
       WriterIsCreator, RemovedIsAbsent, SeenIsCurrent, RemovesTheDead

LEMMA TypeStep == TypeOK /\ [Next]_vars => TypeOK'
BY LeaseAssumption
   DEF TypeOK, Places, Next, vars, AcquireStep, Start, Create, Refused,
       RefusedAgain, Write, ReadOwner, Probe, RemoveStale, Release, Exit,
       HookedExit, Kill, AllEnded, Goto, LockOwner

(* The variables of the lease always have their types: pc is one of the    *)
(* await points of acquire, the lock file belongs to a process or is       *)
(* absent, whatever the interleaving of starts.                            *)
THEOREM TypeCorrect == Spec => []TypeOK
<1>1. Init => TypeOK
  BY LeaseAssumption DEF Init, TypeOK, Places
<1>2. QED
  BY <1>1, TypeStep, PTL DEF Spec

LEMMA SerialStep ==
    ASSUME TypeOK, SerialInv, StartsAlone, [Next]_vars
    PROVE  SerialInv'
<1> USE LeaseAssumption
    DEF SerialInv, TypeOK, Places, OneAcquirer, Acquiring, OwnersFile, Goto,
        WriterIsCreator, RemovedIsAbsent, SeenIsCurrent, RemovesTheDead,
        IsProcessRunning
<1>1. ASSUME NEW p \in Procs, Start(p) PROVE SerialInv'
  <2>1. \A q \in Procs : pc'[q] = IF q = p THEN "open" ELSE pc[q]
    BY <1>1 DEF Start
  <2>a. \A q \in Procs : ~Acquiring(q)
    BY <1>1 DEF StartsAlone
  <2>b. UNCHANGED <<file, named, seen>>
    BY <1>1 DEF Start
  <2>2. OneAcquirer' /\ OwnersFile' /\ WriterIsCreator'
    BY <2>1, <2>a, <2>b
  <2>3. RemovedIsAbsent' /\ SeenIsCurrent' /\ RemovesTheDead'
    BY <2>1, <2>a, <2>b
  <2>4. QED
    BY <2>2, <2>3
<1>2. ASSUME NEW p \in Procs, Create(p) PROVE SerialInv'
  <2>1. \A q \in Procs :
            pc'[q] = IF q # p THEN pc[q]
                     ELSE IF pc[p] = "open" THEN "write" ELSE "rewrite"
    BY <1>2 DEF Create
  <2>2. \A q \in Procs : pc[q] # "own"
    BY <1>2 DEF Create
  <2>4. OneAcquirer'
    BY <1>2, <2>1, <2>2 DEF Create
  <2>5. OwnersFile'
    BY <1>2, <2>1, <2>2 DEF Create
  <2>6. WriterIsCreator'
    BY <1>2, <2>1, <2>2 DEF Create
  <2>7. RemovedIsAbsent'
    BY <1>2, <2>1, <2>2 DEF Create
  <2>8. SeenIsCurrent'
    BY <1>2, <2>1, <2>2 DEF Create
  <2>9. RemovesTheDead'
    BY <1>2, <2>1, <2>2 DEF Create
  <2>10. QED
    BY <2>4, <2>5, <2>6, <2>7, <2>8, <2>9
<1>3. ASSUME NEW p \in Procs, Refused(p) PROVE SerialInv'
  <2>1. \A q \in Procs : pc'[q] = IF q = p THEN "read" ELSE pc[q]
    BY <1>3 DEF Refused
  <2>2. OneAcquirer' /\ OwnersFile' /\ WriterIsCreator'
    BY <1>3, <2>1 DEF Refused
  <2>3. RemovedIsAbsent' /\ SeenIsCurrent' /\ RemovesTheDead'
    BY <1>3, <2>1 DEF Refused
  <2>4. QED
    BY <2>2, <2>3
<1>4. ASSUME NEW p \in Procs, RefusedAgain(p) PROVE SerialInv'
  <2>1. \A q \in Procs : pc'[q] = IF q = p THEN "exited" ELSE pc[q]
    BY <1>4 DEF RefusedAgain
  <2>2. OneAcquirer' /\ OwnersFile' /\ WriterIsCreator'
    BY <1>4, <2>1 DEF RefusedAgain
  <2>3. RemovedIsAbsent' /\ SeenIsCurrent' /\ RemovesTheDead'
    BY <1>4, <2>1 DEF RefusedAgain
  <2>4. QED
    BY <2>2, <2>3
<1>5. ASSUME NEW p \in Procs, Write(p) PROVE SerialInv'
  <2>1. \A q \in Procs : pc'[q] = IF q = p THEN "own" ELSE pc[q]
    BY <1>5 DEF Write
  <2>2. file = p
    BY <1>5 DEF Write
  <2>4. OneAcquirer'
    BY <1>5, <2>1, <2>2 DEF Write
  <2>3. named' = TRUE /\ file' = file
    BY <1>5, <2>2, Zenon DEF Write
  <2>5. OwnersFile'
    BY <1>5, <2>1, <2>2, <2>3
  <2>6. WriterIsCreator'
    BY <1>5, <2>1, <2>2 DEF Write
  <2>7. RemovedIsAbsent'
    BY <1>5, <2>1, <2>2 DEF Write
  <2>8. SeenIsCurrent'
    BY <1>5, <2>1, <2>2 DEF Write
  <2>9. RemovesTheDead'
    BY <1>5, <2>1, <2>2 DEF Write
  <2>10. QED
    BY <2>4, <2>5, <2>6, <2>7, <2>8, <2>9
<1>6. ASSUME NEW p \in Procs, ReadOwner(p) PROVE SerialInv'
  <2>1. \A q \in Procs : pc'[q] = IF q = p THEN (IF LockOwner = NoOwner THEN "exited" ELSE "probe") ELSE pc[q]
    BY <1>6 DEF ReadOwner, LockOwner
  <2>2. OneAcquirer' /\ OwnersFile' /\ WriterIsCreator'
    BY <1>6, <2>1 DEF ReadOwner, LockOwner
  <2>3. RemovedIsAbsent' /\ SeenIsCurrent' /\ RemovesTheDead'
    BY <1>6, <2>1 DEF ReadOwner, LockOwner
  <2>4. QED
    BY <2>2, <2>3
<1>7. ASSUME NEW p \in Procs, Probe(p) PROVE SerialInv'
  <2>1. \A q \in Procs : pc'[q] = IF q = p THEN (IF IsProcessRunning(seen[p]) THEN "exited" ELSE "remove") ELSE pc[q]
    BY <1>7 DEF Probe
  <2>2. OneAcquirer' /\ OwnersFile' /\ WriterIsCreator'
    BY <1>7, <2>1 DEF Probe
  <2>3. RemovedIsAbsent' /\ SeenIsCurrent' /\ RemovesTheDead'
    BY <1>7, <2>1 DEF Probe
  <2>4. QED
    BY <2>2, <2>3
<1>8. ASSUME NEW p \in Procs, RemoveStale(p) PROVE SerialInv'
  <2>1. \A q \in Procs : pc'[q] = IF q = p THEN "reopen" ELSE pc[q]
    BY <1>8 DEF RemoveStale
  <2>2. \A q \in Procs : pc[q] # "own"
    BY <1>8 DEF RemoveStale
  <2>4. OneAcquirer'
    BY <1>8, <2>1, <2>2 DEF RemoveStale
  <2>5. OwnersFile'
    BY <1>8, <2>1, <2>2 DEF RemoveStale
  <2>6. WriterIsCreator'
    BY <1>8, <2>1, <2>2 DEF RemoveStale
  <2>7. RemovedIsAbsent'
    BY <1>8, <2>1, <2>2 DEF RemoveStale
  <2>8. SeenIsCurrent'
    BY <1>8, <2>1, <2>2 DEF RemoveStale
  <2>9. RemovesTheDead'
    BY <1>8, <2>1, <2>2 DEF RemoveStale
  <2>10. QED
    BY <2>4, <2>5, <2>6, <2>7, <2>8, <2>9
<1>9. ASSUME NEW p \in Procs, Release(p) PROVE SerialInv'
  <2>1. \A q \in Procs : pc'[q] = IF q = p THEN "released" ELSE pc[q]
    BY <1>9 DEF Release
  <2>3. OneAcquirer'
    BY <1>9, <2>1 DEF Release
  <2>4. OwnersFile'
    BY <1>9, <2>1 DEF Release
  <2>5. WriterIsCreator'
    BY <1>9, <2>1 DEF Release
  <2>6. RemovedIsAbsent'
    BY <1>9, <2>1 DEF Release
  <2>7. SeenIsCurrent'
    BY <1>9, <2>1 DEF Release
  <2>8. RemovesTheDead'
    BY <1>9, <2>1 DEF Release
  <2>9. QED
    BY <2>3, <2>4, <2>5, <2>6, <2>7, <2>8
<1>10. ASSUME NEW p \in Procs, Exit(p) PROVE SerialInv'
  <2>1. \A q \in Procs : pc'[q] = IF q = p THEN "exited" ELSE pc[q]
    BY <1>10 DEF Exit
  <2>2. OneAcquirer' /\ OwnersFile' /\ WriterIsCreator'
    BY <1>10, <2>1 DEF Exit
  <2>3. RemovedIsAbsent' /\ SeenIsCurrent' /\ RemovesTheDead'
    BY <1>10, <2>1 DEF Exit
  <2>4. QED
    BY <2>2, <2>3
<1>11. ASSUME NEW p \in Procs, HookedExit(p) PROVE SerialInv'
  <2>1. \A q \in Procs : pc'[q] = IF q = p THEN "exited" ELSE pc[q]
    BY <1>11 DEF HookedExit
  <2>3. OneAcquirer'
    BY <1>11, <2>1 DEF HookedExit
  <2>4. OwnersFile'
    BY <1>11, <2>1 DEF HookedExit
  <2>5. WriterIsCreator'
    BY <1>11, <2>1 DEF HookedExit
  <2>6. RemovedIsAbsent'
    BY <1>11, <2>1 DEF HookedExit
  <2>7. SeenIsCurrent'
    BY <1>11, <2>1 DEF HookedExit
  <2>8. RemovesTheDead'
    BY <1>11, <2>1 DEF HookedExit
  <2>9. QED
    BY <2>3, <2>4, <2>5, <2>6, <2>7, <2>8
<1>12. ASSUME NEW p \in Procs, Kill(p) PROVE SerialInv'
  <2>1. \A q \in Procs : pc'[q] = IF q = p THEN "killed" ELSE pc[q]
    BY <1>12 DEF Kill
  <2>2. OneAcquirer' /\ OwnersFile' /\ WriterIsCreator'
    BY <1>12, <2>1 DEF Kill
  <2>3. RemovedIsAbsent' /\ SeenIsCurrent' /\ RemovesTheDead'
    BY <1>12, <2>1 DEF Kill
  <2>4. QED
    BY <2>2, <2>3
<1>13. CASE UNCHANGED vars
  BY <1>13 DEF vars
<1>14. QED
  BY <1>1, <1>2, <1>3, <1>4, <1>5, <1>6, <1>7, <1>8, <1>9, <1>10, <1>11,
     <1>12, <1>13 DEF Next, AcquireStep, AllEnded

LEMMA IInvStep == IInv /\ [Next]_vars => IInv'
<1> SUFFICES ASSUME IInv, [Next]_vars PROVE IInv'
  OBVIOUS
<1>1. TypeOK /\ TypeOK'
  BY TypeStep DEF IInv
<1>2. ASSUME ~raced' PROVE ~raced /\ StartsAlone
  <2>1. raced' = FALSE
    BY <1>1, <1>2 DEF TypeOK
  <2>2. ASSUME NEW p \in Procs, Start(p)
        PROVE  ~raced /\ \A q \in Procs : ~Acquiring(q)
    BY <2>1, <2>2, Zenon DEF Start
  <2>3. CASE raced' = raced
    BY <1>2, <2>2, <2>3 DEF StartsAlone
  <2>4. CASE \E p \in Procs : Start(p)
    BY <2>2, <2>4 DEF StartsAlone
  <2>5. QED
    BY <2>3, <2>4
       DEF Next, vars, AcquireStep, Create, Refused, RefusedAgain, Write,
           ReadOwner, Probe, RemoveStale, Release, Exit, HookedExit, Kill,
           AllEnded
<1>3. ASSUME ~raced' PROVE SerialInv'
  BY <1>1, <1>2, <1>3, SerialStep DEF IInv
<1>4. QED
  BY <1>1, <1>3 DEF IInv

(* Mutual exclusion of runners on one state directory, and a lock file     *)
(* that is the owner's and carries its pid, for every number of processes, *)
(* with kills and abrupt exits, as long as starts do not race.             *)
THEOREM RunnersExclude == Spec => []SerialExclusion
<1>1. IInv => SerialExclusion
  BY DEF IInv, SerialInv, OwnersFile, SerialExclusion, MutualExclusion
<1>2. QED
  BY IInvInit, IInvStep, <1>1, PTL DEF Spec

(* However the starts race, a complete lock file is that of a runner that  *)
(* owns the directory or was killed as its owner, so the next start either *)
(* meets a living runner or may take over.                                 *)
THEOREM NoLockLeftBehind == Spec => []CompleteLockNamesOwner
<1>1. Init => CompleteLockNamesOwner
  BY DEF Init, CompleteLockNamesOwner
<1>2. TypeOK /\ CompleteLockNamesOwner /\ [Next]_vars => CompleteLockNamesOwner'
  <2> SUFFICES ASSUME TypeOK, CompleteLockNamesOwner, [Next]_vars
               PROVE  CompleteLockNamesOwner'
    OBVIOUS
  <2> USE DEF CompleteLockNamesOwner, TypeOK, Goto
  <2>1. CASE UNCHANGED vars
    BY <2>1 DEF vars
  <2>2. ASSUME NEW p \in Procs, Start(p) \/ Exit(p) \/ Kill(p)
        PROVE  CompleteLockNamesOwner'
    BY <2>2 DEF Start, Exit, Kill
  <2>3. ASSUME NEW p \in Procs, Release(p) \/ HookedExit(p)
        PROVE  CompleteLockNamesOwner'
    BY <2>3 DEF Release, HookedExit
  <2>4. ASSUME NEW p \in Procs, Create(p) \/ RemoveStale(p)
        PROVE  CompleteLockNamesOwner'
    BY <2>4 DEF Create, RemoveStale
  <2>5. ASSUME NEW p \in Procs, Write(p)
        PROVE  CompleteLockNamesOwner'
    BY <2>5 DEF Write
  <2>6. ASSUME NEW p \in Procs,
               Refused(p) \/ RefusedAgain(p) \/ ReadOwner(p) \/ Probe(p)
        PROVE  CompleteLockNamesOwner'
    BY <2>6 DEF Refused, RefusedAgain, ReadOwner, Probe
  <2>7. QED
    BY <2>1, <2>2, <2>3, <2>4, <2>5, <2>6 DEF Next, AcquireStep, AllEnded
<1>3. QED
  BY TypeCorrect, <1>1, <1>2, PTL DEF Spec
-----------------------------------------------------------------------------
(* An incomplete lock file is that of a process about to write its pid to  *)
(* it, or of one that was killed before it did.                            *)
BlankIsUnfinished ==
    file # NoFile /\ ~named => pc[file] \in {"write", "rewrite", "killed"}

LEMMA BlankStep == TypeOK /\ BlankIsUnfinished /\ [Next]_vars => BlankIsUnfinished'
<1> SUFFICES ASSUME TypeOK, BlankIsUnfinished, [Next]_vars
             PROVE  BlankIsUnfinished'
  OBVIOUS
<1> USE LeaseAssumption DEF BlankIsUnfinished, TypeOK, Goto
<1>1. CASE UNCHANGED vars
  BY <1>1 DEF vars
<1>2. ASSUME NEW p \in Procs, Start(p) \/ Exit(p) \/ Kill(p)
      PROVE  BlankIsUnfinished'
  BY <1>2 DEF Start, Exit, Kill
<1>3. ASSUME NEW p \in Procs, Release(p) \/ HookedExit(p) \/ RemoveStale(p)
      PROVE  BlankIsUnfinished'
  BY <1>3 DEF Release, HookedExit, RemoveStale
<1>4. ASSUME NEW p \in Procs, Create(p) PROVE BlankIsUnfinished'
  BY <1>4 DEF Create
<1>5. ASSUME NEW p \in Procs, Write(p) PROVE BlankIsUnfinished'
  BY <1>5 DEF Write
<1>6. ASSUME NEW p \in Procs,
             Refused(p) \/ RefusedAgain(p) \/ ReadOwner(p) \/ Probe(p)
      PROVE  BlankIsUnfinished'
  BY <1>6 DEF Refused, RefusedAgain, ReadOwner, Probe
<1>7. QED
  BY <1>1, <1>2, <1>3, <1>4, <1>5, <1>6 DEF Next, AcquireStep, AllEnded

LEMMA BlankInit == Init => BlankIsUnfinished
BY DEF Init, BlankIsUnfinished

LEMMA NotRacedBefore == IInv /\ [Next]_vars /\ ~raced' => ~raced
<1> SUFFICES ASSUME IInv, [Next]_vars, raced' = FALSE PROVE ~raced
  BY TypeStep DEF IInv, TypeOK
<1> QED
  BY DEF Next, vars, AcquireStep, Start, Create, Refused, RefusedAgain, Write,
         ReadOwner, Probe, RemoveStale, Release, Exit, HookedExit, Kill,
         AllEnded

LEMMA GivesUpStep ==
    ASSUME IInv, BlankIsUnfinished, [Next]_vars
    PROVE  GivesUpForAReason
<1> SUFFICES ASSUME NEW p \in Procs, Acquiring(p), pc'[p] = "exited", ~raced'
             PROVE  \/ pc[p] = "probe" /\ IsProcessRunning(seen[p])
                    \/ pc[p] = "read" /\ (file = NoFile \/ BlankLock)
  BY DEF GivesUpForAReason
<1>1. TypeOK /\ SerialInv
  BY NotRacedBefore DEF IInv
<1>2. RefusedAgain(p) \/ ReadOwner(p) \/ Probe(p)
  <2>1. ASSUME NEW q \in Procs, q # p PROVE ~ (pc' = [pc EXCEPT ![q] = "exited"])
    BY <1>1, <2>1 DEF TypeOK, Acquiring
  <2> USE <1>1 DEF TypeOK, Acquiring, Goto
  <2>2. CASE UNCHANGED vars \/ AllEnded
    BY <2>2 DEF vars, AllEnded
  <2>3. ASSUME NEW q \in Procs, Start(q) \/ Release(q) \/ Exit(q) \/ HookedExit(q) \/ Kill(q)
        PROVE  FALSE
    BY <2>3 DEF Start, Release, Exit, HookedExit, Kill
  <2>4. ASSUME NEW q \in Procs, Create(q) \/ Refused(q) \/ Write(q) \/ RemoveStale(q)
        PROVE  FALSE
    BY <2>4 DEF Create, Refused, Write, RemoveStale
  <2>5. ASSUME NEW q \in Procs, RefusedAgain(q) \/ ReadOwner(q) \/ Probe(q)
        PROVE  q = p
    BY <2>5 DEF RefusedAgain, ReadOwner, Probe
  <2>6. QED
    BY <2>2, <2>3, <2>4, <2>5 DEF Next, AcquireStep
<1>3. ~RefusedAgain(p)
  BY <1>1 DEF SerialInv, RemovedIsAbsent, RefusedAgain
<1>4. CASE Probe(p)
  BY <1>1, <1>4 DEF Probe, Goto, TypeOK
<1>5. CASE ReadOwner(p)
  <2>1. pc[p] = "read" /\ LockOwner = NoOwner
    BY <1>1, <1>5 DEF ReadOwner, Goto, TypeOK
  <2>2. file = NoFile \/ ~named
    BY <1>1, <2>1, LeaseAssumption DEF LockOwner, TypeOK
  <2>3. ASSUME file # NoFile PROVE BlankLock
    <3>1. file \in Procs /\ pc[file] \in {"write", "rewrite", "killed"}
      BY <1>1, <2>2, <2>3 DEF BlankIsUnfinished, TypeOK
    <3>2. file # p
      BY <2>1, <3>1
    <3>3. pc[file] = "killed"
      BY <1>1, <2>1, <3>1, <3>2 DEF SerialInv, OneAcquirer, Acquiring
    <3>4. QED
      BY <2>2, <2>3, <3>3 DEF BlankLock
  <2>4. QED
    BY <2>1, <2>3
<1>6. QED
  BY <1>2, <1>3, <1>4, <1>5

LEMMA BlankStaysStep ==
    ASSUME IInv, [Next]_vars
    PROVE  BlankLockStays
<1> SUFFICES ASSUME BlankLock, ~raced' PROVE BlankLock' /\ file' = file
  BY DEF BlankLockStays
<1>1. TypeOK /\ SerialInv
  BY NotRacedBefore DEF IInv
<1>2. file \in Procs /\ ~named /\ pc[file] = "killed"
  BY <1>1 DEF BlankLock, TypeOK
<1> USE <1>1, <1>2, LeaseAssumption DEF BlankLock, TypeOK, Goto
<1>3. CASE UNCHANGED vars \/ AllEnded
  BY <1>3 DEF vars, AllEnded
<1>4. ASSUME NEW p \in Procs, Start(p) \/ Exit(p) \/ Kill(p)
      PROVE  BlankLock' /\ file' = file
  BY <1>4 DEF Start, Exit, Kill, IsProcessRunning
<1>5. ASSUME NEW p \in Procs, Release(p) \/ HookedExit(p) PROVE FALSE
  BY <1>5 DEF Release, HookedExit, SerialInv, OwnersFile
<1>6. ASSUME NEW p \in Procs, Create(p) \/ RemoveStale(p) PROVE FALSE
  BY <1>6 DEF Create, RemoveStale, SerialInv, SeenIsCurrent
<1>7. ASSUME NEW p \in Procs, Write(p) PROVE FALSE
  BY <1>7 DEF Write, SerialInv, WriterIsCreator
<1>8. ASSUME NEW p \in Procs,
             Refused(p) \/ RefusedAgain(p) \/ ReadOwner(p) \/ Probe(p)
      PROVE  BlankLock' /\ file' = file
  BY <1>8 DEF Refused, RefusedAgain, ReadOwner, Probe
<1>9. QED
  BY <1>3, <1>4, <1>5, <1>6, <1>7, <1>8 DEF Next, AcquireStep

(* A start that gives up without a race met a living owner, an owner that  *)
(* released meanwhile, or a lock a kill left blank; a dead owner's         *)
(* complete lock never stops it (the safety half of TakeoverSucceeds), and *)
(* a blank one stops every start, for any number of processes.             *)
THEOREM RefusalsAreRight == Spec => RefusedRightly
<1>1. IInv /\ BlankIsUnfinished /\ [Next]_vars => GivesUpForAReason /\ BlankLockStays
  BY GivesUpStep, BlankStaysStep
<1>2. TypeOK /\ BlankIsUnfinished /\ [Next]_vars => BlankIsUnfinished'
  BY BlankStep
<1>3. QED
  BY IInvInit, IInvStep, BlankInit, TypeCorrect, <1>1, <1>2, PTL
     DEF Spec, RefusedRightly
=============================================================================
