----------------------------- MODULE PanelIntake -----------------------------
(***************************************************************************)
(* The two ways a finding gets into the panel, artifacts of runners and    *)
(* manual audits, in one process that may die (panel/src/server/boot.ts).  *)
(***************************************************************************)
EXTENDS IngestWatcher, AuditRuns

CONSTANT MaxRestarts  \* bound: deaths of the panel

ASSUME IntakeAssumption == MaxRestarts \in Nat

VARIABLE restarts

vars == <<ingestVars, auditVars, restarts>>

TypeOK == IngestTypeOK /\ AuditTypeOK /\ restarts \in 0 .. MaxRestarts

Init == IngestInit /\ AuditInit /\ restarts = 0

(* bootOnce: the watcher starts afresh; nobody looks at unfinished runs.   *)
Restart ==
    /\ restarts < MaxRestarts
    /\ restarts' = restarts + 1
    /\ IngestRestart
    /\ AuditRestart

Next ==
    \/ (Runner \/ Scan \/ CallFails) /\ UNCHANGED <<auditVars, restarts>>
    \/ AuditNext /\ UNCHANGED <<ingestVars, restarts>>
    \/ Restart

(* The timer of the scan fires and file operations return; an auditor that *)
(* does not hang ends, and the passes after it have time limits.  A child  *)
(* that hangs may do so for ever, and runners and users do as they like.   *)
Fairness ==
    /\ WF_vars(Scan /\ UNCHANGED <<auditVars, restarts>>)
    /\ \A r \in Runs : WF_vars(AuditStep(r) /\ UNCHANGED <<ingestVars, restarts>>)

Spec == Init /\ [][Next]_vars /\ Fairness
=============================================================================
