------------------------------- MODULE Auditor -------------------------------
(***************************************************************************)
(* evm-audit in one process (go/internal/audit/service.go): the bytecode   *)
(* is decompiled and analysed (ControlFlow), and the detector engine       *)
(* checks the audit that is extracted from the result (DetectorEngine).    *)
(* The extraction itself is not modelled: any audit may come of it.        *)
(***************************************************************************)
EXTENDS ControlFlow, DetectorEngine

AuditorInit == Init /\ CheckInit

(* BuildBehavior returns the audit, and the graph goes out of scope. *)
BuildBehavior(a) ==
    /\ phase = "done"
    /\ phase' = "returned"
    /\ succ' = [b \in Blocks |-> {}]
    /\ doms' = [b \in Blocks |-> {}]
    /\ reached' = {}
    /\ iter' = 0
    /\ changed' = FALSE
    /\ pending' = {}
    /\ open' = {}
    /\ body' = {}
    /\ work' = {}
    /\ loops' = {}
    /\ UNCHANGED <<code, queue, todo>>
    /\ Obtain(a)

AuditorNext ==
    \/ Next /\ UNCHANGED checkVars
    \/ \E a \in Audits : BuildBehavior(a)
    \/ CheckStep /\ UNCHANGED vars

AuditorSpec == AuditorInit /\ [][AuditorNext]_<<vars, checkVars>>
=============================================================================
