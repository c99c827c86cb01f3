------------------------------ MODULE AuditRuns ------------------------------
(***************************************************************************)
(* Manual audits of the panel: the auditor as a child process, the row in  *)
(* audit_runs and the stream a page follows                                *)
(* (panel/src/server/audit-service.ts, sse.ts,                             *)
(* panel/app/api/audits/stream/[runId]/route.ts, components/TestRunner.tsx).*)
(***************************************************************************)
CONSTANTS Runs, Pages, None

ASSUME AuditAssumption == None \notin Runs

VARIABLES
    row,      \* status of the row in audit_runs
    child,    \* the auditor: "hung" if it never ends by itself, "unborn" if
              \* it could not be spawned
    handler,  \* the await at which its exit handler stands
    stream,   \* the run a page is connected to
    shown     \* the outcome a page shows, from the event "done"

auditVars == <<row, child, handler, stream, shown>>

Final == {"ok", "failed"}

AuditTypeOK ==
    /\ row \in [Runs -> {"none", "running"} \cup Final]
    /\ child \in [Runs -> {"none", "unborn", "live", "hung", "orphan", "gone"}]
    /\ handler \in [Runs -> {"off", "sidecars", "rescue", "threw"}]
    /\ stream \in [Pages -> Runs \cup {None}]
    /\ shown \in [Pages -> {"none"} \cup Final]

AuditInit ==
    /\ row = [r \in Runs |-> "none"]
    /\ child = [r \in Runs |-> "none"]
    /\ handler = [r \in Runs |-> "off"]
    /\ stream = [p \in Pages |-> None]
    /\ shown = [p \in Pages |-> "none"]

(* startAudit: the row, then the child, without a time limit.  When it     *)
(* cannot be spawned there is an "error" event, which is reported as       *)
(* progress, and no "exit".                                                *)
StartAudit(r) ==
    /\ row[r] = "none"
    /\ row' = [row EXCEPT ![r] = "running"]
    /\ \E born \in {"live", "hung", "unborn"} : child' = [child EXCEPT ![r] = born]
    /\ UNCHANGED <<handler, stream, shown>>

(* The page subscribes to a run it has submitted, or submits another; what *)
(* the stream sends first, the row as it is ("snapshot"), it ignores.      *)
Connect(p, r) ==
    /\ stream[p] # r
    /\ row[r] # "none"
    /\ stream' = [stream EXCEPT ![p] = r]
    /\ shown' = [shown EXCEPT ![p] = "none"]
    /\ UNCHANGED <<row, child, handler>>

(* The connection drops or the user leaves the page. *)
Disconnect(p) ==
    /\ stream[p] # None
    /\ stream' = [stream EXCEPT ![p] = None]
    /\ UNCHANGED <<row, child, handler, shown>>

Finish_EventOnly(r, status) ==
    /\ shown' = [p \in Pages |-> IF stream[p] = r THEN status ELSE shown[p]]
    /\ handler' = [handler EXCEPT ![r] = "off"]
    /\ UNCHANGED <<row, stream>>

(* The end of the exit handler: the row, then the event "done". *)
Finish(r, status) ==
    /\ row' = [row EXCEPT ![r] = status]
    /\ shown' = [p \in Pages |-> IF stream[p] = r THEN status ELSE shown[p]]
    /\ handler' = [handler EXCEPT ![r] = "off"]
    /\ UNCHANGED stream

(* The database refuses the findings or the last UPDATE: nothing catches   *)
(* what the handler throws then.                                           *)
Throws(r) ==
    /\ handler' = [handler EXCEPT ![r] = "threw"]
    /\ UNCHANGED <<row, stream, shown>>

(* Exit code 0 and output that parses: the findings are ingested, and for  *)
(* a run with an address the handler goes on to the sidecars.              *)
ExitGood(r) ==
    /\ child[r] = "live"
    /\ child' = [child EXCEPT ![r] = "gone"]
    /\ \/ Finish(r, "ok") \/ Throws(r)
       \/ /\ handler' = [handler EXCEPT ![r] = "sidecars"]
          /\ UNCHANGED <<row, stream, shown>>

(* Any other exit: a code, a signal, the kill at the output limit, output  *)
(* that does not parse or was still in the pipe ("exit" is not "close").   *)
ExitBad(r) ==
    /\ child[r] = "live"
    /\ child' = [child EXCEPT ![r] = "gone"]
    /\ Finish(r, "failed") \/ Throws(r)

(* The sidecars return, throw or run out of their time; the rescue pass    *)
(* follows when a finding of the run is eligible.                          *)
SidecarsEnd(r) ==
    /\ handler[r] = "sidecars"
    /\ \/ Finish(r, "ok") \/ Throws(r)
       \/ /\ handler' = [handler EXCEPT ![r] = "rescue"]
          /\ UNCHANGED <<row, stream, shown>>
    /\ UNCHANGED child

RescueEnd(r) ==
    /\ handler[r] = "rescue"
    /\ Finish(r, "ok") \/ Throws(r)
    /\ UNCHANGED child

(* The panel dies: the row of an unfinished run says "running" for ever.   *)
AuditRestart ==
    /\ child' = [r \in Runs |-> IF row[r] = "running" THEN "orphan" ELSE child[r]]
    /\ handler' = [r \in Runs |-> "off"]
    /\ stream' = [p \in Pages |-> None]
    /\ UNCHANGED <<row, shown>>

AuditStep(r) == ExitGood(r) \/ ExitBad(r) \/ SidecarsEnd(r) \/ RescueEnd(r)

AuditNext ==
    \/ \E r \in Runs : StartAudit(r) \/ AuditStep(r)
    \/ \E p \in Pages : Disconnect(p) \/ (\E r \in Runs : Connect(p, r))
-----------------------------------------------------------------------------
(* A page that follows an unfinished run is told its outcome, the one that *)
(* the row has by then (it reads the row on "done", once), however long    *)
(* the passes after the exit take, unless it disconnects, the auditor      *)
(* hangs or could not be spawned, the panel dies or the database refuses   *)
(* the outcome.                                                            *)
OutcomeReachesPage ==
    \A p \in Pages, r \in Runs :
        (stream[p] = r /\ row[r] = "running") ~>
            \/ stream[p] # r
            \/ child[r] \in {"hung", "unborn", "orphan"}
            \/ handler[r] = "threw"
            \/ row[r] \in Final /\ shown[p] = row[r]
=============================================================================
