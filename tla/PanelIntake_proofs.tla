-------------------------- MODULE PanelIntake_proofs --------------------------
(***************************************************************************)
(* The scan of the ingest watcher overlooks no artifact, for any tree of   *)
(* directories, any number of files and caps of the memory, and runners    *)
(* that write between any two of its awaits.                               *)
(***************************************************************************)
EXTENDS PanelIntake, TLAPS

(* Directories are made from the root down, files in directories. *)
TreeInv ==
    /\ Root \in made
    /\ \A d \in made \ {Root} : Parent[d] \in made
    /\ \A f \in written : Dir[f] \in made

(* What the scan holds belongs to the await at which it stands. *)
ScanInv ==
    /\ scan = "list" <=> here # Nowhere
    /\ scan = "off" => stack = {}
    /\ scan # "files" => entries = {}

(* A path is remembered once its file was read or found unreadable. *)
SeenInv == seen \subseteq stored \cup unread

IngestInv == IngestTypeOK /\ TreeInv /\ ScanInv /\ SeenInv

LEMMA IngestInitInv == IngestInit => IngestInv
BY IngestAssumption
   DEF IngestInit, IngestInv, IngestTypeOK, TreeInv, ScanInv, SeenInv

LEMMA RunnerInv == IngestInv /\ Runner => IngestInv'
<1> SUFFICES ASSUME IngestInv, Runner PROVE IngestInv'
  OBVIOUS
<1> USE IngestAssumption
    DEF IngestInv, IngestTypeOK, TreeInv, ScanInv, SeenInv, scanVars
<1>1. ASSUME NEW d \in Dirs \ {Root}, MakeDir(d) PROVE IngestInv'
  BY <1>1 DEF MakeDir
<1>2. ASSUME NEW f \in Files, Put(f) PROVE IngestInv'
  BY <1>2 DEF Put
<1>3. QED
  BY <1>1, <1>2 DEF Runner

LEMMA ScanStepInv == IngestInv /\ Scan => IngestInv'
<1> SUFFICES ASSUME IngestInv, Scan PROVE IngestInv'
  OBVIOUS
<1> USE IngestAssumption DEF IngestInv, IngestTypeOK, TreeInv, ScanInv, SeenInv, treeVars, scanVars
<1>1. CASE Reconcile
  BY <1>1 DEF Reconcile
<1>2. ASSUME NEW d \in stack, Skip(d) PROVE IngestInv'
  BY <1>2 DEF Skip
<1>3. ASSUME NEW d \in stack, Visit(d) PROVE IngestInv'
  BY <1>3 DEF Visit
<1>4. CASE ReadDir
  BY <1>4 DEF ReadDir
<1>5. ASSUME NEW f \in entries, HandlePath(f) PROVE IngestInv'
  BY <1>5 DEF HandlePath
<1>6. CASE EndScan
  <2>1. changed' \subseteq made /\ seen' \subseteq seen
    BY <1>6 DEF EndScan
  <2>2. QED
    BY <1>6, <2>1 DEF EndScan
<1>7. QED
  BY <1>1, <1>2, <1>3, <1>4, <1>5, <1>6 DEF Scan

LEMMA FailInv == IngestInv /\ CallFails => IngestInv'
BY IngestAssumption
   DEF CallFails, StatFails, ReadDirFails, IngestInv, IngestTypeOK, TreeInv,
       ScanInv, SeenInv, treeVars

LEMMA RestartInv == IngestInv /\ IngestRestart => IngestInv'
BY IngestAssumption
   DEF IngestRestart, IngestInv, IngestTypeOK, TreeInv, ScanInv, SeenInv, treeVars, scanVars

LEMMA AuditStepInv == AuditTypeOK /\ (AuditNext \/ AuditRestart) => AuditTypeOK'
<1> SUFFICES ASSUME AuditTypeOK, AuditNext \/ AuditRestart PROVE AuditTypeOK'
  OBVIOUS
<1> USE DEF AuditTypeOK, Final
<1>1. ASSUME NEW r \in Runs, StartAudit(r) PROVE AuditTypeOK'
  BY <1>1 DEF StartAudit
<1>2. ASSUME NEW r \in Runs, AuditStep(r) PROVE AuditTypeOK'
  <2>1. ASSUME NEW status \in Final, Finish(r, status), child' \in [Runs -> {"none", "unborn", "live", "hung", "orphan", "gone"}]
        PROVE  AuditTypeOK'
    BY <2>1 DEF Finish
  <2>2. child' \in [Runs -> {"none", "unborn", "live", "hung", "orphan", "gone"}]
    BY <1>2 DEF AuditStep, ExitGood, ExitBad, SidecarsEnd, RescueEnd, Throws
  <2>3. CASE \E status \in Final : Finish(r, status)
    BY <2>1, <2>2, <2>3
  <2>4. CASE /\ handler' \in [Runs -> {"off", "sidecars", "rescue", "threw"}]
             /\ UNCHANGED <<row, stream, shown>>
    BY <2>2, <2>4
  <2>5. QED
    BY <1>2, <2>3, <2>4 DEF AuditStep, ExitGood, ExitBad, SidecarsEnd, RescueEnd, Throws
<1>3. ASSUME NEW p \in Pages, Disconnect(p) PROVE AuditTypeOK'
  BY <1>3 DEF Disconnect
<1>4. ASSUME NEW p \in Pages, NEW r \in Runs, Connect(p, r) PROVE AuditTypeOK'
  BY <1>4 DEF Connect
<1>5. CASE AuditRestart
  BY <1>5 DEF AuditRestart
<1>6. QED
  BY <1>1, <1>2, <1>3, <1>4, <1>5 DEF AuditNext

LEMMA InvStep ==
    /\ Init => IngestInv /\ TypeOK
    /\ IngestInv /\ TypeOK /\ [Next]_vars => (IngestInv /\ TypeOK)'
<1>1. Init => IngestInv /\ TypeOK
  BY IngestInitInv, IntakeAssumption
     DEF Init, TypeOK, IngestInv, AuditInit, AuditTypeOK, Final
<1>2. ASSUME IngestInv, TypeOK, [Next]_vars PROVE (IngestInv /\ TypeOK)'
  <2>1. CASE (Runner \/ Scan \/ CallFails) /\ UNCHANGED <<auditVars, restarts>>
    <3>1. IngestInv'
      BY <1>2, <2>1, RunnerInv, ScanStepInv, FailInv
    <3>2. AuditTypeOK' /\ restarts' = restarts
      BY <1>2, <2>1 DEF TypeOK, AuditTypeOK, auditVars
    <3>3. QED
      BY <1>2, <3>1, <3>2 DEF TypeOK, IngestInv
  <2>2. CASE (AuditNext /\ UNCHANGED <<ingestVars, restarts>>) \/ UNCHANGED vars
    <3>1. IngestInv'
      BY <1>2, <2>2
         DEF vars, ingestVars, IngestInv, IngestTypeOK, TreeInv, ScanInv, SeenInv
    <3>2. AuditTypeOK' /\ restarts' = restarts
      <4>1. CASE UNCHANGED vars
        BY <1>2, <4>1 DEF TypeOK, AuditTypeOK, vars, auditVars
      <4>2. CASE AuditNext /\ restarts' = restarts
        BY <1>2, <4>2, AuditStepInv DEF TypeOK
      <4>3. QED
        BY <2>2, <4>1, <4>2
    <3>3. QED
      BY <1>2, <3>1, <3>2 DEF TypeOK, IngestInv
  <2>3. CASE Restart
    <3>1. IngestInv' /\ AuditTypeOK'
      BY <1>2, <2>3, RestartInv, AuditStepInv DEF Restart, TypeOK
    <3>2. restarts' \in 0 .. MaxRestarts
      BY <1>2, <2>3, IntakeAssumption DEF Restart, TypeOK
    <3>3. QED
      BY <3>1, <3>2 DEF TypeOK, IngestInv
  <2>4. QED
    BY <1>2, <2>1, <2>2, <2>3 DEF Next
<1>3. QED
  BY <1>1, <1>2

(* The variables of the scan, of the runs and of the pages have their      *)
(* types: among them that nothing is read twice (entries and seen are      *)
(* disjoint) and nothing is remembered that was not written.               *)
THEOREM IntakeTypes == Spec => []TypeOK
<1>1. QED
  BY InvStep, PTL DEF Spec
-----------------------------------------------------------------------------
(* A way along which f will be found. *)
IsWay(way, f) ==
    way \in SUBSET made /\ Dir[f] \in way /\ \A d \in way : Leads(way, d)

LEMMA RunnerKeepsWay ==
    ASSUME IngestInv, Runner, NEW f \in Files, Sought(f)
    PROVE  Sought(f)'
<1>1. made \subseteq made' /\ changed \subseteq changed'
      /\ UNCHANGED <<here, stack, entries>>
  BY DEF Runner, MakeDir, Put, scanVars
<1>2. QED
  BY <1>1 DEF Sought, Leads

LEMMA ScanKeepsWay ==
    ASSUME IngestInv, Scan, NEW f \in Files, Waiting(f), Sought(f)
    PROVE  Sought(f)' \/ f \in stored' \cup unread'
<1> USE DEF treeVars
<1>1. CASE Reconcile
  <2>1. stack = {}
    BY <1>1 DEF Reconcile, IngestInv, ScanInv
  <2>2. QED
    BY <1>1, <2>1 DEF Reconcile, Sought, Leads
<1>2. ASSUME NEW d \in stack, Skip(d) PROVE Sought(f)'
  <2>1. entries = {} /\ here = Nowhere
    BY <1>2 DEF Skip, IngestInv, ScanInv
  <2>2. PICK way : IsWay(way, f)
    BY <2>1 DEF Sought, IsWay
  <2>3. d \notin way
    BY <1>2, <2>1, <2>2, IngestAssumption
       DEF Skip, Unchanged, IsWay, Leads, IngestInv, IngestTypeOK
  <2>4. IsWay(way, f)'
    BY <1>2, <2>2, <2>3 DEF Skip, IsWay, Leads
  <2>5. QED
    BY <2>4 DEF Sought, IsWay
<1>3. ASSUME NEW d \in stack, Visit(d) PROVE Sought(f)'
  <2>1. entries = {} /\ here = Nowhere
    BY <1>3 DEF Visit, IngestInv, ScanInv
  <2>2. PICK way : IsWay(way, f)
    BY <2>1 DEF Sought, IsWay
  <2>3. ASSUME NEW e \in way PROVE Leads(way, e)'
    BY <1>3, <2>1, <2>2, <2>3, IngestAssumption
       DEF Visit, IsWay, Leads, IngestInv, IngestTypeOK
  <2>4. QED
    BY <1>3, <2>2, <2>3 DEF Visit, Sought, IsWay
<1>4. CASE ReadDir
  <2>1. entries = {}
    BY <1>4 DEF ReadDir, IngestInv, ScanInv
  <2>2. PICK way : IsWay(way, f)
    BY <2>1 DEF Sought, IsWay
  <2>3. CASE Dir[f] = here
    <3>1. f \in written \ seen
      BY DEF Waiting, IngestInv, SeenInv
    <3>2. QED
      BY <1>4, <2>3, <3>1 DEF ReadDir, Sought
  <2>4. CASE Dir[f] # here
    <3>1. PICK rest : rest = way \ {here}
      OBVIOUS
    <3>2. rest \in SUBSET made' /\ Dir[f] \in rest
      BY <1>4, <2>2, <2>4, <3>1 DEF ReadDir, IsWay
    <3>3. ASSUME NEW e \in rest PROVE Leads(rest, e)'
      BY <1>4, <2>2, <3>1, <3>3, IngestAssumption
         DEF ReadDir, IsWay, Leads, IngestInv, IngestTypeOK
    <3>4. QED
      BY <3>2, <3>3 DEF Sought
  <2>5. QED
    BY <2>3, <2>4
<1>5. ASSUME NEW g \in entries, HandlePath(g)
      PROVE  Sought(f)' \/ f \in stored' \cup unread'
  BY <1>5 DEF HandlePath, Sought, Leads
<1>6. CASE EndScan
  <2>1. changed \subseteq changed'
    BY <1>6 DEF EndScan
  <2>2. QED
    BY <1>6, <2>1 DEF EndScan, Sought, Leads
<1>7. QED
  BY <1>1, <1>2, <1>3, <1>4, <1>5, <1>6 DEF Scan

(* A call that fails leaves a way to f, if it was made for a directory off *)
(* every way to f, or for one that the next scan comes to anyhow.          *)
LEMMA FailKeepsWay ==
    ASSUME IngestInv, CallFails, NEW f \in Files, Sought(f),
           \A d \in Above(Dir[f]) : ~Hides(d)
    PROVE  Sought(f)'
<1> USE DEF treeVars
<1>1. PICK d \in Dirs : (d = here /\ ReadDirFails) \/ (d \in stack /\ StatFails(d))
  BY DEF CallFails, ReadDirFails, IngestInv, IngestTypeOK, ScanInv, TreeInv
<1>2. /\ entries = {} /\ made' = made /\ changed' = changed
      /\ d = here \/ here = Nowhere
      /\ stack \ {d} \subseteq stack'
  BY <1>1 DEF ReadDirFails, StatFails, IngestInv, ScanInv
<1>3. PICK way : IsWay(way, f)
  BY <1>2 DEF Sought, IsWay
<1>4. CASE d \in Above(Dir[f])
  <2>1. \/ Depth[d] <= 2
        \/ StatFails(d) /\ Depth[d] <= 3 /\ here = Nowhere
    BY <1>1, <1>4, IngestAssumption
       DEF Hides, StatFails, IngestInv, IngestTypeOK, ScanInv
  <2>2. PICK more : more = way \cup {e \in made : Depth[e] <= 2}
    OBVIOUS
  <2>3. ASSUME NEW e \in more, Depth[e] <= 2 PROVE Leads(more, e)'
    BY <1>2, <1>3, <2>2, <2>3, IngestAssumption
       DEF Leads, IsWay, IngestInv, IngestTypeOK, TreeInv
  <2>4. ASSUME NEW e \in more, ~(Depth[e] <= 2) PROVE Leads(more, e)'
    <3>1. e \in way /\ Leads(way, e) /\ e \in Dirs
      BY <1>3, <2>2, <2>4 DEF IsWay, IngestInv, IngestTypeOK
    <3>2. CASE e # d
      BY <1>2, <2>2, <2>4, <3>1, <3>2, IngestAssumption DEF Leads
    <3>3. CASE e = d
      <4>1. Parent[e] \in made /\ Depth[Parent[e]] <= 2
        <5>1. e \in made /\ e # Root
          BY <2>1, <2>4, <3>1, <3>3, IngestAssumption
             DEF StatFails, IngestInv, IngestTypeOK
        <5>2. Depth[e] <= 3 /\ Depth[e] = Depth[Parent[e]] + 1 /\ Parent[e] \in Dirs
          BY <2>1, <2>4, <3>1, <3>3, <5>1, IngestAssumption
        <5>3. QED
          BY <5>1, <5>2, IngestAssumption DEF IngestInv, TreeInv
      <4>2. e \in changed
        BY <2>1, <2>4, <3>1, <3>3, IngestAssumption DEF Leads
      <4>3. QED
        BY <1>2, <2>2, <4>1, <4>2 DEF Leads
    <3>4. QED
      BY <3>2, <3>3
  <2>5. QED
    BY <1>2, <1>3, <2>2, <2>3, <2>4 DEF Sought, IsWay
<1>5. CASE d \notin Above(Dir[f])
  <2>1. PICK rest : rest = way \cap Above(Dir[f])
    OBVIOUS
  <2>2. Dir[f] \in rest
    BY <1>3, <2>1, IngestAssumption DEF Above, IsWay
  <2>3. ASSUME NEW e \in rest, e # Root, Parent[e] \in way PROVE Parent[e] \in rest
    <3>1. e \in Dirs \ {Root} /\ Parent[e] \in Dirs
      BY <2>1, <2>3, IngestAssumption DEF Above
    <3>2. QED
      BY <2>1, <2>3, <3>1 DEF Above
  <2>4. ASSUME NEW e \in rest PROVE Leads(rest, e)'
    <3>1. e \in way /\ Leads(way, e) /\ e # d
      BY <1>3, <1>5, <2>1, <2>4 DEF IsWay
    <3>2. e # here
      BY <1>2, <1>3, <3>1, IngestAssumption DEF IsWay, IngestInv, IngestTypeOK
    <3>3. QED
      BY <1>2, <2>3, <2>4, <3>1, <3>2 DEF Leads
  <2>5. QED
    BY <1>2, <1>3, <2>1, <2>2, <2>4 DEF Sought, IsWay
<1>6. QED
  BY <1>4, <1>5

LEMMA RestartKeepsWay ==
    ASSUME IngestInv, IngestRestart, NEW f \in Files, Waiting(f)
    PROVE  Sought(f)'
<1>1. made' = made /\ changed' = made
  BY DEF IngestRestart, treeVars
<1>2. Dir[f] \in made /\ \A d \in made : d = Root \/ Parent[d] \in made
  BY DEF IngestInv, TreeInv, Waiting
<1>3. QED
  BY <1>1, <1>2 DEF Sought, Leads

(* No interleaving of a scan with the runners' writes, no trimming of what *)
(* it remembers and no death of the panel makes it overlook an artifact it *)
(* would have found; only a call that fails on a directory above it does,  *)
(* and only where the mtime is remembered already.                         *)
THEOREM NothingOverlooked == Spec => NoneOverlooked
<1>1. ASSUME IngestInv, [Next]_vars
      PROVE  [\A f \in Files : Waiting(f) /\ Sought(f)
                                =>
                 Sought(f)' \/ ~Waiting(f)' \/ \E d \in Above(Dir[f]) : Hides(d)]_ingestVars
  <2>1. CASE UNCHANGED ingestVars
    BY <2>1
  <2>2. CASE Runner
    BY <1>1, <2>2, RunnerKeepsWay
  <2>3. CASE Scan
    BY <1>1, <2>3, ScanKeepsWay DEF Waiting
  <2>4. CASE IngestRestart
    BY <1>1, <2>4, RestartKeepsWay
  <2>5. CASE CallFails
    BY <1>1, <2>5, FailKeepsWay
  <2>6. QED
    BY <1>1, <2>1, <2>2, <2>3, <2>4, <2>5 DEF Next, Restart, vars
<1>2. QED
  BY <1>1, InvStep, PTL DEF Spec, NoneOverlooked
-----------------------------------------------------------------------------
(* Who will end an unfinished run: its auditor, its exit handler, or nobody *)
(* when the auditor hangs, there was none, the panel died or the database   *)
(* refused the outcome.                                                     *)
InHand(r) ==
    \/ child[r] \in {"live", "hung"} /\ handler[r] = "off"
    \/ child[r] = "gone" /\ handler[r] \in {"sidecars", "rescue", "threw"}
    \/ child[r] \in {"unborn", "orphan"} /\ handler[r] = "off"

(* A row says "running" exactly while the run is in one of these hands.    *)
RunsInHand ==
    \A r \in Runs :
        /\ row[r] = "none" => child[r] = "none" /\ handler[r] = "off"
        /\ row[r] = "running" => InHand(r)
        /\ row[r] \in Final => child[r] = "gone" /\ handler[r] = "off"

(* An outcome that a connected page shows is the one in the row.           *)
PagesAgree ==
    \A p \in Pages : stream[p] # None =>
        /\ row[stream[p]] # "none"
        /\ shown[p] \in {"none", row[stream[p]]}

RunsInv == AuditTypeOK /\ RunsInHand /\ PagesAgree

Stranded(r) ==
    \/ child[r] \in {"hung", "unborn", "orphan"}
    \/ handler[r] = "threw"

(* A run ends once: its row never changes again, not by a late pass of its *)
(* exit handler either, and in the step that ends it every page that       *)
(* follows it is told the same.  A run that hangs, that lost its child or  *)
(* its panel, or whose outcome was refused, is never ended: its row says   *)
(* "running" for ever.                                                     *)
OutcomeIsFinal ==
    \A r \in Runs :
        /\ row[r] \in Final => row'[r] = row[r]
        /\ row[r] = "running" /\ row'[r] # "running" =>
               /\ row'[r] \in Final
               /\ \A p \in Pages : stream[p] = r => shown'[p] = row'[r]
        /\ Stranded(r) => row'[r] = "running" /\ Stranded(r)'

LEMMA RunsInit == AuditInit => RunsInv
BY DEF AuditInit, RunsInv, AuditTypeOK, RunsInHand, PagesAgree, Final

(* A step of a run: only its row, child and handler change, and the pages  *)
(* that follow it are told what the row then says.                         *)
LEMMA RunStep ==
    ASSUME RunsInv, NEW r \in Runs, AuditStep(r)
    PROVE  /\ row[r] = "running"
           /\ ~Stranded(r)
           /\ stream' = stream
           /\ child' = [child EXCEPT ![r] = "gone"]
           /\ \/ /\ handler' = [handler EXCEPT ![r] = "off"]
                 /\ \E status \in Final :
                       /\ row' = [row EXCEPT ![r] = status]
                       /\ shown' = [p \in Pages |-> IF stream[p] = r THEN status
                                                    ELSE shown[p]]
              \/ /\ \E place \in {"sidecars", "rescue", "threw"} :
                       handler' = [handler EXCEPT ![r] = place]
                 /\ row' = row /\ shown' = shown
<1> USE DEF Finish
<1>1. row[r] = "running" /\ ~Stranded(r)
  BY DEF RunsInv, RunsInHand, AuditTypeOK, Final, AuditStep, ExitGood, ExitBad,
         SidecarsEnd, RescueEnd, InHand, Stranded
<1>2. stream' = stream
  BY DEF AuditStep, ExitGood, ExitBad, SidecarsEnd, RescueEnd, Throws
<1>3. child' = [child EXCEPT ![r] = "gone"]
  <2>1. CASE ExitGood(r) \/ ExitBad(r)
    BY <2>1 DEF ExitGood, ExitBad
  <2>2. CASE SidecarsEnd(r) \/ RescueEnd(r)
    <3>1. child' = child
      BY <2>2 DEF SidecarsEnd, RescueEnd, Throws
    <3>2. child[r] = "gone"
      BY <1>1, <2>2 DEF SidecarsEnd, RescueEnd, RunsInv, RunsInHand, InHand
    <3>3. QED
      BY <3>1, <3>2 DEF RunsInv, AuditTypeOK
  <2>3. QED
    BY <2>1, <2>2 DEF AuditStep
<1>4. CASE \E status \in Final : Finish(r, status)
  BY <1>1, <1>2, <1>3, <1>4
<1>5. CASE /\ \E place \in {"sidecars", "rescue", "threw"} :
                 handler' = [handler EXCEPT ![r] = place]
           /\ UNCHANGED <<row, shown>>
  BY <1>1, <1>2, <1>3, <1>5
<1>6. (\E status \in Final : Finish(r, status))
      \/ (/\ \E place \in {"sidecars", "rescue", "threw"} :
                 handler' = [handler EXCEPT ![r] = place]
          /\ UNCHANGED <<row, shown>>)
  BY DEF AuditStep, ExitGood, ExitBad, SidecarsEnd, RescueEnd, Throws, Final
<1>7. QED
  BY <1>4, <1>5, <1>6

LEMMA RunsStep ==
    ASSUME RunsInv, AuditNext \/ AuditRestart \/ UNCHANGED auditVars
    PROVE  RunsInv' /\ OutcomeIsFinal
<1> USE AuditAssumption
    DEF RunsInv, AuditTypeOK, RunsInHand, InHand, PagesAgree, OutcomeIsFinal, Stranded,
        Final
<1>1. ASSUME NEW r \in Runs, StartAudit(r) PROVE RunsInv' /\ OutcomeIsFinal
  BY <1>1 DEF StartAudit
<1>2. ASSUME NEW r \in Runs, AuditStep(r) PROVE RunsInv' /\ OutcomeIsFinal
  <2>1. /\ row[r] = "running"
        /\ stream' = stream
        /\ child' = [child EXCEPT ![r] = "gone"]
    BY <1>2, RunStep
  <2>2. \A q \in Runs : Stranded(q) => q # r
    BY <1>2, RunStep
  <2>3. ASSUME NEW status \in Final,
               handler' = [handler EXCEPT ![r] = "off"],
               row' = [row EXCEPT ![r] = status],
               shown' = [p \in Pages |-> IF stream[p] = r THEN status ELSE shown[p]]
        PROVE  RunsInv' /\ OutcomeIsFinal
    <3>1. AuditTypeOK'
      BY <2>1, <2>3
    <3>2. RunsInHand'
      BY <2>1, <2>3
    <3>3. PagesAgree'
      BY <2>1, <2>3
    <3>4. OutcomeIsFinal
      BY <2>1, <2>2, <2>3
    <3>5. QED
      BY <3>1, <3>2, <3>3, <3>4
  <2>4. ASSUME NEW place \in {"sidecars", "rescue", "threw"},
               handler' = [handler EXCEPT ![r] = place],
               row' = row, shown' = shown
        PROVE  RunsInv' /\ OutcomeIsFinal
    BY <2>1, <2>2, <2>4
  <2>5. QED
    BY <1>2, <2>3, <2>4, RunStep
<1>3. ASSUME NEW p \in Pages, Disconnect(p) PROVE RunsInv' /\ OutcomeIsFinal
  BY <1>3 DEF Disconnect
<1>4. ASSUME NEW p \in Pages, NEW r \in Runs, Connect(p, r)
      PROVE  RunsInv' /\ OutcomeIsFinal
  BY <1>4 DEF Connect
<1>5. CASE AuditRestart
  BY <1>5 DEF AuditRestart
<1>6. CASE UNCHANGED auditVars
  BY <1>6 DEF auditVars
<1>7. QED
  BY <1>1, <1>2, <1>3, <1>4, <1>5, <1>6 DEF AuditNext

LEMMA RunsNext == RunsInv /\ [Next]_vars => RunsInv' /\ OutcomeIsFinal
<1>1. [Next]_vars => AuditNext \/ AuditRestart \/ UNCHANGED auditVars
  BY DEF Next, Restart, vars
<1>2. QED
  BY <1>1, RunsStep

(* An unfinished run is always in the hands of its living auditor or of    *)
(* its exit handler, unless it never had a child or the panel died, and no *)
(* page shows an outcome that is not the row's: the safety half of         *)
(* OutcomeReachesPage, for any number of runs and pages.                   *)
THEOREM RunsAreInHand == Spec => [](RunsInHand /\ PagesAgree)
<1>1. Init => RunsInv
  BY RunsInit DEF Init
<1>2. RunsInv => RunsInHand /\ PagesAgree
  BY DEF RunsInv
<1>3. QED
  BY <1>1, <1>2, RunsNext, PTL DEF Spec

(* The outcome of a run is decided once and told to its pages in the same  *)
(* step.                                                                   *)
THEOREM DecidedOnce == Spec => [][OutcomeIsFinal]_vars
<1>1. Init => RunsInv
  BY RunsInit DEF Init
<1>2. QED
  BY <1>1, RunsNext, PTL DEF Spec
=============================================================================
