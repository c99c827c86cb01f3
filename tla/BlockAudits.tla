----------------------------- MODULE BlockAudits -----------------------------
(***************************************************************************)
(* What the runner does with a block, on top of the checkpoint store:      *)
(* detectDeployments, processDeployment, runBounded, emitAuditEvents of    *)
(* runner/src/runner.ts; resolveProxy and buildAdditionalAuditTargets of   *)
(* proxy.ts; validateBytecode; runAuditJob of auditor.ts and the process   *)
(* of the auditor in process_runner.ts.                                    *)
(*                                                                         *)
(* The savers of the store are the loop over the blocks and the workers of *)
(* runBounded.  The chain does not change here, which BlockWatcher is about, *)
(* and the runner has --no-webhook, with which emitEvent only logs: what   *)
(* becomes of an event is in WebhookLedger.                                *)
(***************************************************************************)
EXTENDS CheckpointStore, FiniteSets, Functions

CONSTANTS
    Loop,         \* the saver that is processRange
    LastBlock,    \* the blocks are 1 .. LastBlock
    Direct,       \* the deployments of each block by their receipts ...
    Traced,       \* ... and by the traces of the block
    Deployments,  \* the contracts deployed, each by one transaction
    Accounts,     \* ... and those their slots point to
    CodeOf,       \* the runtime bytecode of each account
    Form,         \* what validateBytecode sees in a bytecode
    CloneOf,      \* the target in an EIP-1167 clone's bytecode, or None
    ImplSlot,     \* the account in the EIP-1967 implementation slot, or None
    BeaconSlot,   \* the account in the beacon slot, or None
    BeaconSays,   \* what implementation() of a beacon returns, or None
    Forwards,     \* bytecodes that look like proxies without a slot
    None,         \* no account; no audit
    MaxCache,     \* MAX_RESULT_CACHE_ENTRIES
    MaxRules,     \* bound: versions of the rules ...
    MaxEdits      \* ... and how often one replaces another

Pool == Savers \ {Loop}  \* MAX_AUDIT_WORKERS of them
Kinds == {"runtime", "proxy_shell", "beacon", "implementation"}
Notices == {"detected", "skipped", "unresolved"}
Forms == {"proceed", "eof", "skip_empty", "skip_trivial", "skip_proxy_shell"}
Codes == {CodeOf[a] : a \in Accounts}

ASSUME AuditsAssumption ==
    /\ Loop \in Savers
    /\ IsFiniteSet(Savers)
    /\ Pool # {}
    /\ LastBlock \in Nat
    /\ Direct \in [1 .. LastBlock -> SUBSET Deployments]
    /\ Traced \in [1 .. LastBlock -> SUBSET Deployments]
    /\ \A b, c \in 1 .. LastBlock :
          b # c => (Direct[b] \cup Traced[b]) \cap (Direct[c] \cup Traced[c]) = {}
    /\ Deployments \subseteq Accounts
    /\ None \notin Accounts
    /\ CodeOf \in [Accounts -> Codes]
    /\ Form \in [Codes -> Forms]
    /\ CloneOf \in [Codes -> Accounts \cup {None}]
    /\ ImplSlot \in [Deployments -> Accounts \cup {None}]
    /\ BeaconSlot \in [Deployments -> Accounts \cup {None}]
    /\ BeaconSays \in [Accounts -> Accounts \cup {None}]
    /\ Forwards \subseteq Codes
    /\ MaxCache \in Nat \ {0}
    /\ MaxRules \in Nat /\ MaxEdits \in Nat

(* An entry of a deployment's bookkeeping: an audit target by its kind, or *)
(* a notice of its own.  Event ids are hashes of these.                    *)
Id == Deployments \X (Kinds \cup Notices)

Target == [dep : Deployments, kind : Kinds, code : Codes]
TargetId(t) == <<t.dep, t.kind>>

(* buildCacheKey; the other parts of the key do not change. *)
Key == [code : Codes, kind : Kinds, rules : Nat]

(* What an auditor was run on. *)
Report == [code : Codes, rules : Nat]

Contents == [last : Nat, cache : SUBSET [key : Key, report : Report]]

VARIABLES
    now,       \* the checkpoint in memory, the contents of version mem ...
    payload,   \* ... of version snap ...
    file,      \* ... and of version disk
    rules,     \* the rules on disk
    edits,     \* how often they were edited, counted for the bound
    print,     \* rulesFingerprint, hashed when the run started
    phase,     \* what the loop is doing
    block,     \* the block it is at
    deps,      \* deployments of that block still to process ...
    late,      \* ... those of them that only the traces showed ...
    dep,       \* ... and the one in hand, or None
    todo,      \* targets of the deployment no worker has taken
    at,        \* the await at which the loop and each worker stand
    job,       \* each worker's target and result
    notices,   \* events of the deployment that precede its audits
    auditors,  \* auditor processes of this run that were not killed
    orphans,   \* history: auditors that were running when their run ended
    settled,   \* history: ids that went through emitEvent
    unseen,    \* history: deployments that the node did not show
    unread,    \* history: deployments whose slots were not to be read
    edited     \* history: fingerprints of runs that saw the rules edited

store == <<vars, now, payload, file>>
loopVars == <<rules, edits, print, phase, block, deps, late, dep, notices>>
history == <<orphans, settled, unseen, unread, edited>>
auditVars == <<store, loopVars, todo, at, job, auditors, history>>

Checkpoints == {now, file}

Busy == {"auditing", "killed", "artifact"}
Places == {"free", "saving", "telling", "failed"} \cup Busy

AuditTypeOK ==
    /\ TypeOK
    /\ {now, payload, file} \subseteq Contents
    /\ rules \in Nat /\ edits \in Nat /\ print \in Nat
    /\ phase \in {"down", "block", "deployments", "audits", "commit"}
    /\ block \in Nat
    /\ phase # "down" => block \in 1 .. LastBlock
    /\ late \subseteq deps /\ deps \subseteq Deployments
    /\ IF phase = "audits" THEN dep \in deps ELSE dep = None
    /\ todo \in Seq(Target)
    /\ at \in [Savers -> Places]
    /\ job \in [Pool -> [target : Target, result : Report \cup {None}] \cup {None}]
    /\ notices \in Seq(Id)
    /\ auditors \in Nat /\ orphans \in Nat
    /\ settled \subseteq Id
    /\ unseen \subseteq Deployments /\ unread \subseteq Deployments
    /\ edited \subseteq Nat

(* createEmptyCheckpoint; nothing runs. *)
Empty == [last |-> 0, cache |-> {}]

AuditInit ==
    /\ Init
    /\ now = Empty
    /\ payload = Empty
    /\ file = Empty
    /\ rules = 0
    /\ edits = 0
    /\ print = 0
    /\ phase = "down"
    /\ block = 0
    /\ deps = {}
    /\ late = {}
    /\ dep = None
    /\ todo = <<>>
    /\ at = [s \in Savers |-> "free"]
    /\ job = [w \in Pool |-> None]
    /\ notices = <<>>
    /\ auditors = 0
    /\ orphans = 0
    /\ settled = {}
    /\ unseen = {}
    /\ unread = {}
    /\ edited = {}
-----------------------------------------------------------------------------
(* Deployments and their targets. *)

(* validateBytecode: only these are audited; a clone is not. *)
Auditable(c) == Form[c] \in {"proceed", "eof"}

(* getCode is not "0x"; all-zero code counts as trivial here. *)
HasCode(a) == a # None /\ Form[CodeOf[a]] # "skip_empty"

Proxy(detected, beacon, impl) == [detected |-> detected, beacon |-> beacon, impl |-> impl]

(* resolveProxy; lost names the RPC call that fails: none, that for the    *)
(* slots of d or that of its beacon.                                       *)
Resolve(d, lost) ==
    LET code == CodeOf[d]
        beacon == BeaconSlot[d]
    IN  IF CloneOf[code] # None THEN Proxy(TRUE, None, CloneOf[code])
        ELSE IF lost = "slots" THEN Proxy(FALSE, None, None)
        ELSE IF ImplSlot[d] # None THEN Proxy(TRUE, beacon, ImplSlot[d])
        ELSE IF beacon # None
             THEN Proxy(TRUE, beacon, IF lost = "beacon" THEN None ELSE BeaconSays[beacon])
        ELSE Proxy(code \in Forwards, None, None)

TargetAt(d, kind, a) ==
    IF HasCode(a) THEN <<[dep |-> d, kind |-> kind, code |-> CodeOf[a]]>> ELSE <<>>

BaseKind(p) == IF p.detected THEN "proxy_shell" ELSE "runtime"

(* The deployment itself and what buildAdditionalAuditTargets adds. *)
TargetsOf(d, p) ==
    IF Auditable(CodeOf[d])
    THEN TargetAt(d, BaseKind(p), d) \o TargetAt(d, "beacon", p.beacon)
             \o TargetAt(d, "implementation", p.impl)
    ELSE <<>>

(* The events that processDeployment emits before the audits. *)
NoticesOf(d, p) ==
    <<<<d, "detected">>>>
        \o (IF ~Auditable(CodeOf[d]) THEN <<<<d, "skipped">>>>
            ELSE IF p.detected /\ p.impl = None THEN <<<<d, "unresolved">>>>
            ELSE <<>>)

(* The deployments of a block. *)
DeployedIn(b) == Direct[b] \cup Traced[b]

(* detectDeployments: those whose transaction and receipt are not null, and *)
(* those that traces show.                                                 *)
Detected(b, missing, traced) ==
    (Direct[b] \ missing) \cup (IF traced THEN Traced[b] ELSE {})

KeyOf_NoRules(t) == [code |-> t.code, kind |-> t.kind, rules |-> 0]

KeyOf(t) == [code |-> t.code, kind |-> t.kind, rules |-> print]
-----------------------------------------------------------------------------
(* The store's steps, with the contents that go with the versions. *)

(* A saver changes the checkpoint to c and awaits save(checkpoint). *)
SaveAs(s, c, place) ==
    /\ Save(s)
    /\ now' = c
    /\ at' = [at EXCEPT ![s] = place]

(* The pruning of saveNow keeps the newest results; which are newest is    *)
(* left open.                                                              *)
Kept(cache) ==
    IF Cardinality(cache) <= MaxCache THEN {cache}
    ELSE {kept \in SUBSET cache : Cardinality(kept) = MaxCache}

Chain ==
    /\ \/ /\ Begin
          /\ \E kept \in Kept(now.cache) : now' = [now EXCEPT !.cache = kept]
          /\ UNCHANGED <<payload, file>>
       \/ Serialise /\ payload' = now /\ UNCHANGED <<now, file>>
       \/ Rename /\ file' = payload /\ UNCHANGED <<now, payload>>
       \/ (WriteTemp \/ Fail) /\ UNCHANGED <<now, payload, file>>
    /\ UNCHANGED <<loopVars, todo, at, job, auditors, history>>

(* What was only in memory is gone.  Nobody ends the auditors. *)
Forget ==
    /\ now' = file
    /\ payload' = file
    /\ phase' = "down"
    /\ deps' = {}
    /\ late' = {}
    /\ dep' = None
    /\ todo' = <<>>
    /\ at' = [s \in Savers |-> "free"]
    /\ job' = [w \in Pool |-> None]
    /\ notices' = <<>>
    /\ auditors' = 0
    /\ orphans' = orphans + auditors
    /\ UNCHANGED <<file, rules, edits, print, block, settled, unseen, unread, edited>>

(* The process dies, or an RPC call or the write of an artifact throws. *)
Dies == phase # "down" /\ Crash /\ Forget

(* An error that reaches runRunner ends the process (cli.ts); the workers  *)
(* that have not failed go on until then.                                  *)
RunFails == (\E s \in Savers : at[s] = "failed") /\ Exit /\ Forget
-----------------------------------------------------------------------------
(* A rejected save that nobody catches. *)
SaveRejected(s) ==
    /\ at[s] = "saving"
    /\ pc[s] = "rejected"
    /\ at' = [at EXCEPT ![s] = "failed"]
    /\ UNCHANGED <<store, loopVars, todo, job, auditors, history>>
-----------------------------------------------------------------------------
(* A worker of runBounded. *)

Cached(k) == {e \in now.cache : e.key = k}

Put(k, r) == {e \in now.cache : e.key # k} \cup {[key |-> k, report |-> r]}

(* w has the result r for target t and goes on to emit it. *)
WithResult(w, t, r, place) ==
    /\ job' = [job EXCEPT ![w] = [target |-> t, result |-> r]]
    /\ at' = [at EXCEPT ![w] = place]

(* w takes the next target of the deployment. *)
Take(w) ==
    /\ phase = "audits"
    /\ notices = <<>>
    /\ at[w] = "free"
    /\ todo # <<>>
    /\ todo' = Tail(todo)

(* The cache has the result: nothing is audited, written or saved. *)
FromCache(w) ==
    /\ Take(w)
    /\ \E e \in Cached(KeyOf(Head(todo))) :
           WithResult(w, Head(todo), e.report, "telling")
    /\ UNCHANGED <<vars, now, auditors, settled>>

(* NodeProcessRunner.run spawns the auditor, which reads the rules; the     *)
(* result is what it will report if all goes well.                         *)
StartAudit(w) ==
    /\ Take(w)
    /\ Cached(KeyOf(Head(todo))) = {}
    /\ WithResult(w, Head(todo), [code |-> Head(todo).code, rules |-> rules], "auditing")
    /\ auditors' = auditors + 1
    /\ UNCHANGED <<vars, now, settled>>

(* The result is a failure. *)
Failure(w) ==
    /\ job' = [job EXCEPT ![w].result = None]
    /\ at' = [at EXCEPT ![w] = "artifact"]

TimesOut_LeavesChild(w) ==
    /\ at[w] \in {"auditing", "killed"}
    /\ Failure(w)
    /\ UNCHANGED <<vars, now, todo, auditors, settled>>

TimesOut_SparesSilentChild(w) ==
    /\ at[w] = "killed"
    /\ Failure(w)
    /\ UNCHANGED <<vars, now, todo, auditors, settled>>

(* ANALYSIS_TIMEOUT_MS: the process is killed and nobody waits for it. *)
TimesOut(w) ==
    /\ at[w] \in {"auditing", "killed"}
    /\ Failure(w)
    /\ auditors' = IF at[w] = "auditing" THEN auditors - 1 ELSE auditors
    /\ UNCHANGED <<vars, now, todo, settled>>

(* The exit of a process that was killed for too much output. *)
EndKilled(w) ==
    /\ at[w] = "killed"
    /\ Failure(w)
    /\ UNCHANGED <<vars, now, todo, auditors, settled>>

(* The artifact is written; a report goes into the cache; the checkpoint is *)
(* saved either way.                                                       *)
SaveResult(w) ==
    LET t == job[w].target
        r == job[w].result
    IN  /\ at[w] = "artifact"
        /\ SaveAs(w, IF r = None THEN now ELSE [now EXCEPT !.cache = Put(KeyOf(t), r)],
                  "saving")
        /\ UNCHANGED <<todo, job, auditors, settled>>

ResultSaved(w) ==
    /\ at[w] = "saving"
    /\ pc[w] = "stored"
    /\ at' = [at EXCEPT ![w] = "telling"]
    /\ UNCHANGED <<vars, now, todo, job, auditors, settled>>

(* emitAuditEvents. *)
Tell(w) ==
    /\ at[w] = "telling"
    /\ settled' = settled \cup {TargetId(job[w].target)}
    /\ at' = [at EXCEPT ![w] = "free"]
    /\ job' = [job EXCEPT ![w] = None]
    /\ UNCHANGED <<vars, now, todo, auditors>>

Audit(w) ==
    /\ FromCache(w) \/ StartAudit(w) \/ TimesOut(w) \/ EndKilled(w) \/ SaveResult(w)
       \/ ResultSaved(w) \/ Tell(w)
    /\ UNCHANGED <<payload, file, loopVars, orphans, unseen, unread, edited>>

(* The auditor exits: with a report that is whole, or with a status, no    *)
(* JSON, or only the part of its output that has arrived.                  *)
Exits(w) ==
    /\ at[w] = "auditing"
    /\ at' = [at EXCEPT ![w] = "artifact"]
    /\ job' \in {job, [job EXCEPT ![w].result = None]}
    /\ auditors' = auditors - 1
    /\ UNCHANGED <<store, loopVars, todo, history>>

(* MAX_AUDITOR_OUTPUT_BYTES: the process is killed and its exit awaited. *)
Overflows(w) ==
    /\ at[w] = "auditing"
    /\ at' = [at EXCEPT ![w] = "killed"]
    /\ auditors' = auditors - 1
    /\ UNCHANGED <<store, loopVars, todo, job, history>>
-----------------------------------------------------------------------------
(* The loop over the blocks. *)

(* A run starts: load, and the rules are hashed. *)
StartRun ==
    /\ phase = "down"
    /\ now.last < LastBlock
    /\ phase' = "block"
    /\ block' = now.last + 1
    /\ print' = rules
    /\ UNCHANGED <<store, rules, edits, deps, late, dep, notices, todo, at, job, auditors,
                   history>>

(* detectDeployments: the node may answer null for the transaction or the  *)
(* receipt of a deployment, and may have no traces.                        *)
Detect(missing, traced) ==
    /\ phase = "block"
    /\ phase' = "deployments"
    /\ deps' = Detected(block, missing, traced)
    /\ late' = deps' \ (Direct[block] \ missing)
    /\ unseen' = (unseen \ DeployedIn(block)) \cup (DeployedIn(block) \ deps')
    /\ UNCHANGED <<store, rules, edits, print, block, dep, notices, todo, at, job, auditors,
                   orphans, settled, unread, edited>>

(* processDeployment up to its audits; those with a receipt come first. *)
Open(d, lost) ==
    LET p == Resolve(d, lost)
    IN  /\ phase = "deployments"
        /\ d \in deps
        /\ d \notin late \/ deps = late
        /\ phase' = "audits"
        /\ dep' = d
        /\ notices' = NoticesOf(d, p)
        /\ todo' = TargetsOf(d, p)
        /\ unread' = IF p = Resolve(d, "none") THEN unread \ {d} ELSE unread \cup {d}
        /\ UNCHANGED <<store, rules, edits, print, block, deps, late, at, job, auditors,
                       orphans, settled, unseen, edited>>

(* An event that precedes the audits goes through emitEvent. *)
Notify ==
    /\ notices # <<>>
    /\ notices' = Tail(notices)
    /\ settled' = settled \cup {Head(notices)}
    /\ UNCHANGED <<store, rules, edits, print, phase, block, deps, late, dep, todo, at, job,
                   auditors, orphans, unseen, unread, edited>>

Processing ==
    /\ phase' = "deployments"
    /\ deps' = deps \ {dep}
    /\ late' = late \ {dep}
    /\ dep' = None
    /\ UNCHANGED <<store, rules, edits, print, block, notices, todo, at, job, auditors, history>>

Close_NotAwaited ==
    /\ phase = "audits"
    /\ notices = <<>>
    /\ todo = <<>>
    /\ Processing

(* runBounded returns when every worker has run out of targets; the next   *)
(* deployment follows.                                                     *)
Close ==
    /\ phase = "audits"
    /\ \A s \in Savers : at[s] = "free"
    /\ notices = <<>>
    /\ todo = <<>>
    /\ Processing

(* All deployments are processed: the checkpoint moves to the block. *)
Commit ==
    /\ phase = "deployments"
    /\ deps = {}
    /\ phase' = "commit"
    /\ SaveAs(Loop, [now EXCEPT !.last = block], "saving")
    /\ UNCHANGED <<payload, file, rules, edits, print, block, deps, late, dep, notices, todo,
                   job, auditors, history>>

Committed == phase = "commit" /\ at[Loop] = "saving" /\ pc[Loop] = "stored"

(* The range goes on with the next block ... *)
NextBlock ==
    /\ Committed
    /\ block < LastBlock
    /\ phase' = "block"
    /\ block' = block + 1
    /\ at' = [at EXCEPT ![Loop] = "free"]
    /\ UNCHANGED <<store, rules, edits, print, deps, late, dep, notices, todo, job, auditors,
                   history>>

(* ... or ends with this one, and the run with it. *)
EndRun == Committed /\ Exit /\ Forget

(* Someone edits the rules, or takes an edit back, at any time. *)
EditRules ==
    /\ edits < MaxEdits
    /\ edits' = edits + 1
    /\ rules' \in (0 .. MaxRules) \ {rules}
    /\ edited' = IF phase = "down" THEN edited ELSE edited \cup {print}
    /\ UNCHANGED <<store, print, phase, block, deps, late, dep, notices, todo, at, job,
                   auditors, orphans, settled, unseen, unread>>

LoopStep ==
    \/ StartRun
    \/ /\ phase = "block"
       /\ \E missing \in SUBSET Direct[block], traced \in BOOLEAN : Detect(missing, traced)
    \/ \E d \in Deployments, lost \in {"none", "slots", "beacon"} : Open(d, lost)
    \/ Close
    \/ Commit
    \/ NextBlock
    \/ EndRun
    \/ Notify
    \/ SaveRejected(Loop)
    \/ RunFails

WorkerStep(w) == Audit(w) \/ SaveRejected(w)

(* Every block is in the checkpoint and the last run is over. *)
Quiet == phase = "down" /\ now.last = LastBlock /\ UNCHANGED auditVars

AuditNext ==
    \/ Chain
    \/ LoopStep
    \/ \E w \in Pool : WorkerStep(w) \/ Exits(w) \/ Overflows(w)
    \/ Dies
    \/ EditRules
    \/ Quiet

(* Promises on the chain run, the loop and the workers go on when what     *)
(* they await is there, timers fire, killed processes exit and the runner  *)
(* is started again.  An auditor need not ever exit by itself.             *)
AuditFairness ==
    /\ WF_auditVars(Chain)
    /\ WF_auditVars(LoopStep)
    /\ \A w \in Pool : WF_auditVars(WorkerStep(w))

AuditSpec == AuditInit /\ [][AuditNext]_auditVars /\ AuditFairness
-----------------------------------------------------------------------------
(* The targets of d when every call to the node answers. *)
Owed(d) ==
    LET p == Resolve(d, "none")
    IN  {t.kind : t \in Range(TargetsOf(d, p))} \cap {"beacon", "implementation"}

(* d was announced and each of its targets was audited, or its bytecode    *)
(* was refused, which is reported; its beacon and implementation, if they  *)
(* could be read.                                                          *)
Processed(d) ==
    /\ <<d, "detected">> \in settled
    /\ \E kind \in {"skipped", "runtime", "proxy_shell"} : <<d, kind>> \in settled
    /\ d \notin unread => \A kind \in Owed(d) : <<d, kind>> \in settled

(* A block that the checkpoint has passed, in memory or on disk, has each  *)
(* deployment processed that the node showed by a receipt or a trace,      *)
(* whatever failed or died on the way ("still processes direct deployments *)
(* correctly" without traces, docs/RUNNER_GUIDE.md:190).  A clone counts   *)
(* as processed when its refusal is reported; a deployment whose receipt   *)
(* was null and which no trace showed is passed for good: see the README.  *)
CommittedMeansProcessed ==
    \A c \in Checkpoints : \A b \in 1 .. c.last :
        \A d \in DeployedIn(b) \ unseen : Processed(d)

(* A result that is used, of an audit or of the cache, is a report on the  *)
(* target's own bytecode, and one under the rules the run was started      *)
(* with: "changing rules ... invalidates old cached results automatically" *)
(* (docs/RUNNER_GUIDE.md:170), unless the rules were edited during a run   *)
(* with that fingerprint, whose reports are cached under it all the same.  *)
ReportsAreOwn ==
    \A w \in Pool :
        job[w] # None /\ job[w].result # None
            => /\ job[w].result.code = job[w].target.code
               /\ job[w].result.rules = print \/ print \in edited

(* No more than MAX_AUDIT_WORKERS auditors of a run are there at once that *)
(* were not killed, and none outlives the deployment it was started for,   *)
(* unless its run dies or fails: each that does leaves no more than that   *)
(* number behind, and a run that ends well leaves none.                    *)
AuditorsBounded ==
    /\ auditors <= Cardinality(Pool)
    /\ phase # "audits" => auditors = 0
    /\ orphans <= Cardinality(Pool) * faults

(* With a bounded number of failures every block is processed in the end,  *)
(* though an auditor may hang for ever.                                    *)
BlocksFinish == <>(file.last = LastBlock)
=============================================================================
