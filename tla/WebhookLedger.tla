---------------------------- MODULE WebhookLedger ----------------------------
(***************************************************************************)
(* Webhook events of the runner and the ledger that makes their delivery   *)
(* idempotent: emitEvent, replayPendingWebhookEvents and processRange of   *)
(* runner/src/runner.ts; markEventDelivered, recordPendingWebhook and the  *)
(* pruning save of runner/src/state.ts; postWebhook of runner/src/webhook. *)
(*                                                                         *)
(* An event is a pair of a block and a kind: event ids are hashes of the   *)
(* deployment and the kind, so a block that is scanned again yields the    *)
(* same ids.  One run of the program loads checkpoint.json, retries what   *)
(* is pending, processes its blocks in order and ends; it may die at any   *)
(* step.                                                                   *)
(***************************************************************************)
EXTENDS Naturals, FiniteSets, Recency

CONSTANTS
    LastBlock,     \* the blocks are 1 .. LastBlock
    Kinds,         \* the kinds of event a block gives rise to
    Workers,       \* emissions in flight at once
    MaxDelivered,  \* MAX_DELIVERED_EVENT_ENTRIES
    MaxPending,    \* MAX_PENDING_WEBHOOK_ENTRIES
    Modes,         \* the ways the operator starts the runner
    MaxReplays,    \* bound: runs that replay a block
    MaxFaults      \* bound: failed posts, failed saves, deaths

AllModes == {"normal", "noWebhook", "dryRun", "noUrl"}

ASSUME LedgerAssumption ==
    /\ LastBlock \in Nat
    /\ IsFiniteSet(Kinds)
    /\ Workers \in Nat \ {0}
    /\ MaxDelivered \in Nat \ {0}
    /\ MaxPending \in Nat \ {0}
    /\ Modes \subseteq AllModes
    /\ MaxReplays \in Nat
    /\ MaxFaults \in Nat

Event == (1 .. LastBlock) \X Kinds
BlockOf(e) == e[1]
EventsOf(b) == {e \in Event : BlockOf(e) = b}

Checkpoint ==
    [last : 0 .. LastBlock, delivered : [Event -> Nat], pending : [Event -> Nat]]

VARIABLES
    mem,       \* the checkpoint in memory
    disk,      \* the checkpoint in checkpoint.json
    phase,     \* what the run is doing
    mode,      \* how this run was started
    next,      \* the block to process next ...
    stopAt,    \* ... and the last one of this run
    todo,      \* events no worker has taken yet
    stage,     \* the await at which the worker with each event stands
    writing,   \* the event whose worker's save is running (at most one)
    received,  \* history: events the receiver got
    pruned,    \* history: pending events a save cut off
    waived,    \* history: events a run was told not to send
    replays, faults

vars == <<mem, disk, phase, mode, next, stopAt, todo, stage, writing, received,
          pruned, waived, replays, faults>>

Stages == {"none", "caching", "ready", "posting", "marking", "recording",
           "failed"}

TypeOK ==
    /\ mem \in Checkpoint
    /\ disk \in Checkpoint
    /\ phase \in {"down", "replaying", "scanning"}
    /\ mode \in AllModes
    /\ next \in Nat
    /\ phase = "scanning" => next \in 1 .. LastBlock
    /\ stopAt \in 0 .. LastBlock
    /\ todo \subseteq Event
    /\ stage \in [Event -> Stages]
    /\ writing \subseteq Event
    /\ received \subseteq Event
    /\ pruned \subseteq Event
    /\ waived \subseteq Event
    /\ replays \in Nat
    /\ faults \in Nat

(* createEmptyCheckpoint; the runner was never started. *)
Empty == [last |-> 0, delivered |-> Nothing(Event), pending |-> Nothing(Event)]

Init ==
    /\ mem = Empty
    /\ disk = Empty
    /\ phase = "down"
    /\ mode = "normal"
    /\ next = 0
    /\ stopAt = 0
    /\ todo = {}
    /\ stage = [e \in Event |-> "none"]
    /\ writing = {}
    /\ received = {}
    /\ pruned = {}
    /\ waived = {}
    /\ replays = 0
    /\ faults = 0
-----------------------------------------------------------------------------
InFlight == {e \in Event : stage[e] # "none"}
At(e, place) == stage' = [stage EXCEPT ![e] = place]

(* markEventDelivered *)
Mark(c, e) ==
    [c EXCEPT !.delivered = Touch(@, e), !.pending = Drop(@, e)]

(* recordPendingWebhook *)
Record(c, e) == [c EXCEPT !.pending = Touch(@, e)]

Cut_PendingOnly(c) == [c EXCEPT !.pending = Newest(@, MaxPending)]

(* The pruning at the start of saveNow. *)
Cut(c) ==
    [c EXCEPT !.delivered = Newest(@, MaxDelivered),
              !.pending = Newest(@, MaxPending)]

(* saveNow first prunes the checkpoint in memory. *)
Prune(c) ==
    /\ mem' = Cut(c)
    /\ pruned' = pruned \cup (Held(c.pending) \ Held(Cut(c).pending))

Fault == faults < MaxFaults /\ faults' = faults + 1

(* The events a muted run passes over; a retry leaves them pending. *)
Waive(e) == waived' = IF phase = "scanning" THEN waived \cup {e} ELSE waived

(* A run starts: load, then all pending events are handed to the workers.  *)
StartRun(m, from, to) ==
    /\ phase = "down"
    /\ mem' = disk
    /\ mode' = m
    /\ phase' = "replaying"
    /\ todo' = Held(disk.pending)
    /\ next' = from
    /\ stopAt' = to
    /\ UNCHANGED <<disk, stage, writing, received, pruned, waived, faults>>

(* `--once`: from the checkpoint to the newest final block. *)
StartOnce(m) ==
    StartRun(m, disk.last + 1, LastBlock) /\ UNCHANGED replays

(* `--replay-range b:to`, or `--replay-block b`, of blocks that were        *)
(* processed before.                                                       *)
StartReplay(m, b, to) ==
    /\ replays < MaxReplays
    /\ replays' = replays + 1
    /\ b <= to
    /\ to <= disk.last
    /\ StartRun(m, b, to)

(* A worker of runBounded takes the event. *)
Take(e) ==
    /\ phase # "down"
    /\ e \in todo
    /\ Cardinality(InFlight) < Workers
    /\ todo' = todo \ {e}

(* The event comes of a fresh audit, whose result is saved first. *)
TakeAudit(e) ==
    /\ Take(e)
    /\ phase = "scanning"
    /\ At(e, "caching")
    /\ UNCHANGED <<mem, disk, phase, mode, next, stopAt, writing, received,
                   pruned, waived, replays, faults>>

(* emitEvent is called for e: at once, or after that save. *)
Emit(e) ==
    /\ \/ Take(e)
       \/ stage[e] = "ready" /\ UNCHANGED todo
    /\ UNCHANGED <<mem, disk, phase, mode, next, stopAt, writing, received,
                   pruned, replays, faults>>

(* An id in deliveredEvents is skipped. *)
SkipDelivered(e) ==
    /\ Emit(e)
    /\ mem.delivered[e] # 0
    /\ At(e, "none")
    /\ UNCHANGED waived

(* emitEvent under --no-webhook returns without a trace. *)
SkipMuted(e) ==
    /\ Emit(e)
    /\ mem.delivered[e] = 0
    /\ mode = "noWebhook"
    /\ Waive(e)
    /\ At(e, "none")

BeginPost_NoCheck(e) ==
    /\ Emit(e)
    /\ mode # "noWebhook"
    /\ At(e, "posting")
    /\ UNCHANGED waived

(* emitEvent awaits postWebhook. *)
BeginPost(e) ==
    /\ Emit(e)
    /\ mem.delivered[e] = 0
    /\ mode # "noWebhook"
    /\ At(e, "posting")
    /\ UNCHANGED waived

(* postWebhook resolved and the receiver has the event. *)
PostOk(e) ==
    /\ stage[e] = "posting"
    /\ mode = "normal"
    /\ received' = received \cup {e}
    /\ mem' = Mark(mem, e)
    /\ At(e, "marking")
    /\ UNCHANGED <<disk, phase, mode, next, stopAt, todo, writing, pruned,
                   waived, replays, faults>>

(* Without WEBHOOK_URL postWebhook resolves and nothing was sent. *)
PostNowhere(e) ==
    /\ stage[e] = "posting"
    /\ mode = "noUrl"
    /\ mem' = Mark(mem, e)
    /\ waived' = waived \cup {e}
    /\ At(e, "marking")
    /\ UNCHANGED <<disk, phase, mode, next, stopAt, todo, writing, received,
                   pruned, replays, faults>>

(* --dry-run-webhook: nothing is sent and nothing is marked. *)
PostDry(e) ==
    /\ stage[e] = "posting"
    /\ mode = "dryRun"
    /\ Waive(e)
    /\ At(e, "none")
    /\ UNCHANGED <<mem, disk, phase, mode, next, stopAt, todo, writing,
                   received, pruned, replays, faults>>

PostFail_Forgotten(e) ==
    /\ stage[e] = "posting"
    /\ mode = "normal"
    /\ Fault
    /\ received' \in {received, received \cup {e}}
    /\ At(e, "recording")
    /\ UNCHANGED <<mem, disk, phase, mode, next, stopAt, todo, writing, pruned,
                   waived, replays>>

PostFail_Marked(e) ==
    /\ stage[e] = "posting"
    /\ mode = "normal"
    /\ Fault
    /\ received' \in {received, received \cup {e}}
    /\ mem' = Mark(mem, e)
    /\ At(e, "recording")
    /\ UNCHANGED <<disk, phase, mode, next, stopAt, todo, writing, pruned,
                   waived, replays>>

(* postWebhook gave up after its attempts; the receiver may nevertheless   *)
(* have got the event, when only the answer was lost.                      *)
PostFail(e) ==
    /\ stage[e] = "posting"
    /\ mode = "normal"
    /\ Fault
    /\ received' \in {received, received \cup {e}}
    /\ mem' = Record(mem, e)
    /\ At(e, "recording")
    /\ UNCHANGED <<disk, phase, mode, next, stopAt, todo, writing, pruned,
                   waived, replays>>

(* The chain reaches the save a worker awaits: saveNow prunes the maps. *)
BeginSave(e) ==
    /\ stage[e] \in {"caching", "marking", "recording"}
    /\ writing = {}
    /\ writing' = {e}
    /\ Prune(mem)
    /\ UNCHANGED <<disk, phase, mode, next, stopAt, todo, stage, received,
                   waived, replays, faults>>

(* writeJsonFile replaces checkpoint.json with what memory holds by now,   *)
(* the changes of other workers since the pruning included.                *)
EndSave(e) ==
    /\ e \in writing
    /\ writing' = {}
    /\ disk' = mem
    /\ At(e, IF stage[e] = "caching" THEN "ready" ELSE "none")
    /\ UNCHANGED <<mem, phase, mode, next, stopAt, todo, received, pruned,
                   waived, replays, faults>>

(* The save after marking fails: the catch block records the delivered     *)
(* event as pending.                                                       *)
MarkSaveFails(e) ==
    /\ e \in writing
    /\ stage[e] = "marking"
    /\ Fault
    /\ writing' = {}
    /\ mem' = Record(mem, e)
    /\ At(e, "recording")
    /\ UNCHANGED <<disk, phase, mode, next, stopAt, todo, received, pruned,
                   waived, replays>>

(* Any other failing save is an error that nobody in the worker catches.   *)
SaveFails(e) ==
    /\ e \in writing
    /\ stage[e] \in {"caching", "recording"}
    /\ Fault
    /\ writing' = {}
    /\ At(e, "failed")
    /\ UNCHANGED <<mem, disk, phase, mode, next, stopAt, todo, received, pruned,
                   waived, replays>>

Idle == todo = {} /\ InFlight = {}

(* The run goes on with block b, or ends after its last block. *)
Proceed(b) ==
    /\ next' = b
    /\ phase' = IF b <= stopAt THEN "scanning" ELSE "down"
    /\ todo' = IF b <= stopAt THEN EventsOf(b) ELSE {}

(* replayPendingWebhookEvents returns when every worker is done. *)
FinishRetries ==
    /\ phase = "replaying"
    /\ Idle
    /\ Proceed(next)
    /\ UNCHANGED <<mem, disk, mode, stopAt, stage, writing, received, pruned,
                   waived, replays, faults>>

FinishBlock_WithEventsInFlight ==
    /\ phase = "scanning"
    /\ todo = {}
    /\ Prune([mem EXCEPT !.last = next])
    /\ disk' = mem'
    /\ Proceed(next + 1)
    /\ UNCHANGED <<mode, stopAt, stage, writing, received, waived, replays,
                   faults>>

(* All events of the block are settled: the checkpoint moves to it.  No    *)
(* worker runs beside this save, so it is one step.                        *)
FinishBlock ==
    /\ phase = "scanning"
    /\ Idle
    /\ Prune([mem EXCEPT !.last = next])
    /\ disk' = mem'
    /\ Proceed(next + 1)
    /\ UNCHANGED <<mode, stopAt, stage, writing, received, waived, replays,
                   faults>>

(* The process ends and what was only in memory is gone. *)
End ==
    /\ phase' = "down"
    /\ mem' = disk
    /\ todo' = {}
    /\ stage' = [e \in Event |-> "none"]
    /\ writing' = {}
    /\ UNCHANGED <<disk, mode, next, stopAt, received, pruned, waived, replays>>

(* runBounded rejects with the error of a worker, and the run with it; the *)
(* other workers go on, and take further events, until the process exits.  *)
RunFails ==
    /\ \E e \in Event : stage[e] = "failed"
    /\ End
    /\ UNCHANGED faults

(* The process is killed, or an error outside the workers ends the run. *)
Die == phase # "down" /\ Fault /\ End

RunStep ==
    \/ \E e \in Event :
        \/ TakeAudit(e)
        \/ SkipDelivered(e)
        \/ SkipMuted(e)
        \/ BeginPost(e)
        \/ PostOk(e)
        \/ PostNowhere(e)
        \/ PostDry(e)
        \/ PostFail(e)
        \/ BeginSave(e)
        \/ EndSave(e)
        \/ MarkSaveFails(e)
        \/ SaveFails(e)
    \/ FinishRetries
    \/ FinishBlock
    \/ RunFails

Next ==
    \/ \E m \in Modes :
        \/ StartOnce(m)
        \/ \E b, to \in 1 .. LastBlock : StartReplay(m, b, to)
    \/ RunStep
    \/ Die

(* A run's awaits return, and the operator keeps starting `--once` runs.   *)
Fairness == WF_vars(RunStep) /\ WF_vars(\E m \in Modes : StartOnce(m))

Spec == Init /\ [][Next]_vars /\ Fairness
-----------------------------------------------------------------------------
(* Once a checkpoint has passed a block, each of the block's events has    *)
(* been received or is pending in that same checkpoint -- unless the       *)
(* pending cap cut it off or the operator ran without a webhook: muted, as *)
(* a dry run, or with no URL configured.                                   *)
Accounted(c, e) == e \in received \cup Held(c.pending) \cup pruned \cup waived

NothingLost ==
    \A c \in {mem, disk} : \A e \in Event :
        BlockOf(e) <= c.last => Accounted(c, e)

(* "Webhook event ids are ... persisted after successful delivery"         *)
(* (docs/RUNNER_GUIDE.md:176): an id in the ledger was received.           *)
DeliveredMeansReceived ==
    \A c \in {mem, disk} : Held(c.delivered) \subseteq received

(* "Successful deliveries are skipped on replay and restart"               *)
(* (docs/RUNNER_GUIDE.md:177): what checkpoint.json records as delivered   *)
(* is never posted again.                                                  *)
NoResend ==
    [][\A e \in Event :
        stage[e] # "posting" /\ stage'[e] = "posting"
            => disk.delivered[e] = 0]_vars

(* checkpoint.json never outgrows the caps by more than the events the     *)
(* other workers settle while a save is running (saveNow prunes before it  *)
(* awaits ensureDir and serialises what memory holds afterwards), and the  *)
(* ranks of what a cut keeps stay those of its newest entries.             *)
CheckpointBounded ==
    /\ Cardinality(Held(disk.delivered)) <= MaxDelivered + Workers - 1
    /\ Cardinality(Held(disk.pending)) <= MaxPending + Workers - 1
    /\ IsRanking(disk.delivered) /\ IsRanking(disk.pending)

(* With caps that are not reached and a bounded number of faults, every    *)
(* event of every block is received in the end.                            *)
EveryEventArrives == \A e \in Event : <>(e \in received)
=============================================================================
