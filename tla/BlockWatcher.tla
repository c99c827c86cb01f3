---------------------------- MODULE BlockWatcher ----------------------------
(***************************************************************************)
(* How the runner follows a chain that reorganises: the loop of runRunner, *)
(* processRange and ensureReorgSafeCheckpoint (runner/src/runner.ts), and  *)
(* updateHistory and rewindCheckpoint (runner/src/state.ts).               *)
(*                                                                         *)
(* The hash of a block stands for the block and all its ancestors, so it   *)
(* is represented by the labels of the branch from height 1 on; the parent *)
(* hash is the same with the last label off.  Every RPC call is a step of  *)
(* its own and the chain may change between any two.                       *)
(***************************************************************************)
EXTENDS Naturals, FiniteSets, Recency

CONSTANTS
    Top,            \* bound: the chain grows to this height
    Labels,         \* bound: rival blocks at a height are labelled 1 .. Labels
    ReorgDepth,     \* a reorg replaces at most that many blocks
    ForksReturn,    \* a branch that was abandoned may come back
    StartBlock,     \* START_BLOCK
    Confirmations,  \* CONFIRMATIONS
    MaxReorgDepth,  \* MAX_REORG_DEPTH
    MaxHistory,     \* MAX_HISTORY
    AnyReplay,      \* the operator replays any block, not only processed ones
    MaxUpsets       \* bound: replays and deaths

ASSUME WatcherAssumption ==
    /\ Top \in Nat
    /\ Labels \in Nat \ {0}
    /\ ReorgDepth \in Nat
    /\ ForksReturn \in BOOLEAN
    /\ StartBlock \in Nat \ {0}
    /\ Confirmations \in Nat
    /\ MaxReorgDepth \in Nat \ {0}
    /\ MaxHistory \in Nat \ {0}
    /\ AnyReplay \in BOOLEAN
    /\ MaxUpsets \in Nat

Heights == 1 .. Top
Label == 1 .. Labels

(* Hashes, and `None` where no hash is known. *)
None == <<>>
HashAt(n) == [1 .. n -> Label]
Parent(hash, n) == [i \in 1 .. n - 1 |-> hash[i]]

VARIABLES
    chain,    \* the label of the canonical block at each height ...
    head,     \* ... up to the newest block
    mem,      \* lastProcessedBlock and history in memory
    disk,     \* the same in checkpoint.json
    phase,    \* where the runner is
    replay,   \* this run replays a block
    latest,   \* newest head the runner has heard of
    next,     \* blockNumber of processRange's loop ...
    stopAt,   \* ... and its toBlock
    block,    \* hash of the block it fetched
    cursor,   \* number of the history entry the search looks at
    scanned,  \* history: blocks that were processed to the end
    replayed, \* history: a replay was run
    upsets

env == <<chain, head>>
vars == <<chain, head, mem, disk, phase, replay, latest, next, stopAt, block,
          cursor, scanned, replayed, upsets>>

(* `age` ranks the history entries by the order they were appended in. *)
Checkpoint ==
    [last : Nat, age : [Heights -> Nat],
     hash : [Heights -> {None} \cup UNION {HashAt(n) : n \in Heights}]]

TypeOK ==
    /\ chain \in [Heights -> Label]
    /\ head \in 0 .. Top
    /\ mem \in Checkpoint
    /\ disk \in Checkpoint
    /\ phase \in {"off", "loop", "fetch", "check", "search", "scan"}
    /\ replay \in BOOLEAN
    /\ latest \in 0 .. Top
    /\ next \in Nat
    /\ stopAt \in 0 .. Top
    /\ phase \in {"check", "search", "scan"} =>
          next \in Heights /\ block \in HashAt(next)
    /\ cursor \in 0 .. Top
    /\ scanned \subseteq UNION {HashAt(n) : n \in Heights}
    /\ replayed \in BOOLEAN
    /\ upsets \in Nat

(* The canonical block at height n. *)
Hash(n) == [i \in 1 .. n |-> chain[i]]

Entries(c) == Held(c.age)

(* createEmptyCheckpoint *)
Empty == [last |-> StartBlock - 1, age |-> Nothing(Heights),
          hash |-> [n \in Heights |-> None]]

Init ==
    /\ chain = [n \in Heights |-> 1]
    /\ head = 0
    /\ mem = Empty
    /\ disk = Empty
    /\ phase = "off"
    /\ replay = FALSE
    /\ latest = 0
    /\ next = 0
    /\ stopAt = 0
    /\ block = None
    /\ cursor = 0
    /\ scanned = {}
    /\ replayed = FALSE
    /\ upsets = 0
-----------------------------------------------------------------------------
(* The chain. *)

Mine ==
    /\ head < Top
    /\ head' = head + 1
    /\ UNCHANGED <<chain, mem, disk, phase, replay, latest, next, stopAt,
                   block, cursor, scanned, replayed, upsets>>

(* The canonical blocks from height n on are replaced by another branch. *)
Reorg(n, label) ==
    /\ n <= head
    /\ head - n < ReorgDepth
    /\ label # chain[n]
    /\ ForksReturn \/ label > chain[n]
    /\ chain' = [i \in Heights |-> IF i < n THEN chain[i]
                                   ELSE IF i = n THEN label ELSE 1]
    /\ UNCHANGED <<head, mem, disk, phase, replay, latest, next, stopAt,
                   block, cursor, scanned, replayed, upsets>>
-----------------------------------------------------------------------------
(* The runner. *)

Upset == upsets < MaxUpsets /\ upsets' = upsets + 1

(* Continuous mode: load the checkpoint, then ask for the head. *)
StartWatch ==
    /\ phase = "off"
    /\ mem' = disk
    /\ latest' = head
    /\ replay' = FALSE
    /\ phase' = "loop"
    /\ UNCHANGED <<env, disk, next, stopAt, block, cursor, scanned, replayed,
                   upsets>>

(* --replay-range n:to, or --replay-block n *)
StartReplay(n, to) ==
    /\ phase = "off"
    /\ Upset
    /\ n <= to
    /\ AnyReplay \/ (n >= StartBlock /\ to <= disk.last)
    /\ mem' = disk
    /\ replay' = TRUE
    /\ next' = n
    /\ stopAt' = to
    /\ phase' = "fetch"
    /\ replayed' = TRUE
    /\ UNCHANGED <<env, disk, latest, block, cursor, scanned>>

BeginRange_AtTheTip ==
    /\ phase = "loop"
    /\ latest > mem.last + Confirmations
    /\ next' = latest - Confirmations
    /\ stopAt' = latest - Confirmations
    /\ phase' = "fetch"
    /\ UNCHANGED <<env, mem, disk, replay, latest, block, cursor, scanned,
                   replayed, upsets>>

BeginRange_NoConfirmations ==
    /\ phase = "loop"
    /\ latest > mem.last
    /\ next' = mem.last + 1
    /\ stopAt' = latest
    /\ phase' = "fetch"
    /\ UNCHANGED <<env, mem, disk, replay, latest, block, cursor, scanned,
                   replayed, upsets>>

(* safeBlock > checkpoint.lastProcessedBlock *)
BeginRange ==
    /\ phase = "loop"
    /\ latest > mem.last + Confirmations
    /\ next' = mem.last + 1
    /\ stopAt' = latest - Confirmations
    /\ phase' = "fetch"
    /\ UNCHANGED <<env, mem, disk, replay, latest, block, cursor, scanned,
                   replayed, upsets>>

HearOfHead_OnceOnly ==
    /\ phase = "loop"
    /\ latest = 0
    /\ head > latest
    /\ latest' = head
    /\ UNCHANGED <<env, mem, disk, phase, replay, next, stopAt, block,
                   cursor, scanned, replayed, upsets>>

(* waitForNextLatestBlock resolves: the head is above the last one seen. *)
HearOfHead ==
    /\ phase = "loop"
    /\ latest <= mem.last + Confirmations
    /\ head > latest
    /\ latest' = head
    /\ UNCHANGED <<env, mem, disk, phase, replay, next, stopAt, block,
                   cursor, scanned, replayed, upsets>>

(* getBlockByNumber(blockNumber) *)
Fetch ==
    /\ phase = "fetch"
    /\ next <= head
    /\ block' = Hash(next)
    /\ phase' = "check"
    /\ UNCHANGED <<env, mem, disk, replay, latest, next, stopAt, cursor,
                   scanned, replayed, upsets>>

(* "block not found" ends the run. *)
NotFound ==
    /\ phase = "fetch"
    /\ next > head
    /\ mem' = disk
    /\ phase' = "off"
    /\ UNCHANGED <<env, disk, replay, latest, next, stopAt, block, cursor,
                   scanned, replayed, upsets>>

(* The history entry before the block, if any, is not its parent. *)
WrongParent ==
    /\ next - 1 \in Entries(mem)
    /\ mem.hash[next - 1] # Parent(block, next)

(* The history sorted by number, newest first. *)
NewestOf(S) == CHOOSE n \in S : \A k \in S : k <= n

CheckParent_Trusts ==
    /\ phase = "check"
    /\ phase' = "scan"
    /\ UNCHANGED <<env, mem, disk, replay, latest, next, stopAt, block,
                   cursor, scanned, replayed, upsets>>

(* ensureReorgSafeCheckpoint up to its first RPC call. *)
CheckParent ==
    /\ phase = "check"
    /\ phase' = IF WrongParent THEN "search" ELSE "scan"
    /\ cursor' = IF WrongParent THEN NewestOf(Entries(mem)) ELSE cursor
    /\ UNCHANGED <<env, mem, disk, replay, latest, next, stopAt, block,
                   scanned, replayed, upsets>>

(* rewindCheckpoint *)
Rewound(to) ==
    [last |-> to, age |-> Among(mem.age, 1 .. to),
     hash |-> [n \in Heights |-> IF n <= to THEN mem.hash[n] ELSE None]]

(* The checkpoint is rewound and saved; then the block is processed. *)
RewindTo(to) ==
    /\ mem' = Rewound(to)
    /\ disk' = mem'
    /\ phase' = "scan"
    /\ UNCHANGED cursor

TooDeep(n) == next > n + MaxReorgDepth

(* getBlockByNumber(entry.number) returns the hash of the entry. *)
SearchFinds ==
    /\ phase = "search"
    /\ ~TooDeep(cursor)
    /\ mem.hash[cursor] = Hash(cursor)
    /\ RewindTo(cursor)
    /\ UNCHANGED <<env, replay, latest, next, stopAt, block, scanned,
                   replayed, upsets>>

Older == {n \in Entries(mem) : n < cursor}

(* It returns another hash: on to the next older entry. *)
SearchGoesOn ==
    /\ phase = "search"
    /\ ~TooDeep(cursor)
    /\ mem.hash[cursor] # Hash(cursor)
    /\ Older # {}
    /\ cursor' = NewestOf(Older)
    /\ UNCHANGED <<env, mem, disk, phase, replay, latest, next, stopAt,
                   block, scanned, replayed, upsets>>

(* No entry within MAX_REORG_DEPTH is canonical: back to START_BLOCK - 1. *)
SearchFails ==
    /\ phase = "search"
    /\ \/ TooDeep(cursor)
       \/ mem.hash[cursor] # Hash(cursor) /\ Older = {}
    /\ RewindTo(StartBlock - 1)
    /\ UNCHANGED <<env, replay, latest, next, stopAt, block, scanned,
                   replayed, upsets>>

Processed_CutsNewest(c, n, hash) ==
    LET age == Touch(c.age, n)
        kept == {k \in Held(age) :
                    age[k] + MaxHistory > Cardinality(Held(age))} IN
    [last |-> n, age |-> Among(age, kept),
     hash |-> [k \in Heights |-> IF k \notin kept THEN None
                                 ELSE IF k = n THEN hash ELSE c.hash[k]]]

(* updateHistory and the pruning of saveNow. *)
Processed(c, n, hash) ==
    LET age == Newest(Touch(c.age, n), MaxHistory) IN
    [last |-> n, age |-> age,
     hash |-> [k \in Heights |-> IF k = n THEN hash
                                 ELSE IF age[k] # 0 THEN c.hash[k] ELSE None]]

(* The deployments of the block are dealt with; the checkpoint moves on.   *)
Commit ==
    /\ phase = "scan"
    /\ mem' = Processed(mem, next, block)
    /\ disk' = mem'
    /\ scanned' = scanned \cup {block}
    /\ next' = next + 1
    /\ phase' = IF next < stopAt THEN "fetch"
                ELSE IF replay THEN "off" ELSE "loop"
    /\ UNCHANGED <<env, replay, latest, stopAt, block, cursor, replayed,
                   upsets>>

(* A signal, a failing call or a kill ends the run at any point. *)
Die ==
    /\ phase # "off"
    /\ Upset
    /\ phase' = "off"
    /\ mem' = disk
    /\ UNCHANGED <<env, disk, replay, latest, next, stopAt, block, cursor,
                   scanned, replayed>>

RunStep ==
    \/ BeginRange
    \/ HearOfHead
    \/ Fetch
    \/ NotFound
    \/ CheckParent
    \/ SearchFinds
    \/ SearchGoesOn
    \/ SearchFails
    \/ Commit

(* The bound is reached: the runner waits for a head that never comes. *)
AtTop ==
    /\ head = Top
    /\ phase = "loop"
    /\ latest = head
    /\ latest <= mem.last + Confirmations
    /\ UNCHANGED vars

Next ==
    \/ Mine
    \/ \E n \in Heights, label \in Label : Reorg(n, label)
    \/ StartWatch
    \/ \E n, to \in Heights : StartReplay(n, to)
    \/ RunStep
    \/ Die
    \/ AtTop

(* RPC calls return, and whoever operates the runner starts it again.  The *)
(* chain owes nobody anything.                                             *)
Fairness == WF_vars(RunStep) /\ WF_vars(StartWatch)

Spec == Init /\ [][Next]_vars /\ Fairness
-----------------------------------------------------------------------------
(* "The runner processes only finalized blocks in continuous mode"         *)
(* (docs/RUNNER_GUIDE.md:174): every block of the canonical chain up to    *)
(* the checkpoint was processed, on the branch that is canonical NOW.      *)
NothingSkipped ==
    \A c \in {mem, disk} : \A n \in StartBlock .. c.last :
        n \in Heights /\ Hash(n) \in scanned

(* Each processed block the checkpoint remembers is canonical. *)
HistoryCanonical ==
    \A c \in {mem, disk} : \A n \in Entries(c) : c.hash[n] = Hash(n)

(* checkpoint.json holds the "finalized checkpoint height"                 *)
(* (docs/RUNNER_GUIDE.md:141): CONFIRMATIONS blocks are on top of it.      *)
CheckpointFinal ==
    disk.last >= StartBlock => disk.last + Confirmations <= head

(* The remembered blocks lie on ONE branch, whatever reorgs the runner     *)
(* came through in continuous mode: each entry is an ancestor of every     *)
(* later one.  (A replay rewrites one entry and leaves the later ones; and *)
(* one of a block not processed before leaves a gap that no parent check   *)
(* sees across.)                                                           *)
HistoryOneBranch ==
    ~replayed => \A c \in {mem, disk} : \A n, k \in Entries(c) :
        n < k => c.hash[n] = [i \in 1 .. n |-> c.hash[k][i]]

(* The parent check of the block after the checkpoint has an entry to look *)
(* at: the block at the checkpoint's height is remembered, however runs,   *)
(* replays, rewinds and deaths follow each other -- unless the runner is   *)
(* to begin at START_BLOCK.                                                *)
LastIsRemembered ==
    \A c \in {mem, disk} : c.last \in Entries(c) \cup {StartBlock - 1}

(* A reorg within "Maximum reorg depth tolerated" (MAX_REORG_DEPTH,        *)
(* panel/src/server/env-schema.ts:24) loses no block: whenever the runner  *)
(* has caught up with a head it heard of, all blocks below are processed.  *)
ToleratedReorgLosesNothing ==
    phase = "loop" /\ HistoryCanonical =>
        \A n \in StartBlock .. mem.last : Hash(n) \in scanned

(* The canonical chain without its newest CONFIRMATIONS blocks. *)
Final == Hash(IF head > Confirmations THEN head - Confirmations ELSE 0)

Scanner == INSTANCE FinalScanner
    WITH final <- Final, last <- disk.last, done <- scanned,
         remembered <- {disk.hash[n] : n \in Entries(disk)}

(* With CONFIRMATIONS at least the depth of the reorgs the runner is a     *)
(* scanner of a chain that only grows: whatever reorgs, heads, replays and *)
(* deaths come between its steps, each save of the checkpoint processes    *)
(* the block after the last or one processed before.                       *)
ImplementsScanner == Scanner!Spec

(* Every block that becomes final is processed in the end. *)
EveryFinalBlockScanned ==
    \A n \in Heights :
        (n >= StartBlock /\ n + Confirmations <= head)
            ~> (\E hash \in scanned : hash = Hash(n))
=============================================================================
