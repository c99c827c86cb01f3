--------------------------- MODULE CheckpointStore ---------------------------
(***************************************************************************)
(* The promise chain that serialises the writes of checkpoint.json:        *)
(* StateStore.save and saveNow (runner/src/state.ts) and writeJsonFile     *)
(* (runner/src/utils.ts).                                                  *)
(*                                                                         *)
(* The checkpoint is one shared object that parallel audit and webhook     *)
(* workers change; a version number stands for its contents.  A worker     *)
(* changes it and calls save in the same turn of the event loop.           *)
(***************************************************************************)
EXTENDS Naturals, Sequences

CONSTANTS
    Savers,      \* the workers of a run that call save
    MaxVersion,  \* bound: how often the checkpoint changes
    MaxFaults    \* bound: how many writes fail or processes die

ASSUME StoreAssumption == MaxVersion \in Nat /\ MaxFaults \in Nat

VARIABLES
    mem,     \* version of the checkpoint in memory
    disk,    \* version in checkpoint.json
    queue,   \* the saves on the promise chain, the running one first
    stage,   \* the await at which the running save stands
    snap,    \* the version the running save serialised
    pc,      \* what each worker's last save came to
    asked,   \* the version each worker's last save was called for
    acked,   \* newest version a save reported as stored
    failed,  \* the last save that settled was rejected
    faults

vars == <<mem, disk, queue, stage, snap, pc, asked, acked, failed, faults>>

Stages == {"idle", "mkdir", "temp", "rename"}

TypeOK ==
    /\ mem \in Nat
    /\ disk \in Nat
    /\ queue \in Seq(Savers)
    /\ stage \in Stages
    /\ stage # "idle" => queue # <<>>
    /\ snap \in Nat
    /\ pc \in [Savers -> {"idle", "waiting", "stored", "rejected"}]
    /\ asked \in [Savers -> Nat]
    /\ acked \in Nat
    /\ failed \in BOOLEAN
    /\ faults \in Nat

Init ==
    /\ mem = 0
    /\ disk = 0
    /\ queue = <<>>
    /\ stage = "idle"
    /\ snap = 0
    /\ pc = [s \in Savers |-> "idle"]
    /\ asked = [s \in Savers |-> 0]
    /\ acked = 0
    /\ failed = FALSE
    /\ faults = 0
-----------------------------------------------------------------------------
(* A worker changes the checkpoint and awaits save(checkpoint). *)
Save(s) ==
    /\ pc[s] # "waiting"
    /\ mem < MaxVersion
    /\ mem' = mem + 1
    /\ queue' = Append(queue, s)
    /\ pc' = [pc EXCEPT ![s] = "waiting"]
    /\ asked' = [asked EXCEPT ![s] = mem + 1]
    /\ UNCHANGED <<disk, stage, snap, acked, failed, faults>>

(* The chain starts the next saveNow: it prunes the maps in place, calls   *)
(* writeJsonFile and waits for ensureDir.                                  *)
Begin ==
    /\ stage = "idle"
    /\ queue # <<>>
    /\ stage' = "mkdir"
    /\ UNCHANGED <<mem, disk, queue, snap, pc, asked, acked, failed, faults>>

(* JSON.stringify: whatever is in memory by now goes into the payload. *)
Serialise ==
    /\ stage = "mkdir"
    /\ snap' = mem
    /\ stage' = "temp"
    /\ UNCHANGED <<mem, disk, queue, pc, asked, acked, failed, faults>>

WriteTemp_RetriesForEver ==
    /\ stage = "temp"
    /\ stage' = "mkdir"
    /\ UNCHANGED <<mem, disk, queue, snap, pc, asked, acked, failed, faults>>

WriteTemp_InPlace ==
    /\ stage = "temp"
    /\ stage' = "rename"
    /\ acked' = IF asked[Head(queue)] > acked THEN asked[Head(queue)] ELSE acked
    /\ UNCHANGED <<mem, disk, queue, snap, pc, asked, failed, faults>>

(* The payload is in a temporary file that nobody reads. *)
WriteTemp ==
    /\ stage = "temp"
    /\ stage' = "rename"
    /\ UNCHANGED <<mem, disk, queue, snap, pc, asked, acked, failed, faults>>

(* The running save settles and the chain moves on, whatever the outcome. *)
Settle(outcome) ==
    /\ queue' = Tail(queue)
    /\ pc' = [pc EXCEPT ![Head(queue)] = outcome]
    /\ stage' = "idle"
    /\ failed' = (outcome = "rejected")

(* rename replaces checkpoint.json in one step. *)
Rename ==
    /\ stage = "rename"
    /\ disk' = snap
    /\ acked' = IF asked[Head(queue)] > acked THEN asked[Head(queue)] ELSE acked
    /\ Settle("stored")
    /\ UNCHANGED <<mem, snap, asked, faults>>

Fail_Swallowed ==
    /\ stage # "idle"
    /\ faults < MaxFaults
    /\ faults' = faults + 1
    /\ Settle("stored")
    /\ UNCHANGED <<mem, disk, snap, asked, acked>>

(* mkdir, writeFile or rename throws (after the one retry that ENOENT      *)
(* gets, with the same payload): the temporary file is unlinked and the    *)
(* caller's promise rejects.                                               *)
Fail ==
    /\ stage # "idle"
    /\ faults < MaxFaults
    /\ faults' = faults + 1
    /\ Settle("rejected")
    /\ UNCHANGED <<mem, disk, snap, asked, acked>>

(* The process is gone; the next one loads checkpoint.json. *)
Reload ==
    /\ mem' = disk
    /\ queue' = <<>>
    /\ stage' = "idle"
    /\ pc' = [s \in Savers |-> "idle"]
    /\ failed' = FALSE
    /\ snap' = disk
    /\ asked' = [s \in Savers |-> disk]
    /\ UNCHANGED <<disk, acked>>

(* The process dies at any point. *)
Crash ==
    /\ faults < MaxFaults
    /\ faults' = faults + 1
    /\ Reload

(* A run ends, at its last block or by an error that nobody catches. *)
Exit == Reload /\ UNCHANGED faults

ChainStep == Begin \/ Serialise \/ WriteTemp \/ Rename \/ Fail

Next == (\E s \in Savers : Save(s)) \/ ChainStep \/ Crash \/ Exit

Spec == Init /\ [][Next]_vars
-----------------------------------------------------------------------------
Register == INSTANCE DurableRegister WITH mem <- mem, disk <- disk, acked <- acked

(* The chain implements the abstract register: checkpoint.json moves only  *)
(* forward, never ahead of memory, and what save() reported as stored is   *)
(* stored, also across a crash at any await.                               *)
ImplementsRegister == Register!Spec

(* "the file always reflects the latest in-memory checkpoint after the     *)
(* chain drains" (runner/src/state.ts:13), unless the last save rejected.  *)
DrainedIsLatest == queue = <<>> /\ ~failed => disk = mem

(* Every save settles: a failure does not poison the saves behind it       *)
(* (runner/src/state.ts:60).                                               *)
SavesSettle == \A s \in Savers : pc[s] = "waiting" ~> pc[s] # "waiting"
=============================================================================
