--------------------------- MODULE DurableRegister ---------------------------
(***************************************************************************)
(* What the runner expects of its checkpoint file: a register whose stored *)
(* value only moves forward, towards the value in memory, and that holds   *)
(* at least everything a save reported as stored.                          *)
(***************************************************************************)
EXTENDS Naturals

VARIABLES
    mem,    \* version of the checkpoint in memory
    disk,   \* version in checkpoint.json
    acked   \* newest version a save reported as stored

register == <<mem, disk, acked>>

Init == mem = 0 /\ disk = 0 /\ acked = 0

(* The runner changes its checkpoint. *)
Update == mem' = mem + 1 /\ UNCHANGED <<disk, acked>>

(* Some version between the stored and the current one becomes durable;    *)
(* only what is durable may be reported.                                   *)
Persist ==
    /\ disk' \in disk .. mem
    /\ acked' \in acked .. disk'
    /\ UNCHANGED mem

(* The process dies and another loads the file. *)
Restart == mem' = disk /\ UNCHANGED <<disk, acked>>

Next == Update \/ Persist \/ Restart

Spec == Init /\ [][Next]_register

(* A version that a save reported as stored survives every restart. *)
Durable == acked <= disk /\ disk <= mem
=============================================================================
