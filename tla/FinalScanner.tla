----------------------------- MODULE FinalScanner -----------------------------
(***************************************************************************)
(* What the runner promises of a chain whose reorgs are no deeper than     *)
(* CONFIRMATIONS (docs/RUNNER_GUIDE.md:174): it reads a chain that only    *)
(* grows.  It processes its blocks in order, passes none that is not       *)
(* processed, goes back only to process a block again, and remembers no    *)
(* block but those.  Reorgs, heads, searches and deaths are not seen here. *)
(***************************************************************************)
EXTENDS Naturals, Sequences

CONSTANTS Label, StartBlock

VARIABLES
    final,      \* the chain as far as it is final
    last,       \* height of the checkpoint
    done,       \* blocks that were processed to the end
    remembered  \* blocks in the history of the checkpoint

vars == <<final, last, done, remembered>>

(* A block stands for itself and its ancestors. *)
Block(n) == [i \in 1 .. n |-> final[i]]

Init ==
    /\ final = <<>>
    /\ last = StartBlock - 1
    /\ done = {}
    /\ remembered = {}

(* A block becomes final, for good. *)
Finalise ==
    /\ \E label \in Label : final' = Append(final, label)
    /\ UNCHANGED <<last, done, remembered>>

(* The block after the checkpoint, or an earlier one again. *)
Process(n) ==
    /\ n <= Len(final)
    /\ last' = n
    /\ done' = done \cup {Block(n)}
    /\ Block(n) \in remembered'
    /\ remembered' \subseteq remembered \cup {Block(n)}
    /\ UNCHANGED final

Next == Finalise \/ \E n \in StartBlock .. last + 1 : Process(n)

Spec == Init /\ [][Next]_vars
=============================================================================
