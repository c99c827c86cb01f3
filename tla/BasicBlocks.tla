----------------------------- MODULE BasicBlocks -----------------------------
(***************************************************************************)
(* Basic blocks of a contract and the edges between them:                  *)
(* go/internal/decon/blocks/blocks.go and its twin evm_decon/blocks.py.    *)
(*                                                                         *)
(* An instruction is a jump destination, a jump (with the offset pushed    *)
(* right before it, or NoTarget), a conditional jump, a halting opcode or  *)
(* anything else.  Offsets count instructions; block ids start at 0.       *)
(***************************************************************************)
EXTENDS Naturals, Sequences

NoTarget == 0

Halts == {"STOP", "RETURN", "REVERT", "INVALID", "SELFDESTRUCT"}
BlockTerminators == {"JUMP", "JUMPI"} \cup Halts

Instruction == [op : STRING, target : Nat]

Block(first, last) == [first |-> first, last |-> last]

(* Build: a JUMPDEST closes a block that is not empty, a terminator ends   *)
(* its block, and what is left at the end is a block.                      *)
Cut(code, s, i) ==
    IF code[i].op = "JUMPDEST" /\ s.first < i
    THEN [done |-> Append(s.done, Block(s.first, i - 1)), first |-> i]
    ELSE s

Flush(code, s, i) ==
    IF code[i].op \in BlockTerminators
    THEN [done |-> Append(s.done, Block(s.first, i)), first |-> i + 1]
    ELSE s

(* The blocks that are complete after each instruction, and where the      *)
(* current one starts.                                                     *)
Scan(code) ==
    LET scan[i \in 0 .. Len(code)] ==
            IF i = 0 THEN [done |-> <<>>, first |-> 1]
                     ELSE Flush(code, Cut(code, scan[i - 1], i), i)
    IN  scan

Build(code) ==
    LET end == Scan(code)[Len(code)]
    IN  IF end.first <= Len(code) THEN Append(end.done, Block(end.first, Len(code)))
                                  ELSE end.done

(* The pushed target of the jump at offset i, when it is a JUMPDEST. *)
IsResolved(code, i) ==
    /\ code[i].op \in {"JUMP", "JUMPI"}
    /\ code[i].target \in 1 .. Len(code)
    /\ code[code[i].target].op = "JUMPDEST"

FallsThrough(code, i) == code[i].op \notin Halts \cup {"JUMP"}

EdgesPython_NoFallThrough(code) ==
    LET bs == Build(code)
    IN  {e \in (0 .. Len(bs) - 1) \X (0 .. Len(bs) - 1) :
            IsResolved(code, bs[e[1] + 1].last)
                /\ bs[e[2] + 1].first = code[bs[e[1] + 1].last].target}

(* _resolve_edges of blocks.py: the resolved target, and the next block.   *)
EdgesPython(code) ==
    LET bs == Build(code)
    IN  {e \in (0 .. Len(bs) - 1) \X (0 .. Len(bs) - 1) :
            LET last == bs[e[1] + 1].last
            IN  \/ IsResolved(code, last) /\ bs[e[2] + 1].first = code[last].target
                \/ FallsThrough(code, last) /\ e[2] = e[1] + 1}

(* Build of blocks.go: only the next block.  A jump leaves -1 in ExitsTo,  *)
(* which every reader of ExitsTo skips.                                    *)
EdgesGo(code) ==
    LET bs == Build(code)
    IN  {e \in (0 .. Len(bs) - 1) \X (0 .. Len(bs) - 1) :
            FallsThrough(code, bs[e[1] + 1].last) /\ e[2] = e[1] + 1}
-----------------------------------------------------------------------------
(* References: the block an instruction is in, and the instructions that   *)
(* may be executed after it, jumps to pushed targets included.             *)
BlockOf(bs, i) == CHOOSE k \in 1 .. Len(bs) : i \in bs[k].first .. bs[k].last

After(code, i) ==
    {j \in 1 .. Len(code) :
        \/ FallsThrough(code, i) /\ j = i + 1
        \/ IsResolved(code, i) /\ j = code[i].target}

Executable(code) ==
    {i \in 1 .. Len(code) :
        \A X \in SUBSET (1 .. Len(code)) :
            1 \in X /\ (\A a \in X : After(code, a) \subseteq X) => i \in X}
=============================================================================
