----------------------------- MODULE ControlFlow -----------------------------
(***************************************************************************)
(* The control-flow analysis of the decompiler: reachable blocks,          *)
(* dominators, back edges and natural loops                                *)
(* (go/internal/decon/cfg/cfg.go, twin of evm_decon/cfg.py), on the edges  *)
(* that either twin gives a contract (BasicBlocks).                        *)
(*                                                                         *)
(* A worklist is the set of its members: the answers do not depend on      *)
(* their order.  Go ranges over a map in random order, so a pass over the  *)
(* reachable blocks takes them in any order.                               *)
(***************************************************************************)
EXTENDS BasicBlocks, FiniteSets

CONSTANTS
    Programs,  \* the instruction sequences that are analysed
    Blocks,    \* block ids
    MaxIter    \* the cap on the passes of computeDominators (100)

ASSUME ControlFlowAssumption ==
    /\ 0 \in Blocks /\ IsFiniteSet(Blocks)
    /\ \A p \in Programs : 0 .. Len(Build(p)) - 1 \subseteq Blocks
    /\ MaxIter \in Nat \ {0}
    /\ Programs \subseteq Seq(Instruction)
    /\ <<>> \notin Programs  \* Analyze returns at once when there is no block

Entry == 0

VARIABLES
    code,     \* the program, until its blocks are built
    phase,    \* the step of Analyze
    succ,     \* successors
    reached,  \* visited, then reachable
    queue,    \* the worklist of computeReachable
    doms,     \* doms[n], empty where the map has no entry
    todo,     \* the blocks the current pass has yet to visit
    changed,  \* the pass changed something
    iter,     \* the passes begun
    pending,  \* back edges whose loop is not computed yet
    open,     \* back edges whose loop is being computed: none or one
    body,     \* its body so far
    work,     \* the worklist of naturalLoopBody
    loops     \* the loops found

graphVars == <<succ, reached, queue>>
domVars == <<doms, todo, changed, iter>>
loopVars == <<pending, open, body, work, loops>>
vars == <<code, phase, graphVars, domVars, loopVars>>

Phases == {"build", "reach", "doms", "loops", "done"}
Loop == [header : Blocks, tail : Blocks, body : SUBSET Blocks]

TypeOK ==
    /\ phase \in Phases
    /\ succ \in [Blocks -> SUBSET Blocks]
    /\ reached \subseteq Blocks
    /\ queue \subseteq Blocks
    /\ doms \in [Blocks -> SUBSET Blocks]
    /\ todo \subseteq Blocks
    /\ changed \in BOOLEAN
    /\ iter \in 0 .. MaxIter
    /\ pending \subseteq Blocks \X Blocks
    /\ open \subseteq Blocks \X Blocks
    /\ body \subseteq Blocks
    /\ work \subseteq Blocks
    /\ loops \subseteq Loop

Init ==
    /\ code \in Programs
    /\ phase = "build"
    /\ succ = [b \in Blocks |-> {}]
    /\ reached = {}
    /\ queue = {}
    /\ doms = [b \in Blocks |-> {}]
    /\ todo = {}
    /\ changed = FALSE
    /\ iter = 0
    /\ pending = {}
    /\ open = {}
    /\ body = {}
    /\ work = {}
    /\ loops = {}

Successors(edges) == [b \in Blocks |-> {c \in Blocks : <<b, c>> \in edges}]
Pred(n) == {p \in Blocks : n \in succ[p]}
-----------------------------------------------------------------------------
(* Analyze reads ExitsTo of every block. *)
BuildBlocks ==
    /\ phase = "build"
    /\ \E edges \in {EdgesPython(code), EdgesGo(code)} :
          succ' = Successors(edges)
    /\ code' = <<>>
    /\ phase' = "reach"
    /\ queue' = {Entry}
    /\ UNCHANGED <<reached, domVars, loopVars>>

(* computeReachable takes a block off its queue. *)
Visit(n) ==
    /\ phase = "reach"
    /\ n \in queue
    /\ reached' = reached \cup {n}
    /\ queue' = (queue \ {n}) \cup (succ[n] \ (reached \cup {n}))
    /\ UNCHANGED <<code, phase, succ, domVars, loopVars>>

(* computeDominators: the entry dominates itself, the rest is unknown. *)
StartDominators ==
    /\ phase = "reach"
    /\ queue = {}
    /\ phase' = "doms"
    /\ doms' = [b \in Blocks |-> {d \in reached : b \in reached /\ (b = Entry => d = Entry)}]
    /\ todo' = reached \ {Entry}
    /\ changed' = FALSE
    /\ iter' = 1
    /\ UNCHANGED <<code, graphVars, loopVars>>

NewDom_NotItself(n) == {d \in reached : \A p \in Pred(n) \cap reached : d \in doms[p]}

(* What every reachable predecessor is dominated by, and n itself. *)
NewDom(n) == {n} \cup {d \in reached : \A p \in Pred(n) \cap reached : d \in doms[p]}

Refine_NeverAgain(n) ==
    /\ phase = "doms"
    /\ n \in todo
    /\ todo' = todo \ {n}
    /\ doms' = [doms EXCEPT ![n] = NewDom(n)]
    /\ UNCHANGED <<code, phase, graphVars, changed, iter, loopVars>>

(* One block of a pass; the sets it reads may be of this pass already. *)
Refine(n) ==
    /\ phase = "doms"
    /\ n \in todo
    /\ todo' = todo \ {n}
    /\ doms' = IF Pred(n) \cap reached = {} THEN doms
                                            ELSE [doms EXCEPT ![n] = NewDom(n)]
    /\ changed' = (changed \/ doms' # doms)
    /\ UNCHANGED <<code, phase, graphVars, iter, loopVars>>

(* for changed && iter < 100 *)
NextPass ==
    /\ phase = "doms"
    /\ todo = {}
    /\ changed
    /\ iter < MaxIter
    /\ todo' = reached \ {Entry}
    /\ changed' = FALSE
    /\ iter' = iter + 1
    /\ UNCHANGED <<code, phase, graphVars, doms, loopVars>>

StartLoops_AnyCycle ==
    /\ phase = "doms"
    /\ todo = {}
    /\ ~changed \/ iter = MaxIter
    /\ phase' = "loops"
    /\ pending' = {e \in reached \X Blocks : e[2] \in succ[e[1]] /\ e[2] <= e[1]}
    /\ UNCHANGED <<code, graphVars, domVars, open, body, work, loops>>

(* findBackEdges: an edge whose target dominates its source. *)
StartLoops ==
    /\ phase = "doms"
    /\ todo = {}
    /\ ~changed \/ iter = MaxIter
    /\ phase' = "loops"
    /\ pending' = {e \in reached \X Blocks : e[2] \in succ[e[1]] /\ e[2] \in doms[e[1]]}
    /\ UNCHANGED <<code, graphVars, domVars, open, body, work, loops>>

(* computeLoops takes the next back edge to naturalLoopBody. *)
OpenLoop(e) ==
    /\ phase = "loops"
    /\ open = {}
    /\ e \in pending
    /\ pending' = pending \ {e}
    /\ open' = {e}
    /\ body' = {e[1], e[2]}
    /\ work' = {e[1]} \ {e[2]}
    /\ UNCHANGED <<code, phase, graphVars, domVars, loops>>

(* The predecessors of a block of the body join it, reachable or not. *)
Grow(n) ==
    /\ n \in work
    /\ body' = body \cup Pred(n)
    /\ work' = (work \ {n}) \cup (Pred(n) \ body)
    /\ UNCHANGED <<code, phase, graphVars, domVars, pending, open, loops>>

CloseLoop(e) ==
    /\ e \in open
    /\ work = {}
    /\ loops' = loops \cup {[header |-> e[2], tail |-> e[1], body |-> body]}
    /\ open' = {}
    /\ body' = {}
    /\ UNCHANGED <<code, phase, graphVars, domVars, pending, work>>

Finish ==
    /\ phase = "loops"
    /\ pending = {} /\ open = {}
    /\ phase' = "done"
    /\ UNCHANGED <<code, graphVars, domVars, loopVars>>

Next ==
    \/ BuildBlocks
    \/ StartDominators
    \/ NextPass
    \/ StartLoops
    \/ Finish
    \/ \E n \in Blocks : Visit(n) \/ Refine(n) \/ Grow(n)
    \/ \E e \in Blocks \X Blocks : OpenLoop(e) \/ CloseLoop(e)

Spec == Init /\ [][Next]_vars /\ WF_vars(Next)
-----------------------------------------------------------------------------
(* References.  S is closed when no edge leaves it except to the avoided   *)
(* blocks; a block is reachable, avoiding some, when every closed set with *)
(* the entry has it.  These say what paths say without counting steps.     *)
ClosedAvoiding(S, avoided) == \A a \in S : succ[a] \ avoided \subseteq S

Reachable(n) ==
    \A S \in SUBSET Blocks : Entry \in S /\ ClosedAvoiding(S, {}) => n \in S

Dominates(d, n) ==
    \E S \in SUBSET Blocks :
        /\ d = Entry \/ Entry \in S
        /\ ClosedAvoiding(S, {d})
        /\ n \notin S

(* The blocks from which t is reached without passing h, and h. *)
NaturalLoop(h, t) ==
    {h} \cup {n \in Blocks :
        \A S \in SUBSET Blocks :
            t \in S /\ (\A a \in S \ {h} : Pred(a) \subseteq S) => n \in S}

(* The last pass changed nothing, or the cap has cut the iteration short   *)
(* where it had nothing left to do: of so few blocks no order of a pass    *)
(* can leave work for more passes.                                         *)
Converged ==
    /\ phase \in {"loops", "done"}
    /\ ~changed \/ Cardinality(reached) <= MaxIter + 2
-----------------------------------------------------------------------------
(* Whatever an execution does after instruction i, when i jumps to a       *)
(* pushed target or goes on to the next instruction, it stays in the block *)
(* of i or follows an edge of the Python twin.                             *)
EdgesCoverExecution ==
    phase = "build" =>
        LET bs == Build(code)
        IN  \A i \in 1 .. Len(code) : \A j \in After(code, i) :
                \/ j = i + 1 /\ BlockOf(bs, j) = BlockOf(bs, i)
                \/ /\ j = bs[BlockOf(bs, j)].first
                   /\ <<BlockOf(bs, i) - 1, BlockOf(bs, j) - 1>> \in EdgesPython(code)

(* At every point of the iteration, in any order and also when the cap of  *)
(* passes cuts it short, no dominator is missing.                          *)
DominatorsSound ==
    phase \in {"doms", "loops", "done"} =>
        \A n \in reached : \A d \in Blocks : Dominates(d, n) => d \in doms[n]

(* When the iteration ends by itself, and when the cap ends it in a graph  *)
(* of at most MaxIter + 2 blocks, although every pass reads a mix of old   *)
(* and new sets in random order, the blocks found are the reachable ones   *)
(* and each has its dominators, no more.                                   *)
DominatorsExact ==
    Converged =>
        /\ reached = {n \in Blocks : Reachable(n)}
        /\ \A n \in reached : \A d \in Blocks : d \in doms[n] => Dominates(d, n)

(* Each loop is the natural loop of its back edge and is entered through   *)
(* its header only; two of different headers are disjoint or nested, never *)
(* entangled, which detectNesting relies on when it takes a header in the  *)
(* body of another loop as nesting.  (Of reachable code: unreachable code  *)
(* may jump into any body, and is counted in it.)  And in the end no edge  *)
(* of reachable code back to a dominator is without its loop, whether the  *)
(* dominators have converged or not.                                       *)
LoopsNest ==
    /\ Converged =>
           /\ \A l \in loops :
                  /\ l.body = NaturalLoop(l.header, l.tail)
                  /\ \A n \in l.body \cap reached : Dominates(l.header, n)
           /\ \A l, m \in loops :
                  l.header # m.header =>
                      \/ (l.body \cap m.body \cap reached) = {}
                      \/ l.body \cap reached \subseteq m.body
                      \/ m.body \cap reached \subseteq l.body
    /\ phase = "done" =>
           \A t \in reached : \A h \in succ[t] :
               Dominates(h, t) => \E l \in loops : l.header = h /\ l.tail = t
=============================================================================
