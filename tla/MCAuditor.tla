------------------------------ MODULE MCAuditor ------------------------------
(***************************************************************************)
(* Programs of up to Length instructions over one opcode of each kind;     *)
(* audits with up to MaxRows of the rows below; rules of each shape that   *)
(* rules/core has, and sequences that bind a name twice or two at once,    *)
(* join one that is not bound, or join in a field that is not read.        *)
(***************************************************************************)
EXTENDS Auditor, FiniteSets, TLC

CONSTANTS Length, MaxRows

MCBlocks == 0 .. Length - 1

Straight == {[op |-> o, target |-> NoTarget] : o \in {"JUMPDEST", "STOP", "ADD"}}
Jumping == [op : {"JUMP", "JUMPI"}, target : 0 .. Length]

(* Of the targets that are no JUMPDEST one is enough. *)
MCPrograms ==
    {p \in [1 .. Length -> Straight \cup Jumping] :
        \A i \in 1 .. Length : p[i].target = NoTarget \/ IsResolved(p, i)}
-----------------------------------------------------------------------------
MCNames == {"$slot", "$other"}

MCRow(kind, key, fields, guards, effects, returned) ==
    [kind |-> kind, key |-> key, has |-> DOMAIN fields,
     holds |-> [f \in Fields |-> IF f \in DOMAIN fields THEN fields[f] ELSE Null],
     guards |-> guards, fits |-> {"m"}, effects |-> effects, returned |-> returned]
Access(kind, slot, guards, effects) ==
    MCRow(kind, slot, "slot" :> slot @@ "guard" :> IF guards = {} THEN Null ELSE "timelock",
          guards, effects, {})
Call(kind, key, target, guards, effects) ==
    MCRow(kind, key, "call_target" :> target, guards, effects, {"transfer"})

RowMenu == {
    Access("storage_write", "s1", {}, {}),
    Access("storage_write", "s1", {"timelock"}, {}),
    Access("storage_write", "s2", {}, {}),
    Access("storage_read", "s1", {"pausable"}, {"mint"}),
    Access("storage_read", "s2", {"timelock"}, {}),
    Call("delegatecall", "s1", Null, {}, {}),
    Call("delegatecall", Null, "s2", {"unresolved"}, {}),
    Call("external_call", "s2", "s2", {}, {"mint"})}

FunctionMenu ==
    {[tags |-> t, guards |-> {}, effects |-> {"mint"}, fits |-> {"m"}, proved |-> {}]
        : t \in {{}, {"proxy"}}}
    \cup {[tags |-> {}, guards |-> {"timelock"}, effects |-> {"transfer"}, fits |-> {"m"},
           proved |-> {"m"}]}

SlotMenu == {[slot |-> s, fits |-> {"m"}] : s \in {"s1", "s2"}}

MCAudit(rows, tokens, fs, coverage) ==
    [tags |-> tokens \cap {"proxy"}, catalog |-> tokens, coverage |-> coverage,
     functions |-> fs, slots |-> SlotMenu, rows |-> rows]

(* Few audits with functions, for the rules that look at them. *)
MCAudits ==
    {MCAudit(rows, t, {}, 1) :
        rows \in {rs \in SUBSET RowMenu : Cardinality(rs) <= MaxRows},
        t \in {{}, {"timelock"}, {"pausable"}, {"proxy", "unresolved"}}}
    \cup {MCAudit(rows, t, fs, c) :
        rows \in {rs \in SUBSET RowMenu : Cardinality(rs) = 1},
        t \in SUBSET {"timelock", "pausable"}, fs \in SUBSET FunctionMenu, c \in 0 .. 1}

(* A step with the fields that some names are bound to. *)
MCStep(kind, join, binds) ==
    [kind |-> kind, mark |-> "m", join |-> join, unread |-> FALSE,
     bind |-> [n \in MCNames |-> IF n \in DOMAIN binds THEN binds[n] ELSE Null]]
Slot == "$slot" :> "slot"
Target == "$slot" :> "call_target"

Sequences == {
    <<MCStep("storage_write", Null, Slot), MCStep("storage_read", "$slot", <<>>)>>,
    <<MCStep("storage_write", Null, Slot), MCStep("delegatecall", "$slot", Target)>>,
    <<MCStep("storage_write", Null, Slot), MCStep("delegatecall", "$other", Target),
      MCStep("external_call", "$slot", <<>>)>>,
    <<MCStep("storage_write", Null, Slot @@ "$other" :> "guard"),
      MCStep("storage_read", "$slot", "$other" :> "slot" @@ "$slot" :> "call_target"),
      MCStep("external_call", "$other", <<>>)>>,
    <<MCStep("storage_write", Null, Slot),
      [MCStep("storage_read", Null, <<>>) EXCEPT !.unread = TRUE]>>,
    <<MCStep("external_call", Null, "$slot" :> "target")>>,
    <<MCStep("unknown", Null, Slot)>>}

Counter == [suppress |-> {"timelock"}, downgrade |-> {"pausable"},
            inconclusive |-> {"unresolved"}, review |-> {"proxy"}]

Plain == [wellFormed |-> TRUE, scope |-> "contract", facts |-> {}, authorized |-> {},
          effects |-> {}, predicates |-> {}, sequence |-> <<>>, mark |-> "m",
          counter |-> Counter, severity |-> "high", status |-> "probable_vulnerability",
          minCoverage |-> 1, witness |-> TRUE]

SequenceRules ==
    {[Plain EXCEPT !.sequence = s, !.scope = IF Len(s) > 1 THEN "multi_tx" ELSE "contract",
                   !.severity = v] : s \in Sequences, v \in {"critical", "info"}}

Soft == [Plain EXCEPT !.status = "suspicious_behavior", !.witness = FALSE]

OtherRules == {
    [Plain EXCEPT !.scope = "function", !.effects = {"mint", "transfer"}],
    [Plain EXCEPT !.scope = "function", !.facts = {"proxy"}],
    [Plain EXCEPT !.authorized = {"delegatecall"}, !.predicates = {"storage_write"}],
    [Plain EXCEPT !.effects = {"transfer"}, !.predicates = {"external_call"}],
    [Soft EXCEPT !.effects = {"mint"}],
    [Soft EXCEPT !.facts = {"proxy"}, !.effects = {"upgrade"}]}

Takeover ==
    [Plain EXCEPT !.scope = "multi_tx", !.authorized = {"mint"},
                  !.sequence = <<MCStep("storage_write", Null, Slot),
                                 MCStep("storage_read", "$slot", <<>>)>>]
Unjoined == [Takeover EXCEPT !.sequence[2].join = Null]

MCRuleLists ==
    {<<r>> : r \in SequenceRules \cup OtherRules}
        \cup {<<r, Takeover>> : r \in OtherRules} \cup {<<Takeover, Unjoined>>}
=============================================================================
