--------------------------- MODULE DetectorEngine ---------------------------
(***************************************************************************)
(* How the detector engine evaluates rules on the audit of a contract      *)
(* (go/internal/check/engine, policy and validate.go; twin of evm_check).  *)
(*                                                                         *)
(* Facts, guards, fingerprints, tags and effects are tokens.  Whether a    *)
(* function, a slot, an access or a call meets the part of a rule that     *)
(* looks at it alone (roles, origins, reachability, confidence, usable     *)
(* trust, flows, arithmetic) is data: its `fits` has the marks of what it  *)
(* meets.  The eight measures of coverage are one number.                  *)
(***************************************************************************)
EXTENDS Naturals, Sequences

CONSTANTS
    Audits,     \* what ValidateAudit accepts: tags, catalog, coverage, functions, slots, rows
    RuleLists,  \* the rules of a run, in order
    Names,      \* the variables that steps bind
    Null        \* no value

Tokens == SUBSET STRING
Value == {Null} \cup STRING

(* What a step may name; no row holds "target", which rules bind too. *)
Fields == {"slot", "path", "guard", "value_origin", "call_target", "target"}

(* An access to a slot or a call.  A join compares its `key`, the slot of  *)
(* an access, the slot of a delegatecall's target, the target of another   *)
(* call; a bind stores what it `holds`, of the fields that it `has`: the   *)
(* first four are those of an access, the fifth that of a call.            *)
Row == [kind : STRING, key : Value, has : SUBSET Fields, holds : [Fields -> Value],
        guards : Tokens, fits : Tokens, effects : Tokens, returned : Tokens]

Function == [tags : Tokens, guards : Tokens, effects : Tokens, fits : Tokens,
             proved : Tokens]

Audit == [tags : Tokens, catalog : Tokens, coverage : Nat,
          functions : SUBSET Function,
          slots : SUBSET [slot : STRING, fits : Tokens], rows : SUBSET Row]

(* `unread`: a join in a field that the matcher of the kind does not look  *)
(* at, as same_guard_as and same_delegate_target_as are by none.  `bind`   *)
(* gives a name one field, or none.                                        *)
Step == [kind : STRING, mark : STRING, join : Names \cup {Null}, unread : BOOLEAN,
         bind : [Names -> Fields \cup {Null}]]

Classes == {"suppress", "downgrade", "inconclusive", "review"}

RuleFile == [wellFormed : BOOLEAN, scope : STRING, facts : Tokens,
             authorized : Tokens, effects : Tokens, predicates : Tokens,
             sequence : Seq(Step), mark : STRING, counter : [Classes -> Tokens],
             severity : STRING, status : STRING, minCoverage : Nat,
             witness : BOOLEAN]

ASSUME EngineAssumption ==
    /\ Null \notin Names /\ Null \notin Fields
    /\ Audits \subseteq Audit
    /\ RuleLists \subseteq Seq(RuleFile)

VARIABLES
    audit,     \* the audit that is checked
    rules,     \* the rules of the run
    turn,      \* the rule whose turn it is
    stage,     \* the step of its evaluation
    asked,     \* functions it has yet to be matched with
    matched,   \* steps of its sequence that are matched
    contexts,  \* the partial matches
    findings   \* what is reported

ruleVars == <<stage, asked, matched, contexts>>
checkVars == <<audit, rules, turn, ruleVars, findings>>

Rule == rules[turn]
Stateful(r) == r.scope # "function"
AnyOf(configured, tokens) == configured = {} \/ configured \cap tokens # {}

CheckInit ==
    /\ audit = Null
    /\ rules = <<>>
    /\ turn = 1
    /\ stage = "idle"
    /\ asked = {}
    /\ matched = 0
    /\ contexts = {}
    /\ findings = {}
-----------------------------------------------------------------------------
Rows(kind) == {x \in audit.rows : x.kind = kind}

Tags == audit.tags \cup UNION {f.tags : f \in audit.functions}

Effects ==
    (UNION {f.effects : f \in audit.functions}) \cup UNION {x.effects : x \in audit.rows}

(* Any delegatecall is an effect, and so is one the rule looks for. *)
PathEffects(r) ==
    Effects \cup UNION {x.returned : x \in audit.rows}
        \cup {e \in {"delegatecall"} :
                  Rows(e) # {} \/ \E i \in DOMAIN r.sequence : r.sequence[i].kind = e}

Gates(r) == r.facts \subseteq Tags /\ AnyOf(r.authorized, PathEffects(r))

(* Sequences of these scopes need binds, and a join after the first step;  *)
(* nothing asks whether the name of a join is bound by an earlier step, or *)
(* the join ever looked at.                                                *)
Joined(step) == step.join \in Names \/ step.unread

ValidSequence(s) ==
    /\ Len(s) >= 2
    /\ \E i \in DOMAIN s, n \in Names : s[i].bind[n] # Null
    /\ \E i \in DOMAIN s : Joined(s[i])
    /\ \A i \in DOMAIN s \ {1} : s[i].kind # "unknown" => Joined(s[i])

ValidRule(r) ==
    /\ r.wellFormed
    /\ r.scope \in {"multi_tx", "cross_function", "protocol"} => ValidSequence(r.sequence)
-----------------------------------------------------------------------------
(* A name is bound, also to nil, when the row is of a kind with the field. *)
Binds(s, x, n) == s.bind[n] \in x.has

Bind_FirstStays(bindings, s, x) ==
    [n \in Names |-> IF Binds(s, x, n) /\ bindings[n] = Null
                     THEN x.holds[s.bind[n]] ELSE bindings[n]]

Bind(bindings, s, x) ==
    [n \in Names |-> IF Binds(s, x, n) THEN x.holds[s.bind[n]] ELSE bindings[n]]

(* A name without a value joins rows without a value. *)
Meets(s, bindings, x) ==
    /\ s.mark \in x.fits
    /\ s.join \in Names => x.key = bindings[s.join]

Extend(c, s, x) == [bindings |-> Bind(c.bindings, s, x), rows |-> Append(c.rows, x)]

Extensions(c, s) == {Extend(c, s, x) : x \in {x \in Rows(s.kind) : Meets(s, c.bindings, x)}}

Match(rs) == [bindings |-> [n \in Names |-> Null], rows |-> rs]

(* A rule without a sequence: slots and calls that meet its predicates,    *)
(* without the guards of the slots, or the contract as a whole.            *)
SlotEffects(s) == UNION {x.effects : x \in {x \in Rows("storage_read") : x.key = s.slot}}

FittingSlots(r) ==
    {s \in audit.slots :
        /\ r.mark \in s.fits
        /\ "storage_write" \in r.predicates =>
               \E x \in Rows("storage_write") : x.key = s.slot /\ r.mark \in x.fits
        /\ AnyOf(r.effects, SlotEffects(s))}

FittingCalls(r) ==
    {x \in Rows("external_call") :
        /\ "external_call" \in r.predicates
        /\ r.mark \in x.fits
        /\ AnyOf(r.effects, x.effects \cup x.returned)}

PredicateMatches(r) ==
    LET found == {Match(<<>>) : s \in FittingSlots(r)}
                     \cup {Match(<<x>>) : x \in FittingCalls(r)}
    IN  IF found = {} /\ r.predicates = {} /\ AnyOf(r.effects, Effects)
        THEN {Match(<<>>)}
        ELSE found
-----------------------------------------------------------------------------
(* Which of the four classes of counter-evidence the tokens hit. *)
Hit(r, tokens) == {k \in Classes : r.counter[k] \cap tokens # {}}

StatusFor_DowngradeFirst(r, covered, hit, witness) ==
    CASE ~covered -> "analysis_inconclusive"
      [] covered /\ "downgrade" \in hit -> "suspicious_behavior"
      [] covered /\ hit = {"suppress"} -> "suppressed_by_counter_evidence"
      [] OTHER -> r.status

StatusFor(r, covered, hit, witness) ==
    CASE ~covered -> "analysis_inconclusive"
      [] covered /\ "suppress" \in hit -> "suppressed_by_counter_evidence"
      [] covered /\ "suppress" \notin hit /\ "inconclusive" \in hit -> "analysis_inconclusive"
      [] OTHER ->
            IF hit = {} /\ (witness \/ r.status \in {"probable_vulnerability", "confirmed_vulnerability"})
            THEN r.status
            ELSE "suspicious_behavior"

SeverityFor(r, covered, hit) ==
    CASE r.severity \in {"critical", "high"} ->
            IF covered /\ hit \subseteq {"suppress"} THEN r.severity ELSE "medium"
      [] OTHER -> IF covered /\ "downgrade" \in hit THEN "low" ELSE r.severity

Covered(r, coverage) == coverage >= r.minCoverage

Finding(r, coverage, hit, witness, where) ==
    [rule |-> r, where |-> where,
     status |-> StatusFor(r, Covered(r, coverage), hit, witness),
     severity |-> SeverityFor(r, Covered(r, coverage), hit)]
-----------------------------------------------------------------------------
(* The catalog (guards, fingerprints, proxies, behavior tags of the        *)
(* contract) counts for every sequence, the guards of a row for the        *)
(* sequences that have it.  Nobody asks about manual review here.          *)
Guards(c) == UNION {c.rows[i].guards : i \in DOMAIN c.rows}
SequenceHit(r, c, catalog) == Hit(r, Guards(c) \cup catalog) \ {"review"}

Unguarded_AllOrNone(r, cs, catalog) ==
    {c \in cs : \A d \in cs : "suppress" \notin SequenceHit(r, d, catalog)}

Unguarded(r, cs, catalog) == {c \in cs : "suppress" \notin SequenceHit(r, c, catalog)}

(* Sequences without a guard make the finding; its status and severity     *)
(* follow from what was hit in any sequence, guarded ones included.        *)
SequenceFinding(r, cs, catalog, coverage) ==
    {Finding(r, coverage, UNION {SequenceHit(r, d, catalog) : d \in cs}, r.witness, "contract")
        : c \in Unguarded(r, cs, catalog)}

FunctionTags(f) == audit.tags \cup f.tags \cup f.guards

MatchesFunction(r, f) ==
    /\ r.facts \subseteq FunctionTags(f)
    /\ "suppress" \notin Hit(r, FunctionTags(f))
    /\ r.mark \in f.fits
    /\ AnyOf(r.effects, f.effects)
    /\ AnyOf(r.authorized, f.effects)

FunctionFinding(r, f) ==
    {Finding(r, audit.coverage, Hit(r, FunctionTags(f)), r.mark \in f.proved, f)
        : x \in {x \in {f} : MatchesFunction(r, x)}}
-----------------------------------------------------------------------------
(* An audit is there to be checked: extracted from bytecode or read. *)
Obtain(a) ==
    /\ audit = Null
    /\ audit' = a
    /\ UNCHANGED <<rules, turn, ruleVars, findings>>

CheckAudit(rs) ==
    /\ audit # Null
    /\ stage = "idle"
    /\ rules' = rs
    /\ stage' = "rule"
    /\ UNCHANGED <<audit, turn, asked, matched, contexts, findings>>

AtRule == stage = "rule" /\ turn <= Len(rules)

NextRule ==
    /\ turn' = turn + 1
    /\ stage' = "rule"
    /\ asked' = {}
    /\ matched' = 0
    /\ contexts' = {}
    /\ UNCHANGED <<audit, rules>>

(* One rule that is not valid, and nothing at all is reported. *)
RejectRule ==
    /\ AtRule
    /\ ~ValidRule(Rule)
    /\ stage' = "error"
    /\ findings' = {}
    /\ UNCHANGED <<audit, rules, turn, asked, matched, contexts>>

BeginFunctions ==
    /\ AtRule
    /\ ValidRule(Rule) /\ ~Stateful(Rule)
    /\ stage' = "functions"
    /\ asked' = audit.functions
    /\ UNCHANGED <<audit, rules, turn, matched, contexts, findings>>

EvaluateFunction(f) ==
    /\ stage = "functions"
    /\ f \in asked
    /\ asked' = asked \ {f}
    /\ findings' = findings \cup FunctionFinding(Rule, f)
    /\ UNCHANGED <<audit, rules, turn, stage, matched, contexts>>

EndFunctions == stage = "functions" /\ asked = {} /\ NextRule /\ UNCHANGED findings

(* A fact or an effect the rule asks for is nowhere in the contract. *)
MissGate ==
    /\ AtRule
    /\ ValidRule(Rule) /\ Stateful(Rule) /\ ~Gates(Rule)
    /\ NextRule
    /\ UNCHANGED findings

(* From the match of nothing, or for a rule without a sequence from the    *)
(* matches of its predicates.                                              *)
BeginMatch ==
    /\ AtRule
    /\ ValidRule(Rule) /\ Stateful(Rule) /\ Gates(Rule)
    /\ stage' = "match"
    /\ contexts' = IF Rule.sequence = <<>> THEN PredicateMatches(Rule) ELSE {Match(<<>>)}
    /\ UNCHANGED <<audit, rules, turn, asked, matched, findings>>

(* Every match so far is extended with every row that meets the next step. *)
MatchStep ==
    /\ stage = "match"
    /\ matched < Len(Rule.sequence)
    /\ matched' = matched + 1
    /\ contexts' = UNION {Extensions(c, Rule.sequence[matched']) : c \in contexts}
    /\ UNCHANGED <<audit, rules, turn, stage, asked, findings>>

Judge ==
    /\ stage = "match"
    /\ matched = Len(Rule.sequence)
    /\ findings' = findings \cup SequenceFinding(Rule, contexts, audit.catalog, audit.coverage)
    /\ NextRule

CheckStep ==
    \/ \E rs \in RuleLists : CheckAudit(rs)
    \/ RejectRule
    \/ BeginFunctions
    \/ EndFunctions
    \/ MissGate
    \/ BeginMatch
    \/ MatchStep
    \/ Judge
    \/ stage = "functions" /\ \E f \in audit.functions : EvaluateFunction(f)

CheckNext == CheckStep \/ \E a \in Audits : Obtain(a)

CheckSpec == CheckInit /\ [][CheckNext]_checkVars
-----------------------------------------------------------------------------
(* References.  At step i a name stands for what the latest step before it *)
(* bound; a chain gives each of the first n steps a row that meets it.     *)
StandsFor(s, w, i, name, v) ==
    \/ \E j \in 1 .. i - 1 :
          /\ Binds(s[j], w[j], name)
          /\ w[j].holds[s[j].bind[name]] = v
          /\ \A k \in j + 1 .. i - 1 : ~Binds(s[k], w[k], name)
    \/ v = Null /\ \A j \in 1 .. i - 1 : ~Binds(s[j], w[j], name)

Chains(s, n) ==
    {w \in [1 .. n -> audit.rows] :
        \A i \in 1 .. n :
            /\ w[i].kind = s[i].kind
            /\ s[i].mark \in w[i].fits
            /\ s[i].join \in Names => StandsFor(s, w, i, s[i].join, w[i].key)}

(* The contract has what the gates of the rule ask for, and a chain that   *)
(* no suppressing guard protects.                                          *)
Exposed(r) ==
    /\ Gates(r)
    /\ \E w \in Chains(r.sequence, Len(r.sequence)) :
           r.counter["suppress"] \cap
               (audit.catalog \cup UNION {w[i].guards : i \in DOMAIN w}) = {}

(* What the engine keeps after each step is every chain of rows that meets *)
(* the steps so far and their joins, and nothing else: no chain is lost or *)
(* joined through a binding that a later step has replaced, and nothing of *)
(* an earlier rule is left (matchSequences).                               *)
MatchesAreChains ==
    stage = "match" /\ Rule.sequence # <<>> =>
        {c.rows : c \in contexts} = Chains(Rule.sequence, matched)

(* A rule with a sequence is reported exactly when the contract is exposed *)
(* to it, however many other chains are protected and whatever rules came  *)
(* before (evaluateStatefulRule, CheckAudit).                              *)
ReportedIffExposed ==
    stage \in {"rule", "match", "functions"} =>
        \A i \in 1 .. turn - 1 :
            Stateful(rules[i]) /\ rules[i].sequence # <<>> =>
                ((\E f \in findings : f.rule = rules[i]) <=> Exposed(rules[i]))

StatusRank(status) ==
    CASE status = "confirmed_vulnerability" -> 3
      [] status = "probable_vulnerability" -> 2
      [] status = "suspicious_behavior" -> 1
      [] OTHER -> 0

SeverityRank(severity) ==
    CASE severity = "critical" -> 2 [] severity = "high" -> 1 [] OTHER -> 0

NoStronger(after, before, r) ==
    \A f \in after : \E g \in before :
        /\ StatusRank(f.status) <= StatusRank(g.status)
        /\ r.severity \in {"critical", "high"} =>
               SeverityRank(f.severity) <= SeverityRank(g.severity)

(* One row of the contexts is guarded by one more token. *)
Guarded(cs, x, t) ==
    LET guard(y) == IF y = x THEN [y EXCEPT !.guards = @ \cup {t}] ELSE y
    IN  {[c EXCEPT !.rows = [i \in DOMAIN c.rows |-> guard(c.rows[i])]] : c \in cs}

(* Evidence against a finding never makes it appear or makes it stronger:  *)
(* not one more guard of a row, nor one more token in the catalog, nor     *)
(* less coverage, whatever evidence there is already ("finding remains but *)
(* severity drops", docs/COUNTER_EVIDENCE.md:8).  Not so the severity of   *)
(* rules below high (a downgrade takes info to low, and failing coverage a *)
(* downgraded medium back to medium) nor a default status that is weaker   *)
(* than suspicious_behavior, to which any downgrade takes it.              *)
EvidenceNeverPromotes ==
    stage = "match" /\ matched = Len(Rule.sequence) /\ StatusRank(Rule.status) > 0 =>
        LET report(cs, catalog, coverage) == SequenceFinding(Rule, cs, catalog, coverage)
            before == report(contexts, audit.catalog, audit.coverage)
        IN  /\ \A t \in UNION {Rule.counter[k] : k \in Classes} :
                   /\ NoStronger(report(contexts, audit.catalog \cup {t}, audit.coverage),
                                 before, Rule)
                   /\ \A x \in audit.rows :
                          NoStronger(report(Guarded(contexts, x, t), audit.catalog, audit.coverage),
                                     before, Rule)
            /\ \A less \in 0 .. audit.coverage :
                   NoStronger(report(contexts, audit.catalog, less), before, Rule)
=============================================================================
