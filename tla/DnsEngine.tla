----------------------------- MODULE DnsEngine -----------------------------
(***************************************************************************)
(* The verdict on a name (dns/engine.rs, dns/policy.rs): who is asked, in  *)
(* which order the answers of both address families may come, when the     *)
(* lookup stops early, and when a verdict is Positive, Negative or         *)
(* Indeterminate; and the classification of a zone from the verdicts on    *)
(* names that nobody can have registered.                                  *)
(*                                                                         *)
(* The answer of one resolver for one family stands for the raw query and, *)
(* where that failed without using up its timeout, the Hickory lookup.     *)
(***************************************************************************)
EXTENDS Integers, FiniteSets, Sequences

CONSTANTS
    ResolverCounts,  \* how many resolvers are configured: the values to try
    MaxLiars         \* how many of them may answer anything

ASSUME EngineAssumption == ResolverCounts \subseteq Nat \ {0} /\ MaxLiars \in Nat

Families == {"A", "AAAA"}
Policies == {"discovery", "conservative", "consensus", "probe", "probe consensus"}
\* What the authoritative servers hold for the name: nothing, addresses of one family or of
\* both, or only records of other types.
Truths == {"absent", "A", "AAAA", "both", "nodata"}
Pending == "pending"
Verdicts == {"positive", "negative", "indeterminate"}

VARIABLES
    resolvers,  \* the configured resolvers
    liars,      \* those that answer anything
    truth,      \* of the name, or of every name of the probed zone
    policy,
    stage,      \* "quorum", "families", "consensus" or "done"
    order,      \* resolver_order of the stage: the (at most) two resolvers asked
    answers,    \* outcome of each resolver and family, Pending until it is known
    verdict,
    tally       \* wildcard probes: verdicts so far, and what the positive ones share

engVars == <<resolvers, liars, truth, policy, stage, order, answers, verdict, tally>>

Unasked == [r \in resolvers |-> [f \in Families |-> Pending]]
NoTally == [positive |-> 0, negative |-> 0, total |-> 0, common |-> TRUE, zone |-> Pending]

FirstStage(p) ==
    CASE p = "discovery" -> "quorum"
      [] p \in {"conservative", "probe"} -> "families"
      [] p \in {"consensus", "probe consensus"} -> "consensus"

\* resolver_order, take(2): scores decide, so any order is possible.  Consensus asks all.
Orders ==
    IF FirstStage(policy) = "consensus" THEN {<<>>}
    ELSE IF Cardinality(resolvers) = 1 THEN {<<1>>}
    ELSE {s \in [1..2 -> resolvers] : s[1] # s[2]}

EngInit ==
    /\ \E n \in ResolverCounts : resolvers = 1..n
    /\ liars \in {l \in SUBSET resolvers : Cardinality(l) <= MaxLiars}
    /\ truth \in Truths /\ policy \in Policies
    /\ stage = FirstStage(policy)
    /\ order \in Orders
    /\ answers = Unasked /\ verdict = Pending /\ tally = NoTally

-----------------------------------------------------------------------------
\* classify_address_response: NXDOMAIN alone is negative; NODATA, SERVFAIL, truncation,
\* timeouts and errors are indeterminate.
Answers(r, f) ==
    IF r \in liars THEN Verdicts
    ELSE {"indeterminate"} \cup
         (CASE truth = "absent" -> {"negative"} [] truth \in {f, "both"} -> {"positive"}
            [] OTHER -> {})

\* merge_record_lookup_outcomes
Merge(a, b) ==
    IF "positive" \in {a, b} THEN "positive"
    ELSE IF a = "negative" /\ b = "negative" THEN "negative" ELSE "indeterminate"

\* first_positive_or_both: a positive does not wait for the other family.
EitherOrBoth(a, b) ==
    IF "positive" \in {a, b} THEN "positive"
    ELSE IF Pending \in {a, b} THEN Pending ELSE Merge(a, b)

\* Mutant: one negative is enough.
RequiredOne == 1

Required_negatives == IF Len(order) < 2 THEN 1 ELSE 2

\* lookup_records_classified_in_order: one resolver after the other, up to a positive.
InOrder(f) ==
    LET outs == [i \in DOMAIN order |-> answers[order[i]][f]]
        negatives == Cardinality({i \in DOMAIN order : outs[i] = "negative"})
    IN IF \E i \in DOMAIN order : outs[i] = "positive" THEN "positive"
       ELSE IF \E i \in DOMAIN order : outs[i] = Pending THEN Pending
       ELSE IF negatives >= Required_negatives THEN "negative" ELSE "indeterminate"

\* The resolver of family f that is asked now, in this stage.
Asked(r, f) ==
    /\ answers[r][f] = Pending
    /\ CASE stage = "quorum" -> f = "A" /\ \E i \in DOMAIN order : order[i] = r
         [] stage = "families" ->
               \E i \in DOMAIN order : order[i] = r
                  /\ \A j \in 1..(i - 1) : answers[order[j]][f] \in {"negative", "indeterminate"}
         [] stage = "consensus" -> TRUE
         [] OTHER -> FALSE

\* positive_quorum
Positive_quorum(n) == IF n <= 1 THEN 1 ELSE IF n <= 3 THEN 2 ELSE (n \div 2) + 1

\* collect_consensus_results: stops at a positive quorum; a negative needs every resolver.
Consensus ==
    LET required == Positive_quorum(Cardinality(resolvers))
        of(r) == EitherOrBoth(answers[r]["A"], answers[r]["AAAA"])
        with(o) == Cardinality({r \in resolvers : of(r) = o})
    IN IF with("positive") >= required THEN "positive"
       ELSE IF with(Pending) > 0 THEN Pending
       ELSE IF with("positive") = 0 /\ with("negative") >= required /\ with("indeterminate") = 0
            THEN "negative" ELSE "indeterminate"

\* discovery_a_quorum_outcome: both A answers are awaited; one resolver is no quorum.
Quorum ==
    IF Len(order) < 2 THEN "indeterminate"
    ELSE LET a == answers[order[1]]["A"]
             b == answers[order[2]]["A"]
         IN IF Pending \in {a, b} THEN Pending ELSE Merge(a, b)

\* One resolver answers for one family, or fails.
Answer(r, f) ==
    /\ Asked(r, f)
    /\ \E a \in Answers(r, f) : answers' = [answers EXCEPT ![r][f] = a]
    /\ UNCHANGED <<resolvers, liars, truth, policy, stage, order, verdict, tally>>

Outcome ==
    CASE stage = "quorum" -> Quorum
      [] stage = "families" -> EitherOrBoth(InOrder("A"), InOrder("AAAA"))
      [] stage = "consensus" -> Consensus

\* resolve_host_classified_with_policy: only disagreement pays for the second stage, which
\* takes the resolvers in an order of its own.
FallBack ==
    /\ stage = "quorum" /\ Outcome = "indeterminate"
    /\ stage' = "families" /\ order' \in Orders /\ answers' = Unasked
    /\ UNCHANGED <<resolvers, liars, truth, policy, verdict, tally>>

\* classify_host_lookup.  What is still under way is dropped.
Conclude ==
    /\ stage # "done" /\ Outcome # Pending
    /\ ~(stage = "quorum" /\ Outcome = "indeterminate")
    /\ stage' = "done" /\ verdict' = Outcome /\ answers' = Unasked
    /\ UNCHANGED <<resolvers, liars, truth, policy, order, tally>>

-----------------------------------------------------------------------------
(* wildcard_probe_with_policy.  The probes of a wave run at once; they are *)
(* independent and only counted, so they are taken one after the other.    *)

Probing == policy \in {"probe", "probe consensus"}

\* classify_wildcard_samples
Classify(t, total) ==
    IF t.positive > 0 /\ t.negative > 0 THEN "indeterminate"
    ELSE IF t.positive >= 3 THEN IF t.common THEN "wildcard" ELSE "indeterminate"
    ELSE IF t.positive = 0 /\ t.negative >= 3 /\ t.negative = total THEN "normal"
    ELSE "indeterminate"

\* A verdict on one random name.  Positive samples may stop sharing any record.
Sample ==
    /\ Probing /\ stage = "done" /\ tally.zone = Pending
    /\ \E common \in {tally.common} \cup
              (IF verdict = "positive" /\ tally.positive > 0 THEN {FALSE} ELSE {}) :
          LET t == [tally EXCEPT !.total = @ + 1, !.common = common,
                                 !.positive = @ + IF verdict = "positive" THEN 1 ELSE 0,
                                 !.negative = @ + IF verdict = "negative" THEN 1 ELSE 0]
              zone == IF t.total \in {3, 5} THEN Classify(t, t.total) ELSE Pending
              over == t.total = 5 \/ zone \in {"wildcard", "normal"}
          IN /\ tally' = [t EXCEPT !.zone = IF over THEN zone ELSE Pending]
             /\ IF over THEN UNCHANGED <<stage, order, verdict>>
                ELSE stage' = FirstStage(policy) /\ order' \in Orders /\ verdict' = Pending
    /\ UNCHANGED <<resolvers, liars, truth, policy, answers>>

EngNext ==
    \/ \E r \in resolvers, f \in Families : Answer(r, f)
    \/ FallBack \/ Conclude \/ Sample

EngSpec == EngInit /\ [][EngNext]_engVars

-----------------------------------------------------------------------------
EngTypeOK ==
    /\ \E n \in ResolverCounts : resolvers = 1..n
    /\ liars \subseteq resolvers /\ truth \in Truths /\ policy \in Policies
    /\ stage \in {"quorum", "families", "consensus", "done"} /\ order \in Orders
    /\ answers \in [resolvers -> [Families -> Verdicts \cup {Pending}]]
    /\ verdict \in Verdicts \cup {Pending}
    /\ tally \in [positive : 0..5, negative : 0..5, total : 0..5, common : BOOLEAN,
                  zone : {Pending, "wildcard", "normal", "indeterminate"}]

Outvoted == Cardinality(liars) < Positive_quorum(Cardinality(resolvers)) /\ Cardinality(resolvers) >= 2

\* A resolver that lies (blocks, hijacks, rewrites) alone decides nothing that costs a name:
\* no live name is Negative while fewer resolvers lie than are asked, in whatever order the
\* answers come; and under consensus no absent name is Positive.
LiarsTolerated ==
    Outvoted /\ Cardinality(liars) <= 1 =>
        /\ verdict = "negative" => truth = "absent"
        /\ verdict = "positive" /\ FirstStage(policy) = "consensus" => truth # "absent"

\* A zone whose random names resolve is never called normal, which would let all its
\* wildcard answers in as findings; and under consensus a zone without a wildcard is never
\* called one, which would quarantine its real names.
ProbesSound ==
    Outvoted /\ Cardinality(liars) <= 1 =>
        /\ tally.zone = "normal" => truth = "absent"
        /\ tally.zone = "wildcard" /\ policy = "probe consensus" => truth # "absent"
\* Both: one lying resolver costs no name and opens no wildcard zone.
VerdictsSound == LiarsTolerated /\ ProbesSound
=============================================================================
