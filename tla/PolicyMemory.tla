---------------------------- MODULE PolicyMemory ----------------------------
(***************************************************************************)
(* What the cell has learned and what it does with it: the planner         *)
(* (decision_planner.py) with its gate (human_query_gate.py), the policies *)
(* it reads and the answers and rules that change them                     *)
(* (bayesian_policy.py), the log of what it decided and learned            *)
(* (decision_audit.py) and the replay of that log (replay_session.py).     *)
(*                                                                         *)
(* A Beta distribution is kept as three integers: its parameters are       *)
(* alpha/unit and beta/unit.  A comparison of quotients is written as one  *)
(* of products.  Definitions named ..._Slip are no part of the model: each *)
(* is the definition after it with a plausible mistake.                    *)
(***************************************************************************)
EXTENDS Integers, FiniteSets, SequencesExt

CONSTANTS
    Fruit,         \* the fruits the camera tells apart
    Object,        \* what the VLM may take an unknown object for
    Unidentified,  \* UNIDENTIFIED_OBJECT_FRUIT_TYPE
    Sights,        \* the detections, a subset of Sight
    Box,           \* the destinations people name, a subset of Boxes
    Rules,         \* what the operator may order, a set of <<key, destination>>
    Forced,        \* the destinations a session may be forced to
    Loss,          \* what comes of a wrong box: L_error, by condition and box
    Defaults,      \* the destinations init_db puts into an empty table
    Pooling,       \* the values of settings.use_hierarchical_prior
    K1, K2,        \* settings.human_query_cost_k1, human_query_cost_k2
    PseudoCount,   \* settings.hierarchical_prior_pseudo_count
    MaxHold,       \* bound: how long a question is seen to wait
    MaxDecisions,  \* bound: decisions
    MaxOrders      \* bound: rules, deletions and restarts

Boxes     == {"normal_box", "ugly_box", "processing_box", "discard_box"}
Condition == {"normal", "mold", "bruise", "scratch", "small", "unknown"}
Name      == Fruit \cup Object \cup {Unidentified}
Key       == Name \X Condition

\* What VisionFeatureIn says: unknown_flag, defect_type, size, and whether
\* confidence reaches the threshold
Sight == [name : Fruit, unknown : BOOLEAN, small : BOOLEAN, sure : BOOLEAN,
          defect : {"mold", "bruise", "scratch", "none"}]

ASSUME PolicyAssumption ==
    /\ IsFiniteSet(Name) /\ Sights \subseteq Sight /\ Box \subseteq Boxes
    /\ Rules \subseteq Key \X (Box \cup {"ask_human"})
    /\ Forced \subseteq Boxes \cup {"ask_human"}
    /\ Loss \in [Condition -> [Boxes -> Nat \ {0}]]
    /\ Defaults \in [Key -> Boxes \cup {"ask_human", "none"}]
    /\ Pooling \subseteq BOOLEAN
    /\ K1 \in Nat /\ K2 \in Nat /\ PseudoCount \in Nat \ {0}
    /\ MaxHold \in Nat /\ MaxDecisions \in Nat /\ MaxOrders \in Nat

VARIABLES
    memory,    \* tb_policy_memory
    pooling,   \* settings.use_hierarchical_prior
    hand,      \* the planner awaits what an object is, with the backlog of before
    session,   \* hitl_state_machine._current
    pending,   \* hitl_state_machine._pending
    log,       \* tb_decision_audit, its rows about decisions
    trail,     \* tb_decision_audit, its rows about what was learned
    (* history *)
    mixed,     \* keys that did not get their policy from the operator's answers alone
    erased,    \* keys deleted and not learned again
    orders

vars == <<memory, pooling, hand, session, pending, log, trail, mixed, erased, orders>>

NoPolicy  == [dest |-> "none", alpha |-> 0, beta |-> 0, unit |-> 1, source |-> "none"]
NoSession == [key |-> <<>>, row |-> 0, held |-> 0]
NoHand    == [busy |-> FALSE, n |-> 0, tau |-> 0]

\* upsert_llm_policy: a new row has the uniform prior, an old one keeps what
\* it has counted; confidence is 1 either way
Upserted(m, k, d) ==
    [m EXCEPT ![k] = IF @ = NoPolicy
                     THEN [dest |-> d, alpha |-> 1, beta |-> 1, unit |-> 1, source |-> "llm_policy"]
                     ELSE [@ EXCEPT !.dest = d, !.source = "llm_policy"]]

\* init_db: an empty table is filled with the policies to start with
Filled(m) ==
    IF \E k \in Key : m[k] # NoPolicy THEN m
    ELSE [k \in Key |-> IF Defaults[k] = "none" THEN NoPolicy
                        ELSE Upserted(m, k, Defaults[k])[k]]

Init ==
    /\ pooling \in Pooling
    /\ memory = Filled([k \in Key |-> NoPolicy])
    /\ hand = NoHand /\ session = NoSession /\ pending = <<>>
    /\ log = <<>> /\ trail = <<>>
    /\ mixed = {k \in Key : Defaults[k] # "none"}
    /\ erased = {} /\ orders = 0
---------------------------------------------------------------------------
(* The gate                                                                *)

\* 1 - p is this over alpha + beta; a rule's stored confidence is 1
Doubt(p) == IF p.source = "llm_policy" THEN 0 ELSE p.beta

RampCapacity == 6

\* evpi_human > cost_human, which is infinite at the capacity of the ramp
EvpiExceedsCost(c, p, n, tau) ==
    /\ n < RampCapacity
    /\ Doubt(p) * Loss[c][p.dest] * (RampCapacity - n)
         > (K1 * n + K2 * tau * (RampCapacity - n)) * (p.alpha + p.beta)

ShouldQueryHuman(c, p, n, tau) ==
    \/ p = NoPolicy
    \/ p.dest = "ask_human"
    \/ EvpiExceedsCost(c, p, n, tau)
---------------------------------------------------------------------------
(* Learning from answers                                                   *)

\* The other fruits that learned the same condition from answers
Pool(m, k) == {l \in Key : l[2] = k[2] /\ l[1] # k[1] /\ m[l].source = "human_feedback"}

\* The mean of their confidences, num / den
PooledMean(m, k) ==
    LET add(l, sum) == [num |-> sum.num * (m[l].alpha + m[l].beta) + m[l].alpha * sum.den,
                        den |-> sum.den * (m[l].alpha + m[l].beta)]
        total == FoldSet(add, [num |-> 0, den |-> 1], Pool(m, k))
    IN [total EXCEPT !.den = @ * Cardinality(Pool(m, k))]

Prior_Slip(m, k) ==
    IF ~pooling \/ Pool(m, k) = {} THEN [alpha |-> 1, beta |-> 1, unit |-> 1]
    ELSE LET mean == PooledMean(m, k)
         IN [alpha |-> PseudoCount * mean.num, beta |-> PseudoCount * (mean.num - mean.den),
             unit |-> mean.den]
\* The counts a new key starts from: the uniform prior or the pooled one
Prior(m, k) ==
    IF ~pooling \/ Pool(m, k) = {} THEN [alpha |-> 1, beta |-> 1, unit |-> 1]
    ELSE LET mean == PooledMean(m, k)
         IN [alpha |-> PseudoCount * mean.num, beta |-> PseudoCount * (mean.den - mean.num),
             unit |-> mean.den]

Counts(p) == [alpha |-> p.alpha, beta |-> p.beta, unit |-> p.unit]

\* get_or_init_theta: what is stored, or what a new key starts from
Theta(m, k) == IF m[k] = NoPolicy THEN Prior(m, k) ELSE Counts(m[k])

\* apply_feedback_update: an answer that agrees, one that disagrees, and the
\* one too many, after which the new answer is believed
ApplyFeedback_Slip(p, d) ==
    IF d = p.dest \/ p.dest = "ask_human"
    THEN [p EXCEPT !.alpha = @ + p.unit, !.dest = d]
    ELSE IF 2 * (p.beta + p.unit) > 3 * p.alpha
         THEN [p EXCEPT !.dest = d, !.beta = @ + p.unit]
         ELSE [p EXCEPT !.beta = @ + p.unit]
ApplyFeedback(p, d) ==
    IF d = p.dest \/ p.dest = "ask_human"
    THEN [p EXCEPT !.alpha = @ + p.unit, !.dest = d]
    ELSE IF 2 * (p.beta + p.unit) > 3 * p.alpha
         THEN [dest |-> d, alpha |-> 2, beta |-> 1, unit |-> 1, source |-> p.source]
         ELSE [p EXCEPT !.beta = @ + p.unit]

\* record_human_feedback: whatever the policy came from, it comes from
\* answers now
Learned(m, k, d) ==
    [m EXCEPT ![k] =
        IF @ = NoPolicy
        THEN LET t == Theta(m, k)
             IN [dest |-> d, alpha |-> t.alpha + t.unit, beta |-> t.beta, unit |-> t.unit,
                 source |-> "human_feedback"]
        ELSE [ApplyFeedback(@, d) EXCEPT !.source = "human_feedback"]]
---------------------------------------------------------------------------
(* The planner                                                             *)

\* _resolve_condition_candidates
Candidates(v) ==
    IF v.unknown THEN <<"unknown">>
    ELSE (IF v.defect # "none" THEN <<v.defect>> ELSE <<>>)
         \o (IF v.small THEN <<"small">> ELSE <<>>) \o <<"normal">>

\* _find_matching_policy: the first condition something is known about
Matching(name, candidates) ==
    LET known == {i \in DOMAIN candidates : memory[<<name, candidates[i]>>] # NoPolicy}
    IN IF known = {} THEN Head(candidates) ELSE candidates[Min(known)]

\* handle_ask_human
AskHuman(key, row) ==
    LET s == [key |-> key, row |-> row, held |-> 0]
    IN IF session = NoSession THEN session' = s /\ UNCHANGED pending
                              ELSE pending' = Append(pending, s) /\ UNCHANGED session

\* A row of the log; what is answered to it is history and in no table,
\* its actual_label stays NULL
Row(key, seen, n, tau, dest) ==
    [key |-> key, seen |-> seen, n |-> n, tau |-> tau, dest |-> dest, answer |-> "none"]

\* The gate is asked about one policy, the answer logged and acted upon.  A
\* question is a row without destination.
Stage3(name, c, seen, n, tau) ==
    LET p == memory[<<name, c>>]
    IN IF ShouldQueryHuman(c, p, n, tau)
       THEN /\ log' = Append(log, Row(<<name, c>>, seen, n, tau, "none"))
            /\ AskHuman(<<name, c>>, Len(log'))
       ELSE /\ log' = Append(log, Row(<<name, c>>, seen, n, tau, p.dest))
            /\ UNCHANGED <<session, pending>>

CongestionN   == Len(pending) + (IF session = NoSession THEN 0 ELSE 1)
CongestionTau == session.held

\* The consumer takes the next detection, when no question is open and it
\* has decided about the last one
Free_Slip == hand = NoHand
Free == hand = NoHand /\ session = NoSession

\* decide: a detection below the threshold is asked about, unless it is
\* small; the others go by the policy
Decide(v) ==
    /\ Free /\ ~v.unknown /\ Len(log) < MaxDecisions
    /\ LET first == Head(Candidates(v))
           seen  == <<v.name, first>>
       IN IF ~v.sure /\ first # "small"
          THEN /\ log' = Append(log, Row(seen, seen, 0, 0, "none"))
               /\ AskHuman(seen, Len(log'))
          ELSE Stage3(v.name, Matching(v.name, Candidates(v)), seen, CongestionN, CongestionTau)
    /\ UNCHANGED <<memory, pooling, hand, trail, mixed, erased, orders>>

\* An unknown object: the VLM is asked what it is; n and tau are those of now
BeginIdentify(v) ==
    /\ Free /\ v.unknown /\ Len(log) < MaxDecisions
    /\ hand' = [busy |-> TRUE, n |-> CongestionN, tau |-> CongestionTau]
    /\ UNCHANGED <<memory, pooling, session, pending, log, trail, mixed, erased, orders>>

\* It answers with a name, or there was no picture, no answer or none that
\* could be read
Identified ==
    /\ hand # NoHand
    /\ \E name \in Object \cup {Unidentified} :
         Stage3(name, "unknown", <<name, "unknown">>, hand.n, hand.tau)
    /\ hand' = NoHand
    /\ UNCHANGED <<memory, pooling, trail, mixed, erased, orders>>
---------------------------------------------------------------------------
(* Questions                                                               *)

Wait ==
    /\ session # NoSession /\ session.held < MaxHold
    /\ session' = [session EXCEPT !.held = @ + 1]
    /\ UNCHANGED <<memory, pooling, hand, pending, log, trail, mixed, erased, orders>>

Advance == IF pending = <<>> THEN session' = NoSession /\ UNCHANGED pending
                             ELSE session' = Head(pending) /\ pending' = Tail(pending)

\* log_prior_initialized: a row for the key of a first answer
Initialized(k) ==
    IF memory[k] # NoPolicy THEN <<>>
    ELSE <<[branch |-> "prior_initialized", key |-> k, before |-> Counts(NoPolicy),
            after |-> Prior(memory, k)]>>

Resolved_Slip(k) ==
    [branch |-> "human_resolved", key |-> k,
     before |-> IF memory[k] = NoPolicy THEN [alpha |-> 1, beta |-> 1, unit |-> 1]
                ELSE Counts(memory[k]),
     after |-> Counts(memory'[k])]
\* log_stage3_human_resolved: the counts before and after the answer
Resolved(k) ==
    [branch |-> "human_resolved", key |-> k, before |-> Theta(memory, k),
     after |-> Counts(memory'[k])]

\* The operator answers the open question
Answer(d) ==
    /\ session # NoSession
    /\ memory' = Learned(memory, session.key, d)
    /\ trail' = trail \o Initialized(session.key) \o <<Resolved(session.key)>>
    /\ log' = [log EXCEPT ![session.row].answer = d]
    /\ erased' = erased \ {session.key}
    /\ Advance
    /\ UNCHANGED <<pooling, hand, mixed, orders>>

\* force_reset with a destination, from the administrator or by a spoken
\* rule: it is learned like an answer, and no row says so
ForceReset(d) ==
    /\ session # NoSession
    /\ memory' = Learned(memory, session.key, d)
    /\ trail' = trail \o Initialized(session.key)
    /\ mixed' = mixed \cup {session.key} /\ erased' = erased \ {session.key}
    /\ Advance
    /\ UNCHANGED <<pooling, hand, log, orders>>

\* It is left for later, or reset without a destination
Postpone ==
    /\ session # NoSession
    /\ Advance
    /\ UNCHANGED <<memory, pooling, hand, log, trail, mixed, erased, orders>>
---------------------------------------------------------------------------
(* Orders                                                                  *)

Ordered == orders < MaxOrders /\ orders' = orders + 1

\* POST /api/policy/command, and a spoken rule, which then settles the
\* question that is open when its confirmation is spoken (ForceReset)
Order(k, d) ==
    /\ Ordered
    /\ memory' = Upserted(memory, k, d)
    /\ mixed' = mixed \cup {k} /\ erased' = erased \ {k}
    /\ UNCHANGED <<pooling, hand, session, pending, log, trail>>

\* DELETE /api/policy/{fruit_type}/{condition}
DeletePolicy(k) ==
    /\ memory[k] # NoPolicy
    /\ Ordered
    /\ memory' = [memory EXCEPT ![k] = NoPolicy]
    /\ mixed' = mixed \cup {k} /\ erased' = erased \cup {k}
    /\ UNCHANGED <<pooling, hand, session, pending, log, trail>>

\* DELETE /api/policy
ResetAllPolicies ==
    /\ Ordered
    /\ memory' = [k \in Key |-> NoPolicy]
    /\ mixed' = Key /\ erased' = {k \in Key : memory[k] # NoPolicy} \cup erased
    /\ UNCHANGED <<pooling, hand, session, pending, log, trail>>

\* The backend is started again: the table and the log are there, what was
\* open is forgotten
Restart ==
    /\ Ordered
    /\ memory' = Filled(memory)
    /\ erased' = IF memory' = memory THEN erased
                 ELSE {k \in erased : memory'[k] = NoPolicy}
    /\ mixed'  = IF memory' = memory THEN mixed ELSE Key
    /\ hand' = NoHand /\ session' = NoSession /\ pending' = <<>>
    /\ UNCHANGED <<pooling, log, trail>>
---------------------------------------------------------------------------
Next ==
    \/ \E v \in Sights : Decide(v) \/ BeginIdentify(v)
    \/ Identified
    \/ Wait \/ Postpone
    \/ \E d \in Box : Answer(d)
    \/ \E d \in Forced : ForceReset(d)
    \/ \E r \in Rules : Order(r[1], r[2])
    \/ \E k \in Key : DeletePolicy(k)
    \/ ResetAllPolicies \/ Restart

Spec == Init /\ [][Next]_vars
---------------------------------------------------------------------------
(* replay_session.py: what the dynamic gate would have learned, from the    *)
(* decisions in the log and the labels that were written into their rows    *)
(* by hand                                                                 *)

Label == {"normal", "ugly", "processing", "rotten", "moldy"}

\* CORRECT_DESTINATION_FOR_LABEL, "none" for what is not in it
Correct(label) ==
    CASE label = "normal"              -> "normal_box"
      [] label = "ugly"                -> "ugly_box"
      [] label = "processing"          -> "processing_box"
      [] label \in {"rotten", "moldy"} -> "discard_box"
      [] OTHER                         -> "none"

\* _apply_outcome on the policy of the row's key: a question is taken to be
\* answered as the label says, one without a label teaches nothing
ReplayStep_Slip(p, row, d) ==
    IF ~ShouldQueryHuman(row.key[2], p, row.n, row.tau) \/ d = "none" THEN p
    ELSE IF p = NoPolicy THEN [dest |-> d, alpha |-> 1, beta |-> 1, unit |-> 1, source |-> "replay"]
    ELSE ApplyFeedback(p, d)
ReplayStep(p, row, d) ==
    IF ~ShouldQueryHuman(row.key[2], p, row.n, row.tau) \/ d = "none" THEN p
    ELSE ApplyFeedback(IF p = NoPolicy
                       THEN [dest |-> d, alpha |-> 1, beta |-> 1, unit |-> 1, source |-> "replay"]
                       ELSE p, d)

\* replay: one row after the other; only its own rows change a key's policy.
\* box says which box a row's label stands for.
Simulated(rows, k, box) ==
    LET state[i \in 0..Len(rows)] ==
          IF i = 0 THEN NoPolicy
          ELSE IF rows[i].key = k THEN ReplayStep(state[i - 1], rows[i], box[i])
          ELSE state[i - 1]
    IN state[Len(rows)]

Replayed(k, label) == Simulated(log, k, [i \in DOMAIN label |-> Correct(label[i])])
---------------------------------------------------------------------------
(* Properties                                                              *)

Destination == Boxes \cup {"ask_human"}
Policy == [dest : Destination, alpha : Nat \ {0}, beta : Nat \ {0}, unit : Nat \ {0},
           source : {"llm_policy", "human_feedback"}]
ThetaType == [alpha : Nat, beta : Nat, unit : Nat \ {0}]
Session == [key : Key, row : Nat \ {0}, held : Nat]

TypeOK ==
    /\ memory \in [Key -> Policy \cup {NoPolicy}] /\ pooling \in BOOLEAN
    /\ hand \in [busy : BOOLEAN, n : Nat, tau : Nat]
    /\ session \in Session \cup {NoSession} /\ pending \in Seq(Session)
    /\ log \in Seq([key : Key, seen : Key, n : Nat, tau : Nat,
                    dest : Boxes \cup {"none"}, answer : Boxes \cup {"none"}])
    /\ trail \in Seq([branch : {"prior_initialized", "human_resolved"}, key : Key,
                      before : ThetaType, after : ThetaType])
    /\ mixed \subseteq Key /\ erased \subseteq Key /\ orders \in 0..MaxOrders

(* The answers may speak against a policy only as long as its destination  *)
(* is not replaced: nothing that is stored is ever believed less than two  *)
(* fifths, not even what is pooled from other fruits                       *)
(* (bayesian_policy.py:305).                                               *)
Balanced == \A k \in Key : memory[k] # NoPolicy => 2 * memory[k].beta <= 3 * memory[k].alpha

(* No question waits behind another and none is opened while an object is  *)
(* being identified (main.py:207): the backlog the gate weighs is empty    *)
(* whenever it is asked.                                                   *)
NoBacklog == pending = <<>> /\ (hand # NoHand => session = NoSession /\ hand.n = 0)

(* Every answer of the operator is in the log with the counts it found and *)
(* the counts it left: the rows of a key that learned from them alone      *)
(* begin with the prior it started from, each goes on where the one before *)
(* stopped, and the last says what is stored, pooled priors or not         *)
(* (hitl_state_machine.py:474, bayesian_policy.py:234).                    *)
AuditTrail ==
    \A k \in Key \ mixed :
        LET rows == {i \in DOMAIN trail : trail[i].key = k}
        IN /\ rows = {} => memory[k] = NoPolicy
           /\ \A i \in rows :
                /\ (\A j \in rows : j <= i) => /\ memory[k] # NoPolicy
                                               /\ trail[i].after = Counts(memory[k])
                /\ \/ /\ \A j \in rows : i <= j
                      /\ trail[i].branch = "prior_initialized"
                   \/ \E j \in rows : /\ j < i /\ \A l \in rows : l <= j \/ i <= l
                                      /\ trail[i].branch = "human_resolved"
                                      /\ trail[i].before = trail[j].after

\* Labels for the decisions about k: what the operator answered, in the
\* words of the table, and none where nothing was answered
Labelings(k) ==
    {label \in [{i \in DOMAIN log : log[i].key = k} -> Label \cup {"none"}] :
        \A i \in DOMAIN label : Correct(label[i]) = log[i].answer}

(* Where the questions are labelled with what the operator answered, the   *)
(* replay of the log comes to the policy and the counts that are stored,   *)
(* for every key that learned from answers alone, unless priors are pooled *)
(* (replay_session.py:28, bayesian_policy.py:285).                         *)
ReplayReproduces ==
    ~pooling => \A k \in Key \ mixed : \A label \in Labelings(k) :
        /\ Replayed(k, label).dest = memory[k].dest
        /\ Counts(Replayed(k, label)) = Counts(memory[k])

(* A policy that answers have confirmed to nine tenths is executed without *)
(* a question when its condition is seen clearly (bayesian_policy.py:17).  *)
LearnedIsExecuted ==
    [][\A v \in Sights :
         LET p == memory[<<v.name, Head(Candidates(v))>>]
         IN Decide(v) /\ v.sure /\ p.source = "human_feedback" /\ p.alpha >= 9 * p.beta
              => log'[Len(log')].dest # "none"]_vars

(* A condition whose policy was deleted is asked about the next time it is *)
(* seen (bayesian_policy.py:121).                                          *)
ErasedIsAsked ==
    [][Len(log') > Len(log) /\ log'[Len(log')].seen \in erased
         => log'[Len(log')].dest = "none"]_vars
=============================================================================
