------------------------- MODULE PolicyMemoryProofs -------------------------
(* What holds of PolicyMemory for any names, detections, rules, defaults   *)
(* and weights of the gate, for any number of decisions and orders, with   *)
(* pooled priors and without.                                              *)
(*                                                                         *)
(* First the backlog (Backlog): nothing is decided while a question is     *)
(* open, so the gate is always asked with n = 0 and tau = 0.  Then the     *)
(* counts: every policy has positive ones.  With n = tau = 0 a positive    *)
(* beta is enough to ask, so only orders are executed.  Then the trail,    *)
(* which is inductive as it stands.  Last the replay: an open question is  *)
(* the last row of the log (Asked), so that what an answer does to the     *)
(* table a label that says so does to the simulation (Agrees).             *)
EXTENDS PolicyMemory, RecursionProofs, SequenceTheorems, TLAPS

Backlog ==
    /\ pending = <<>>
    /\ hand # NoHand => session = NoSession /\ hand.n = 0 /\ hand.tau = 0

LEMMA InitBacklog == Init => Backlog
BY DEF Init, Backlog

(* The end of a session leaves none behind it. *)
LEMMA AdvanceEmpties ==
    ASSUME pending = <<>>, Advance
    PROVE  session' = NoSession /\ pending' = <<>>
BY DEF Advance

LEMMA AskStartsNow ==
    ASSUME session = NoSession, NEW key, NEW row, AskHuman(key, row)
    PROVE  pending' = pending
BY DEF AskHuman

LEMMA Stage3AsksNow ==
    ASSUME session = NoSession, NEW name, NEW c, NEW seen, NEW n, NEW tau,
           Stage3(name, c, seen, n, tau)
    PROVE  pending' = pending
BY AskStartsNow DEF Stage3

LEMMA NowIsNothing ==
    ASSUME pending = <<>>, session = NoSession
    PROVE  CongestionN = 0 /\ CongestionTau = 0
BY DEF CongestionN, CongestionTau, NoSession

LEMMA StepBacklog == Backlog /\ [Next]_vars => Backlog'
<1> SUFFICES ASSUME Backlog, [Next]_vars PROVE Backlog'
    OBVIOUS
<1> USE DEF Backlog
<1>1. CASE UNCHANGED vars
    BY <1>1 DEF vars
<1>2. ASSUME NEW v \in Sights, Decide(v) PROVE Backlog'
    <2>1. session = NoSession /\ hand' = NoHand
        BY <1>2 DEF Decide, Free
    <2>2. \/ \E key, row : AskHuman(key, row)
          \/ \E name, c, seen, n, tau : Stage3(name, c, seen, n, tau)
        BY <1>2 DEF Decide
    <2> QED
        BY <2>1, <2>2, AskStartsNow, Stage3AsksNow
<1>3. ASSUME NEW v \in Sights, BeginIdentify(v) PROVE Backlog'
    <2>1. session = NoSession /\ UNCHANGED <<session, pending>>
        BY <1>3 DEF BeginIdentify, Free
    <2>2. hand' = [busy |-> TRUE, n |-> 0, tau |-> 0]
        BY <1>3, <2>1, NowIsNothing DEF BeginIdentify
    <2> QED
        BY <2>1, <2>2
<1>4. CASE Identified
    <2>1. hand # NoHand /\ hand' = NoHand
        BY <1>4 DEF Identified
    <2>2. \E name, c, seen, n, tau : Stage3(name, c, seen, n, tau)
        BY <1>4 DEF Identified
    <2> QED
        BY <2>1, <2>2, Stage3AsksNow
<1>5. CASE Wait
    BY <1>5 DEF Wait
<1>6. CASE Postpone
    BY <1>6, AdvanceEmpties DEF Postpone
<1>7. ASSUME NEW d \in Box, Answer(d) PROVE Backlog'
    BY <1>7, AdvanceEmpties DEF Answer
<1>8. ASSUME NEW d \in Forced, ForceReset(d) PROVE Backlog'
    BY <1>8, AdvanceEmpties DEF ForceReset
<1>9. ASSUME NEW r \in Rules, Order(r[1], r[2]) PROVE Backlog'
    BY <1>9 DEF Order
<1>10. ASSUME NEW k \in Key, DeletePolicy(k) PROVE Backlog'
    BY <1>10 DEF DeletePolicy
<1>11. CASE ResetAllPolicies
    BY <1>11 DEF ResetAllPolicies
<1>12. CASE Restart
    BY <1>12 DEF Restart
<1> QED
    BY <1>1, <1>2, <1>3, <1>4, <1>5, <1>6, <1>7, <1>8, <1>9, <1>10, <1>11, <1>12 DEF Next

LEMMA AlwaysBacklog == Spec => []Backlog
BY InitBacklog, StepBacklog, PTL DEF Spec

(* No question waits behind another and none is opened while an object is  *)
(* being identified: the gate always weighs an empty backlog               *)
(* (main.py:207, decision_planner.py:265).                                 *)
THEOREM NeverBacklog == Spec => []NoBacklog
<1>1. Backlog => NoBacklog
    BY DEF Backlog, NoBacklog
<1> QED
    BY <1>1, AlwaysBacklog, PTL
---------------------------------------------------------------------------
(* The gate                                                                *)

(* Without a backlog any doubt is enough to ask. *)
LEMMA DoubtAsks ==
    ASSUME NEW c \in Condition, NEW p \in Policy, ~ShouldQueryHuman(c, p, 0, 0)
    PROVE  p.source = "llm_policy" /\ p.dest \in Boxes
<1> DEFINE L == Loss[c][p.dest]
<1>1. p.dest \in Boxes
    BY DEF ShouldQueryHuman, Policy, Destination
<1>2. L \in Nat /\ L > 0 /\ K1 \in Nat /\ K2 \in Nat
    BY <1>1, PolicyAssumption
<1> HIDE DEF L
<1>3. ~(Doubt(p) * L * 6 > 0)
    <2>1. ~EvpiExceedsCost(c, p, 0, 0)
        BY DEF ShouldQueryHuman
    <2>2. p.alpha + p.beta \in Nat
        BY DEF Policy
    <2>3. (K1 * 0 + K2 * 0 * (RampCapacity - 0)) * (p.alpha + p.beta) = 0
        BY <1>2, <2>2 DEF RampCapacity
    <2>4. Doubt(p) * L * (RampCapacity - 0) = Doubt(p) * L * 6
        BY DEF RampCapacity
    <2> QED
        BY <2>1, <2>3, <2>4 DEF EvpiExceedsCost, RampCapacity, L
<1>4. CASE p.source # "llm_policy"
    <2>1. Doubt(p) = p.beta /\ p.beta \in Nat /\ p.beta > 0
        BY <1>4 DEF Doubt, Policy
    <2>2. \A x, y \in Nat : x > 0 /\ y > 0 => x * y * 6 > 0
        OBVIOUS
    <2> QED
        BY <2>1, <2>2, <1>2, <1>3
<1> QED
    BY <1>1, <1>4 DEF Policy
---------------------------------------------------------------------------
(* The policies                                                            *)

Memory == [Key -> Policy \cup {NoPolicy}]

LEMMA NoPolicyIsNone ==
    /\ NoPolicy \notin Policy
    /\ NoPolicy.source = "none"
BY DEF NoPolicy, Policy

(* A rule gives its key a destination and changes no other. *)
LEMMA UpsertedIs ==
    ASSUME NEW m \in Memory, NEW k \in Key, NEW d \in Destination
    PROVE  /\ Upserted(m, k, d) \in Memory
           /\ Upserted(m, k, d)[k] \in Policy
           /\ Upserted(m, k, d)[k].dest = d
           /\ Upserted(m, k, d)[k].source = "llm_policy"
           /\ (m[k] \in Policy => 2 * m[k].beta <= 3 * m[k].alpha)
                => 2 * Upserted(m, k, d)[k].beta <= 3 * Upserted(m, k, d)[k].alpha
           /\ \A l \in Key \ {k} : Upserted(m, k, d)[l] = m[l]
<1> DEFINE new == [dest |-> d, alpha |-> 1, beta |-> 1, unit |-> 1, source |-> "llm_policy"]
           old == [m[k] EXCEPT !.dest = d, !.source = "llm_policy"]
           p   == IF m[k] = NoPolicy THEN new ELSE old
<1>1. Upserted(m, k, d) = [m EXCEPT ![k] = p]
    BY DEF Upserted, Memory
<1>2. new \in Policy
    BY DEF Policy
<1>3. ASSUME m[k] \in Policy
      PROVE  /\ old \in Policy /\ old.dest = d /\ old.source = "llm_policy"
             /\ old.alpha = m[k].alpha /\ old.beta = m[k].beta
    <2> DEFINE q == [m[k] EXCEPT !.dest = d]
    <2>1. q \in Policy /\ q.dest = d /\ q.alpha = m[k].alpha /\ q.beta = m[k].beta
        BY <1>3 DEF Policy
    <2>2. old = [q EXCEPT !.source = "llm_policy"]
        OBVIOUS
    <2> HIDE DEF q, old
    <2>3. /\ old \in Policy /\ old.dest = q.dest /\ old.source = "llm_policy"
          /\ old.alpha = q.alpha /\ old.beta = q.beta
        BY <2>1, <2>2 DEF Policy
    <2> QED
        BY <2>1, <2>3
<1>4. /\ p \in Policy /\ p.dest = d /\ p.source = "llm_policy"
      /\ (m[k] \in Policy => 2 * m[k].beta <= 3 * m[k].alpha) => 2 * p.beta <= 3 * p.alpha
    <2>1. CASE m[k] = NoPolicy
        BY <2>1, <1>2
    <2>2. CASE m[k] # NoPolicy
        <3>1. m[k] \in Policy /\ p = old
            BY <2>2 DEF Memory
        <3> HIDE DEF old, p
        <3> QED
            BY <3>1, <1>3
    <2> QED
        BY <2>1, <2>2
<1> HIDE DEF p
<1>5. p \in Policy \cup {NoPolicy}
    BY <1>4
<1>6. Upserted(m, k, d)[k] = p /\ Upserted(m, k, d) \in Memory
      /\ \A l \in Key \ {k} : Upserted(m, k, d)[l] = m[l]
    BY <1>1, <1>5 DEF Memory
<1> QED
    BY <1>4, <1>6

(* Only an empty table is filled, with what the defaults say. *)
LEMMA FilledIs ==
    ASSUME NEW m \in Memory
    PROVE  /\ Filled(m) \in Memory
           /\ \/ Filled(m) = m
              \/ \A k \in Key :
                    \/ Filled(m)[k] = NoPolicy /\ Defaults[k] = "none"
                    \/ /\ Filled(m)[k] \in Policy
                       /\ Filled(m)[k].source = "llm_policy"
                       /\ Filled(m)[k].dest = Defaults[k]
                       /\ 2 * Filled(m)[k].beta <= 3 * Filled(m)[k].alpha
<1>1. CASE \E k \in Key : m[k] # NoPolicy
    BY <1>1 DEF Filled
<1>2. CASE ~\E k \in Key : m[k] # NoPolicy
    <2> DEFINE f == [k \in Key |-> IF Defaults[k] = "none" THEN NoPolicy
                                   ELSE Upserted(m, k, Defaults[k])[k]]
    <2>1. Filled(m) = f
        BY <1>2 DEF Filled
    <2>2. ASSUME NEW k \in Key, Defaults[k] # "none"
          PROVE  f[k] = [dest |-> Defaults[k], alpha |-> 1, beta |-> 1, unit |-> 1,
                         source |-> "llm_policy"]
        BY <1>2, <2>2 DEF Upserted, Memory
    <2>3. ASSUME NEW k \in Key, Defaults[k] # "none"
          PROVE  f[k] \in Policy /\ f[k].source = "llm_policy" /\ f[k].dest = Defaults[k]
                 /\ 2 * f[k].beta <= 3 * f[k].alpha
        <3>1. Defaults[k] \in Destination
            BY <2>3, PolicyAssumption DEF Destination
        <3>2. [dest |-> Defaults[k], alpha |-> 1, beta |-> 1, unit |-> 1,
               source |-> "llm_policy"] \in Policy
            BY <3>1 DEF Policy
        <3> HIDE DEF f
        <3> QED
            BY <2>2, <2>3, <3>2
    <2> QED
        BY <2>1, <2>3 DEF Memory
<1> QED
    BY <1>1, <1>2

(* An answer keeps the counts positive and the policy believable. *)
LEMMA FeedbackIs ==
    ASSUME NEW p \in Policy, NEW d \in Destination
    PROVE  /\ ApplyFeedback(p, d) \in Policy
           /\ 2 * p.beta <= 3 * p.alpha
                => 2 * ApplyFeedback(p, d).beta <= 3 * ApplyFeedback(p, d).alpha
<1> DEFINE yes   == [p EXCEPT !.alpha = @ + p.unit, !.dest = d]
           over  == [dest |-> d, alpha |-> 2, beta |-> 1, unit |-> 1, source |-> p.source]
           no    == [p EXCEPT !.beta = @ + p.unit]
<1>1. p.alpha \in Nat \ {0} /\ p.beta \in Nat \ {0} /\ p.unit \in Nat \ {0}
    BY DEF Policy
<1>2. yes \in Policy /\ yes.alpha = p.alpha + p.unit /\ yes.beta = p.beta
    <2> DEFINE q == [p EXCEPT !.alpha = @ + p.unit]
    <2>1. q \in Policy /\ q.alpha = p.alpha + p.unit /\ q.beta = p.beta
        BY <1>1 DEF Policy
    <2>2. yes = [q EXCEPT !.dest = d]
        OBVIOUS
    <2> HIDE DEF q, yes
    <2>3. yes \in Policy /\ yes.alpha = q.alpha /\ yes.beta = q.beta
        BY <2>1, <2>2 DEF Policy
    <2> QED
        BY <2>1, <2>3
<1>3. over \in Policy /\ over.alpha = 2 /\ over.beta = 1
    BY DEF Policy
<1>4. no \in Policy /\ no.alpha = p.alpha /\ no.beta = p.beta + p.unit
    BY DEF Policy
<1>5. \/ ApplyFeedback(p, d) = yes
      \/ ApplyFeedback(p, d) = over
      \/ ApplyFeedback(p, d) = no /\ ~(2 * (p.beta + p.unit) > 3 * p.alpha)
    BY DEF ApplyFeedback
<1> HIDE DEF yes, over, no
<1> QED
    BY <1>1, <1>2, <1>3, <1>4, <1>5

---------------------------------------------------------------------------
(* The pooled prior                                                        *)

Mean == [num : Nat, den : Nat \ {0}]

(* One more confidence, p.alpha over p.alpha + p.beta, is added to a sum *)
Added(p, sum) == [num |-> sum.num * (p.alpha + p.beta) + p.alpha * sum.den,
                  den |-> sum.den * (p.alpha + p.beta)]

LEMMA Times ==
    ASSUME NEW x \in Nat, NEW y \in Nat, NEW z \in Nat, x <= y
    PROVE  x * z <= y * z /\ x * z \in Nat /\ y * z \in Nat
OBVIOUS

LEMMA TimesLess ==
    ASSUME NEW x \in Nat, NEW y \in Nat, NEW z \in Nat \ {0}, x < y
    PROVE  x * z < y * z
OBVIOUS

(* A sum of n confidences, each at least two fifths and less than one      *)
Fair(sum, n) ==
    /\ sum \in Mean
    /\ 2 * (sum.den * n) <= 5 * sum.num
    /\ n # 0 => 0 < sum.num /\ sum.num < sum.den * n
    /\ n = 0 => sum.num = 0

(* One more *)
LEMMA AddedIs ==
    ASSUME NEW p \in Policy, 2 * p.beta <= 3 * p.alpha, NEW sum, NEW n \in Nat, Fair(sum, n)
    PROVE  Fair(Added(p, sum), n + 1)
<1> DEFINE a == p.alpha
           t == p.alpha + p.beta
           u == sum.num
           v == sum.den
<1>1. a \in Nat \ {0} /\ t \in Nat \ {0} /\ a < t /\ 2 * t <= 5 * a
    BY DEF Policy
<1>2. /\ u \in Nat /\ v \in Nat \ {0} /\ 2 * (v * n) <= 5 * u
      /\ (n # 0 => 0 < u /\ u < v * n) /\ (n = 0 => u = 0)
    BY DEF Fair, Mean
<1>3. Added(p, sum) = [num |-> u * t + a * v, den |-> v * t]
    BY DEF Added
<1> HIDE DEF a, t, u, v
<1>4. /\ u * t \in Nat /\ a * v \in Nat \ {0} /\ v * t \in Nat \ {0}
      /\ v * n \in Nat /\ (v * n) * t \in Nat
    BY <1>1, <1>2
<1>5. (v * t) * (n + 1) = (v * n) * t + v * t
    BY <1>1, <1>2
<1>6. 2 * ((v * n) * t) <= 5 * (u * t)
    <2>1. (2 * (v * n)) * t <= (5 * u) * t
        BY <1>1, <1>2, <1>4, Times
    <2>2. (2 * (v * n)) * t = 2 * ((v * n) * t) /\ (5 * u) * t = 5 * (u * t)
        BY <1>1, <1>2, <1>4
    <2> QED
        BY <2>1, <2>2
<1>7. 2 * (v * t) <= 5 * (a * v)
    <2>1. (2 * t) * v <= (5 * a) * v
        BY <1>1, <1>2, Times
    <2>2. (2 * t) * v = 2 * (v * t) /\ (5 * a) * v = 5 * (a * v)
        BY <1>1, <1>2
    <2> QED
        BY <2>1, <2>2
<1>8. a * v < v * t
    <2>1. a * v < t * v /\ t * v = v * t
        BY <1>1, <1>2, TimesLess
    <2> QED
        BY <2>1
<1>9. u * t <= (v * n) * t
    <2>1. u <= v * n
        BY <1>2, <1>4
    <2> QED
        BY <2>1, <1>1, <1>2, <1>4, Times
<1>10. 2 * ((v * t) * (n + 1)) <= 5 * (u * t + a * v)
    BY <1>4, <1>5, <1>6, <1>7
<1>11. 0 < u * t + a * v /\ u * t + a * v < (v * t) * (n + 1)
    BY <1>4, <1>5, <1>8, <1>9
<1>12. u * t + a * v \in Nat
    BY <1>4
<1> QED
    BY <1>3, <1>4, <1>10, <1>11, <1>12 DEF Fair, Mean

Zero == [num |-> 0, den |-> 1]

(* The sum over a set, as it recurs *)
Sums(F, m, P) ==
    F = [T \in SUBSET P |-> IF T = {} THEN Zero
                            ELSE Added(m[Chosen(T)], F[T \ {Chosen(T)}])]

(* There is such a function *)
LEMMA SumsExist ==
    ASSUME NEW m, NEW P, IsFiniteSet(P), \A l \in P : m[l] \in Policy
    PROVE  \E F : Sums(F, m, P)
<1> DEFINE step == [x \in P \X Mean |-> Added(m[x[1]], x[2])]
<1>1. Zero \in Mean
    BY DEF Zero, Mean
<1>2. step \in [P \X Mean -> Mean]
    <2> SUFFICES ASSUME NEW l \in P, NEW sum \in Mean PROVE Added(m[l], sum) \in Mean
        OBVIOUS
    <2>1. m[l].alpha \in Nat \ {0} /\ m[l].beta \in Nat \ {0}
        BY DEF Policy
    <2> QED
        BY <2>1 DEF Added, Mean
<1> HIDE DEF step
<1>3. PICK F : SetRec(F, P, Mean, Zero, step)
    BY <1>1, <1>2, SetRecExists
<1>4. \A T \in SUBSET P : T # {} => F[T] = Added(m[Chosen(T)], F[T \ {Chosen(T)}])
    <2> TAKE T \in SUBSET P
    <2> HAVE T # {}
    <2>1. Chosen(T) \in P
        BY ChosenIn
    <2>2. F[T] = step[<<Chosen(T), F[T \ {Chosen(T)}]>>] /\ F[T \ {Chosen(T)}] \in Mean
        BY <1>3 DEF SetRec
    <2> QED
        BY <2>1, <2>2 DEF step
<1>5. F \in [SUBSET P -> Mean] /\ F[{}] = Zero
    BY <1>3 DEF SetRec
<1>6. Sums(F, m, P)
    BY <1>4, <1>5 DEF Sums
<1> QED
    BY <1>6

(* A set without one of its elements *)
LEMMA OneLess ==
    ASSUME NEW T, IsFiniteSet(T), NEW l \in T
    PROVE  Cardinality(T \ {l}) \in Nat /\ Cardinality(T) = Cardinality(T \ {l}) + 1
<1>1. IsFiniteSet(T \ {l}) /\ Cardinality(T \ {l}) = Cardinality(T) - 1
    BY FS_RemoveElement
<1> QED
    BY <1>1, FS_CardinalityType

(* and its sums are fair, by the least set whose sum is not *)
LEMMA SumsAreFair ==
    ASSUME NEW m, NEW P, IsFiniteSet(P), NEW F, Sums(F, m, P),
           \A l \in P : m[l] \in Policy /\ 2 * m[l].beta <= 3 * m[l].alpha
    PROVE  Fair(F[P], Cardinality(P))
<1> DEFINE C == {T \in SUBSET P : ~Fair(F[T], Cardinality(T))}
<1>1. SUFFICES ASSUME C # {} PROVE FALSE
    OBVIOUS
<1>2. C \subseteq SUBSET P
    OBVIOUS
<1>3. PICK T \in C : \A U \in C : U \subseteq T => U = T
    <2> HIDE DEF C
    <2> QED
        BY <1>1, <1>2, LeastSet
<1>4. CASE T = {}
    <2>1. F[T] = Zero /\ Cardinality(T) = 0
        BY <1>4, FS_EmptySet DEF Sums
    <2> QED
        BY <2>1 DEF Fair, Zero, Mean
<1>5. CASE T # {}
    <2> DEFINE l == Chosen(T)
               U == T \ {l}
    <2>1. l \in T /\ l \in P /\ U \in SUBSET P /\ U # T
        BY <1>5, ChosenIn
    <2>2. Fair(F[U], Cardinality(U))
        BY <1>3, <2>1
    <2>3. Cardinality(U) \in Nat /\ Cardinality(T) = Cardinality(U) + 1
        <3>1. IsFiniteSet(T)
            BY FS_Subset
        <3> HIDE DEF l, C
        <3> QED
            BY <3>1, <2>1, OneLess DEF U
    <2>4. F[T] = Added(m[l], F[U])
        BY <1>5 DEF Sums
    <2> HIDE DEF l, U
    <2>5. Fair(F[T], Cardinality(T))
        BY <2>1, <2>2, <2>3, <2>4, AddedIs
    <2> QED
        BY <2>5
<1> QED
    BY <1>4, <1>5

(* The fold the model uses, which is that function's value *)
Total(m, P) == FoldSet(LAMBDA l, sum : Added(m[l], sum), Zero, P)

LEMMA TotalIs ==
    ASSUME NEW m, NEW P
    PROVE  Total(m, P) = (CHOOSE F : Sums(F, m, P))[P]
BY Zenon DEF Total, FoldSet, MapThenFoldSet, Sums, Chosen

LEMMA PooledIs ==
    ASSUME NEW m, NEW k
    PROVE  PooledMean(m, k) = [Total(m, Pool(m, k)) EXCEPT !.den = @ * Cardinality(Pool(m, k))]
BY Zenon DEF PooledMean, Total, FoldSet, MapThenFoldSet, Added, Zero

(* The prior of a new key has positive counts and is believable, also when *)
(* it is pooled from other fruits *)
LEMMA PriorIs ==
    ASSUME NEW m \in Memory, NEW k \in Key,
           \A l \in Key : m[l] # NoPolicy => 2 * m[l].beta <= 3 * m[l].alpha
    PROVE  /\ Prior(m, k).alpha \in Nat \ {0} /\ Prior(m, k).beta \in Nat \ {0}
           /\ Prior(m, k).unit \in Nat \ {0}
           /\ 2 * Prior(m, k).beta <= 3 * Prior(m, k).alpha
<1> DEFINE P == Pool(m, k)
           n == Cardinality(P)
           t == Total(m, P)
<1>1. CASE ~pooling \/ P = {}
    BY <1>1 DEF Prior
<1>2. CASE pooling /\ P # {}
    <2>1. P \subseteq Key /\ \A l \in P : m[l] \in Policy /\ 2 * m[l].beta <= 3 * m[l].alpha
        BY NoPolicyIsNone DEF Pool, Memory
    <2>2. IsFiniteSet(P)
        <3>1. IsFiniteSet(Condition)
            <4>1. Condition = {"normal"} \cup {"mold"} \cup {"bruise"} \cup {"scratch"}
                                \cup {"small"} \cup {"unknown"}
                BY DEF Condition
            <4> QED
                BY <4>1, FS_Singleton, FS_Union
        <3>2. IsFiniteSet(Key)
            BY <3>1, PolicyAssumption, FS_Product DEF Key
        <3> QED
            BY <2>1, <3>2, FS_Subset
    <2>3. n \in Nat /\ n # 0
        BY <1>2, <2>2, FS_CardinalityType, FS_EmptySet
    <2>4. Fair(t, n)
        <3> HIDE DEF P
        <3>1. Sums(CHOOSE F : Sums(F, m, P), m, P)
            BY <2>1, <2>2, SumsExist
        <3> QED
            BY <2>1, <2>2, <3>1, SumsAreFair, TotalIs
    <2>5. PooledMean(m, k) = [t EXCEPT !.den = @ * n]
        BY PooledIs
    <2> HIDE DEF n, t
    <2>6. PooledMean(m, k).num = t.num /\ PooledMean(m, k).den = t.den * n
        BY <2>4, <2>5 DEF Fair, Mean
    <2>7. /\ Prior(m, k).alpha = PseudoCount * t.num
          /\ Prior(m, k).beta = PseudoCount * (t.den * n - t.num)
          /\ Prior(m, k).unit = t.den * n
        BY <1>2, <2>6 DEF Prior
    <2> DEFINE num == t.num
               den == t.den * n
    <2>8. num \in Nat \ {0} /\ den \in Nat \ {0} /\ num < den /\ 2 * den <= 5 * num
        <3>1. \A x \in Nat \ {0} : x * n \in Nat \ {0}
            BY <2>3
        <3> QED
            BY <2>3, <2>4, <3>1 DEF Fair, Mean
    <2> HIDE DEF num, den
    <2>9. PseudoCount \in Nat \ {0}
        BY PolicyAssumption
    <2>10. PseudoCount * num \in Nat \ {0} /\ PseudoCount * (den - num) \in Nat \ {0}
        BY <2>8, <2>9
    <2>11. 2 * (PseudoCount * (den - num)) <= 3 * (PseudoCount * num)
        <3>1. (2 * (den - num)) * PseudoCount <= (3 * num) * PseudoCount
            BY <2>8, <2>9, Times
        <3>2. /\ (2 * (den - num)) * PseudoCount = 2 * (PseudoCount * (den - num))
              /\ (3 * num) * PseudoCount = 3 * (PseudoCount * num)
            BY <2>8, <2>9
        <3> QED
            BY <3>1, <3>2
    <2> QED
        BY <2>7, <2>8, <2>10, <2>11 DEF num, den
<1> QED
    BY <1>1, <1>2

(* An answer gives its key a policy from answers and changes no other. *)
LEMMA LearnedIs ==
    ASSUME NEW m \in Memory, NEW k \in Key, NEW d \in Destination,
           \A l \in Key : m[l] # NoPolicy => 2 * m[l].beta <= 3 * m[l].alpha
    PROVE  /\ Learned(m, k, d) \in Memory
           /\ Learned(m, k, d)[k] \in Policy
           /\ Learned(m, k, d)[k].source = "human_feedback"
           /\ 2 * Learned(m, k, d)[k].beta <= 3 * Learned(m, k, d)[k].alpha
           /\ \A l \in Key \ {k} : Learned(m, k, d)[l] = m[l]
<1> DEFINE t   == Theta(m, k)
           new == [dest |-> d, alpha |-> t.alpha + t.unit, beta |-> t.beta, unit |-> t.unit,
                   source |-> "human_feedback"]
           old == [ApplyFeedback(m[k], d) EXCEPT !.source = "human_feedback"]
           p   == IF m[k] = NoPolicy THEN new ELSE old
<1>1. Learned(m, k, d) = [m EXCEPT ![k] = p]
    BY DEF Learned, Memory
<1>2. ASSUME m[k] = NoPolicy PROVE new \in Policy /\ 2 * new.beta <= 3 * new.alpha
    <2>0. t = Prior(m, k)
        BY <1>2 DEF Theta
    <2>1. /\ t.alpha \in Nat \ {0} /\ t.beta \in Nat \ {0} /\ t.unit \in Nat \ {0}
          /\ 2 * t.beta <= 3 * t.alpha
        BY <2>0, PriorIs
    <2> HIDE DEF t
    <2> QED
        BY <2>1 DEF Policy
<1>3. ASSUME m[k] \in Policy
      PROVE  /\ old \in Policy /\ old.source = "human_feedback"
             /\ 2 * old.beta <= 3 * old.alpha
    <2>1. ApplyFeedback(m[k], d) \in Policy
        BY <1>3, FeedbackIs
    <2>2. old \in Policy /\ old.source = "human_feedback"
          /\ old.alpha = ApplyFeedback(m[k], d).alpha /\ old.beta = ApplyFeedback(m[k], d).beta
        BY <2>1 DEF Policy
    <2>3. 2 * ApplyFeedback(m[k], d).beta <= 3 * ApplyFeedback(m[k], d).alpha
        BY <1>3, NoPolicyIsNone, FeedbackIs
    <2> HIDE DEF old
    <2> QED
        BY <2>2, <2>3
<1> HIDE DEF new, old
<1>4. /\ p \in Policy /\ p.source = "human_feedback"
      /\ 2 * p.beta <= 3 * p.alpha
    BY <1>2, <1>3 DEF Memory, new
<1> HIDE DEF p
<1>5. p \in Policy \cup {NoPolicy}
    BY <1>4
<1>6. Learned(m, k, d)[k] = p /\ Learned(m, k, d) \in Memory
      /\ \A l \in Key \ {k} : Learned(m, k, d)[l] = m[l]
    BY <1>1, <1>5 DEF Memory
<1> QED
    BY <1>4, <1>6
---------------------------------------------------------------------------
(* The log                                                                 *)

Entry == [key : Key, seen : Key, n : Nat, tau : Nat, dest : Boxes \cup {"none"},
          answer : Boxes \cup {"none"}]

TrailRow == [branch : {"prior_initialized", "human_resolved"}, key : Key,
             before : ThetaType, after : ThetaType]

LEMMA AnswerKeepsLog ==
    ASSUME log \in Seq(Entry), NEW i, NEW d \in Boxes, log' = [log EXCEPT ![i].answer = d]
    PROVE  log' \in Seq(Entry) /\ Len(log') = Len(log)
<1>1. ASSUME NEW j \in DOMAIN log PROVE log'[j] \in Entry
    <2>1. log[j] \in Entry
        BY <1>1
    <2>2. log'[j] = IF j = i THEN [log[j] EXCEPT !.answer = d] ELSE log[j]
        BY <1>1
    <2>3. [log[j] EXCEPT !.answer = d] \in Entry
        BY <2>1 DEF Entry
    <2> QED
        BY <2>1, <2>2, <2>3
<1>2. log' \in [1..Len(log) -> Entry]
    <2>1. DOMAIN log = 1..Len(log) /\ Len(log) \in Nat
        OBVIOUS
    <2>2. log' = [j \in 1..Len(log) |-> log'[j]]
        BY <2>1
    <2> QED
        BY <1>1, <2>1, <2>2
<1> QED
    BY <1>2

LEMMA AppendIs ==
    ASSUME log \in Seq(Entry), NEW e \in Entry, log' = Append(log, e)
    PROVE  /\ log' \in Seq(Entry)
           /\ Len(log') = Len(log) + 1 /\ Len(log') \in Nat \ {0}
           /\ log'[Len(log')] = e
OBVIOUS
---------------------------------------------------------------------------
(* The planner                                                             *)

LEMMA CandidatesAre ==
    ASSUME NEW v \in Sight
    PROVE  Candidates(v) \in Seq(Condition) /\ Candidates(v) # <<>> /\ Len(Candidates(v)) <= 3
<1> DEFINE a == IF v.defect # "none" THEN <<v.defect>> ELSE <<>>
           b == IF v.small THEN <<"small">> ELSE <<>>
           c == <<"normal">>
<1>0. /\ \A x \in Condition : <<x>> \in Seq(Condition) /\ Len(<<x>>) = 1
      /\ <<>> \in Seq(Condition) /\ Len(<<>>) = 0
    OBVIOUS
<1>1. a \in Seq(Condition) /\ Len(a) <= 1
    <2>1. v.defect # "none" => v.defect \in Condition
        BY DEF Sight, Condition
    <2>2. CASE v.defect # "none"
        BY <1>0, <2>1, <2>2
    <2>3. CASE v.defect = "none"
        BY <1>0, <2>3
    <2> QED
        BY <2>2, <2>3
<1>2. b \in Seq(Condition) /\ Len(b) <= 1
    <2>1. "small" \in Condition
        BY DEF Condition
    <2>2. CASE v.small
        BY <1>0, <2>1, <2>2
    <2>3. CASE ~v.small
        BY <1>0, <2>3
    <2> QED
        BY <2>2, <2>3
<1>3. c \in Seq(Condition) /\ Len(c) = 1
    BY DEF Condition
<1>4. Candidates(v) = IF v.unknown THEN <<"unknown">> ELSE a \o b \o c
    BY DEF Candidates
<1>5. <<"unknown">> \in Seq(Condition) /\ Len(<<"unknown">>) = 1
    BY DEF Condition
<1> HIDE DEF a, b, c
<1> DEFINE ab == a \o b
<1>6. ab \in Seq(Condition) /\ Len(ab) = Len(a) + Len(b)
    BY <1>1, <1>2
<1>7. a \o b \o c = ab \o c
    OBVIOUS
<1> HIDE DEF ab
<1>8. ab \o c \in Seq(Condition) /\ Len(ab \o c) = Len(ab) + Len(c)
    BY <1>3, <1>6, ConcatProperties
<1>9. ab \o c # <<>>
    BY <1>1, <1>2, <1>3, <1>6, <1>8
<1> QED
    BY <1>1, <1>2, <1>3, <1>4, <1>5, <1>6, <1>7, <1>8, <1>9

LEMMA MatchingIs ==
    ASSUME NEW name, NEW s \in Seq(Condition), s # <<>>, Len(s) <= 3
    PROVE  Matching(name, s) \in Condition
<1> DEFINE known == {i \in DOMAIN s : memory[<<name, s[i]>>] # NoPolicy}
<1>1. known \subseteq 1..3 /\ known \subseteq DOMAIN s
    OBVIOUS
<1>2. Matching(name, s) = IF known = {} THEN Head(s) ELSE s[Min(known)]
    BY DEF Matching
<1> HIDE DEF known
<1>3. CASE known # {}
    <2>1. \E x \in known : \A y \in known : x <= y
        <3>1. CASE 1 \in known
            BY <1>1, <3>1
        <3>2. CASE 1 \notin known /\ 2 \in known
            <4>1. \A y \in known : 2 <= y
                BY <1>1, <3>2
            <4> QED
                BY <3>2, <4>1
        <3>3. CASE 1 \notin known /\ 2 \notin known
            <4>1. \A y \in known : 3 <= y /\ y = 3
                BY <1>1, <3>3
            <4> QED
                BY <1>3, <4>1
        <3> QED
            BY <3>1, <3>2, <3>3
    <2>2. Min(known) \in known
        BY <2>1 DEF Min
    <2>3. Min(known) \in DOMAIN s
        BY <1>1, <2>2
    <2>4. s[Min(known)] \in Condition
        BY <2>3
    <2> QED
        BY <1>2, <1>3, <2>4
<1> QED
    BY <1>2, <1>3
---------------------------------------------------------------------------
(* The invariant                                                           *)

Kept == TypeOK /\ Backlog /\ Balanced

LEMMA InitKept == ASSUME Init PROVE Kept
<1> DEFINE m == [k \in Key |-> NoPolicy]
<1>1. m \in Memory /\ memory = Filled(m)
    BY DEF Memory, Init
<1>2. memory \in Memory
    BY <1>1, FilledIs
<1>3. \A k \in Key : memory[k] = NoPolicy \/ 2 * memory[k].beta <= 3 * memory[k].alpha
    BY <1>1, FilledIs
<1>4. pooling \in BOOLEAN
    BY PolicyAssumption DEF Init
<1>5. Balanced
    BY <1>3 DEF Balanced
<1>6. 0 \in 0..MaxOrders
    BY PolicyAssumption
<1>7. TypeOK
    <2>1. hand \in [busy : BOOLEAN, n : Nat, tau : Nat]
        BY DEF Init, NoHand
    <2>2. session \in Session \cup {NoSession} /\ pending \in Seq(Session)
        BY DEF Init
    <2>3. log \in Seq(Entry) /\ trail \in Seq(TrailRow)
        BY DEF Init
    <2>4. mixed \subseteq Key /\ erased \subseteq Key /\ orders \in 0..MaxOrders
        BY <1>6 DEF Init
    <2> QED
        BY <1>2, <1>4, <2>1, <2>2, <2>3, <2>4 DEF TypeOK, Memory, Entry, TrailRow
<1> QED
    BY <1>5, <1>7, InitBacklog DEF Kept

(* A question about a key is a row without destination and a session. *)
LEMMA AskedIs ==
    ASSUME TypeOK, session = NoSession, NEW key \in Key, NEW seen \in Key,
           log' = Append(log, Row(key, seen, 0, 0, "none")), AskHuman(key, Len(log'))
    PROVE  /\ log' \in Seq(Entry) /\ log'[Len(log')].dest = "none"
           /\ session' \in Session
<1>1. Row(key, seen, 0, 0, "none") \in Entry /\ Row(key, seen, 0, 0, "none").dest = "none"
    BY DEF Row, Entry
<1>2. log \in Seq(Entry)
    BY DEF TypeOK, Entry
<1>3. /\ log' \in Seq(Entry) /\ log'[Len(log')] = Row(key, seen, 0, 0, "none")
      /\ Len(log') \in Nat \ {0}
    BY <1>1, <1>2, AppendIs
<1>4. session' = [key |-> key, row |-> Len(log'), held |-> 0]
    BY DEF AskHuman
<1> QED
    BY <1>1, <1>3, <1>4 DEF Session

(* With no backlog only an order is executed. *)
LEMMA DecidedIs ==
    ASSUME Kept, session = NoSession, NEW name \in Name, NEW c \in Condition, NEW seen \in Key,
           Stage3(name, c, seen, 0, 0)
    PROVE  /\ log' \in Seq(Entry)
           /\ log'[Len(log')].dest # "none"
                => memory[log'[Len(log')].key].source = "llm_policy"
           /\ session' \in Session \cup {NoSession}
<1> DEFINE k == <<name, c>>
           p == memory[k]
<1>1. k \in Key /\ TypeOK
    BY DEF Key, Kept
<1>2. CASE ShouldQueryHuman(c, p, 0, 0)
    BY <1>1, <1>2, AskedIs DEF Stage3
<1>3. CASE ~ShouldQueryHuman(c, p, 0, 0)
    <2>1. log' = Append(log, Row(k, seen, 0, 0, p.dest)) /\ session' = session
        BY <1>3 DEF Stage3
    <2>2. p \in Policy
        BY <1>1, <1>3 DEF TypeOK, ShouldQueryHuman
    <2>3. p.source = "llm_policy" /\ p.dest \in Boxes
        BY <1>3, <2>2, DoubtAsks
    <2> HIDE DEF k
    <2>4. /\ Row(k, seen, 0, 0, p.dest) \in Entry
          /\ Row(k, seen, 0, 0, p.dest).dest = p.dest /\ Row(k, seen, 0, 0, p.dest).key = k
        BY <1>1, <2>3 DEF Row, Entry
    <2>5. log \in Seq(Entry)
        BY <1>1 DEF TypeOK, Entry
    <2>6. log' \in Seq(Entry) /\ log'[Len(log')] = Row(k, seen, 0, 0, p.dest)
        BY <2>1, <2>4, <2>5, AppendIs
    <2> QED
        BY <2>1, <2>3, <2>4, <2>6
<1> QED
    BY <1>2, <1>3
---------------------------------------------------------------------------
(* The steps                                                               *)

(* What is kept of the policies and the orders *)
PolicyPart ==
    /\ memory \in Memory /\ Balanced /\ pooling \in BOOLEAN
    /\ mixed \subseteq Key /\ erased \subseteq Key /\ orders \in 0..MaxOrders

(* and of the rest *)
WorkPart ==
    /\ log \in Seq(Entry) /\ trail \in Seq(TrailRow)
    /\ session \in Session \cup {NoSession}
    /\ hand \in [busy : BOOLEAN, n : Nat, tau : Nat]

LEMMA KeptIs == Kept <=> PolicyPart /\ WorkPart /\ Backlog
<1>1. Backlog => pending \in Seq(Session)
    BY DEF Backlog
<1> QED
    BY <1>1 DEF Kept, TypeOK, PolicyPart, WorkPart, Memory, Entry, TrailRow

LEMMA SamePolicies ==
    ASSUME PolicyPart, UNCHANGED <<memory, pooling, mixed, erased, orders>>
    PROVE  PolicyPart'
BY DEF PolicyPart, Balanced

LEMMA SameWork == ASSUME WorkPart, UNCHANGED <<log, trail, session, hand>> PROVE WorkPart'
BY DEF WorkPart

(* A destination is learned for the open question. *)
LEMMA AnsweredIs ==
    ASSUME PolicyPart, session \in Session, NEW d \in Destination,
           memory' = Learned(memory, session.key, d)
    PROVE  /\ session.key \in Key
           /\ memory' \in Memory /\ memory'[session.key] \in Policy
           /\ \A l \in Key \ {session.key} : memory'[l] = memory[l]
           /\ Balanced'
<1> DEFINE k == session.key
           n == Learned(memory, k, d)
<1>1. memory' = n /\ k \in Key /\ memory \in Memory
    BY DEF Session, PolicyPart
<1>2. \A l \in Key : memory[l] # NoPolicy => 2 * memory[l].beta <= 3 * memory[l].alpha
    BY DEF PolicyPart, Balanced
<1> HIDE DEF k
<1>3. /\ n \in Memory /\ n[k] \in Policy
      /\ 2 * n[k].beta <= 3 * n[k].alpha
      /\ \A l \in Key \ {k} : n[l] = memory[l]
    BY <1>1, <1>2, LearnedIs
<1> HIDE DEF n
<1> QED
    BY <1>1, <1>2, <1>3 DEF Balanced, k

LEMMA RestPolicies ==
    ASSUME PolicyPart, UNCHANGED pooling, orders' \in 0..MaxOrders,
           memory' \in Memory, Balanced', mixed' \subseteq Key, erased' \subseteq Key
    PROVE  PolicyPart'
BY DEF PolicyPart

LEMMA OrderedIs == ASSUME PolicyPart, Ordered PROVE orders' \in 0..MaxOrders
BY PolicyAssumption DEF Ordered, PolicyPart

LEMMA CountsAre ==
    ASSUME NEW p \in Policy \cup {NoPolicy}
    PROVE  Counts(p) \in ThetaType
BY DEF Counts, Policy, NoPolicy, ThetaType

LEMMA ThetaIs ==
    ASSUME PolicyPart, NEW k \in Key
    PROVE  Theta(memory, k) \in ThetaType /\ Prior(memory, k) \in ThetaType
<1>1. memory \in Memory /\ memory[k] \in Policy \cup {NoPolicy}
    BY DEF PolicyPart, Memory
<1>2. \A l \in Key : memory[l] # NoPolicy => 2 * memory[l].beta <= 3 * memory[l].alpha
    BY DEF PolicyPart, Balanced
<1>3. /\ Prior(memory, k).alpha \in Nat \ {0} /\ Prior(memory, k).beta \in Nat \ {0}
      /\ Prior(memory, k).unit \in Nat \ {0}
    BY <1>1, <1>2, PriorIs
<1>4. Prior(memory, k) = [alpha |-> Prior(memory, k).alpha, beta |-> Prior(memory, k).beta,
                          unit |-> Prior(memory, k).unit]
    BY DEF Prior
<1>5. Prior(memory, k) \in ThetaType
    BY <1>3, <1>4 DEF ThetaType
<1> QED
    BY <1>1, <1>5, CountsAre DEF Theta

(* The rows an answer leaves *)
LEMMA RowsAre ==
    ASSUME PolicyPart, NEW k \in Key, memory' \in Memory
    PROVE  /\ Initialized(k) \in Seq(TrailRow)
           /\ Resolved(k) \in TrailRow
<1>1. memory \in Memory /\ NoPolicy \in Policy \cup {NoPolicy}
    BY DEF PolicyPart
<1>2. Counts(NoPolicy) \in ThetaType /\ Counts(memory'[k]) \in ThetaType
    BY CountsAre DEF Memory
<1>3. Theta(memory, k) \in ThetaType /\ Prior(memory, k) \in ThetaType
    BY ThetaIs
<1>4. [branch |-> "prior_initialized", key |-> k, before |-> Counts(NoPolicy),
       after |-> Prior(memory, k)] \in TrailRow
    BY <1>2, <1>3 DEF TrailRow
<1>5. Initialized(k) \in Seq(TrailRow)
    BY <1>4 DEF Initialized
<1> QED
    BY <1>2, <1>3, <1>5 DEF Resolved, TrailRow

(* Only policies of orders are executed. *)
OnlyOrders == Len(log') > Len(log) /\ log'[Len(log')].dest # "none"
                => memory[log'[Len(log')].key].source = "llm_policy"

LEMMA NoNewRow == ASSUME WorkPart, Len(log') = Len(log) PROVE OnlyOrders
<1>1. Len(log) \in Nat
    BY DEF WorkPart
<1> QED
    BY <1>1 DEF OnlyOrders

LEMMA DecideKeeps ==
    ASSUME PolicyPart, WorkPart, Backlog, NEW v \in Sights, Decide(v)
    PROVE  PolicyPart' /\ WorkPart' /\ OnlyOrders
<1>1. session = NoSession /\ Kept /\ TypeOK
    BY KeptIs DEF Decide, Free, Kept
<1>2. v \in Sight /\ v.name \in Name
    BY PolicyAssumption DEF Sight, Name
<1>3. Candidates(v) \in Seq(Condition) /\ Candidates(v) # <<>> /\ Len(Candidates(v)) <= 3
    BY <1>2, CandidatesAre
<1>4. Head(Candidates(v)) \in Condition /\ Matching(v.name, Candidates(v)) \in Condition
    BY <1>3, MatchingIs
<1> DEFINE seen == <<v.name, Head(Candidates(v))>>
<1>5. seen \in Key
    BY <1>2, <1>4 DEF Key
<1>6. CongestionN = 0 /\ CongestionTau = 0
    BY <1>1, NowIsNothing DEF Backlog
<1>7. PolicyPart'
    BY SamePolicies DEF Decide
<1>8. \/ log' = Append(log, Row(seen, seen, 0, 0, "none")) /\ AskHuman(seen, Len(log'))
      \/ Stage3(v.name, Matching(v.name, Candidates(v)), seen, 0, 0)
    BY <1>6 DEF Decide
<1> HIDE DEF seen
<1>9. log' \in Seq(Entry) /\ session' \in Session \cup {NoSession} /\ OnlyOrders
    <2>1. CASE log' = Append(log, Row(seen, seen, 0, 0, "none")) /\ AskHuman(seen, Len(log'))
        BY <2>1, <1>1, <1>5, AskedIs DEF OnlyOrders
    <2>2. CASE Stage3(v.name, Matching(v.name, Candidates(v)), seen, 0, 0)
        BY <2>2, <1>1, <1>2, <1>4, <1>5, DecidedIs DEF OnlyOrders
    <2> QED
        BY <1>8, <2>1, <2>2
<1>10. UNCHANGED <<hand, trail>>
    BY DEF Decide
<1> QED
    BY <1>7, <1>9, <1>10 DEF WorkPart

LEMMA IdentifiedKeeps ==
    ASSUME PolicyPart, WorkPart, Backlog, Identified
    PROVE  PolicyPart' /\ WorkPart' /\ OnlyOrders
<1>1. session = NoSession /\ hand.n = 0 /\ hand.tau = 0 /\ Kept
    BY KeptIs DEF Identified, Backlog
<1>2. PICK name \in Object \cup {Unidentified} :
          Stage3(name, "unknown", <<name, "unknown">>, hand.n, hand.tau)
    BY DEF Identified
<1>3. name \in Name /\ "unknown" \in Condition /\ <<name, "unknown">> \in Key
    BY DEF Name, Condition, Key
<1>4. log' \in Seq(Entry) /\ session' \in Session \cup {NoSession} /\ OnlyOrders
    BY <1>1, <1>2, <1>3, DecidedIs DEF OnlyOrders
<1>5. hand' \in [busy : BOOLEAN, n : Nat, tau : Nat]
    BY DEF Identified, NoHand
<1> QED
    BY <1>4, <1>5, SamePolicies DEF Identified, WorkPart

LEMMA AnswerKeeps ==
    ASSUME PolicyPart, WorkPart, Backlog, NEW d \in Box, Answer(d)
    PROVE  PolicyPart' /\ WorkPart' /\ OnlyOrders
<1>1. d \in Destination /\ d \in Boxes /\ session \in Session
    BY PolicyAssumption DEF Answer, Destination, WorkPart
<1>2. log' \in Seq(Entry) /\ Len(log') = Len(log)
    BY <1>1, AnswerKeepsLog DEF Answer, WorkPart
<1>3. session.key \in Key /\ memory' \in Memory /\ Balanced'
    BY <1>1, AnsweredIs DEF Answer
<1>4. PolicyPart'
    BY <1>3, RestPolicies DEF Answer, PolicyPart
<1>5. session' = NoSession
    BY AdvanceEmpties DEF Answer, Backlog
<1>6. trail' \in Seq(TrailRow)
    <2>1. Initialized(session.key) \in Seq(TrailRow) /\ Resolved(session.key) \in TrailRow
        BY <1>3, RowsAre
    <2> QED
        BY <2>1 DEF Answer, WorkPart
<1> QED
    BY <1>2, <1>4, <1>5, <1>6, NoNewRow DEF WorkPart, Answer

LEMMA ForceKeeps ==
    ASSUME PolicyPart, WorkPart, Backlog, NEW d \in Forced, ForceReset(d)
    PROVE  PolicyPart' /\ WorkPart' /\ OnlyOrders
<1>1. d \in Destination /\ session \in Session
    BY PolicyAssumption DEF ForceReset, Destination, WorkPart
<1>2. session.key \in Key /\ memory' \in Memory /\ Balanced'
    BY <1>1, AnsweredIs DEF ForceReset
<1>3. PolicyPart'
    BY <1>2, RestPolicies DEF ForceReset, PolicyPart
<1>4. session' = NoSession
    BY AdvanceEmpties DEF ForceReset, Backlog
<1>5. trail' \in Seq(TrailRow)
    <2>1. Initialized(session.key) \in Seq(TrailRow)
        BY <1>2, RowsAre
    <2> QED
        BY <2>1 DEF ForceReset, WorkPart
<1> QED
    BY <1>3, <1>4, <1>5, NoNewRow DEF WorkPart, ForceReset

LEMMA OrderKeeps ==
    ASSUME PolicyPart, WorkPart, NEW r \in Rules, Order(r[1], r[2])
    PROVE  PolicyPart' /\ WorkPart' /\ OnlyOrders
<1> DEFINE k == r[1]
           m == Upserted(memory, k, r[2])
<1>1. k \in Key /\ r[2] \in Destination
    BY PolicyAssumption DEF Destination
<1>2. memory' = m /\ memory \in Memory
    BY DEF Order, PolicyPart
<1>3. \A l \in Key : memory[l] \in Policy => 2 * memory[l].beta <= 3 * memory[l].alpha
    BY NoPolicyIsNone DEF PolicyPart, Balanced
<1>4. mixed' \subseteq Key /\ erased' \subseteq Key /\ Ordered
    BY <1>1 DEF Order, PolicyPart
<1> HIDE DEF k
<1>5. /\ m \in Memory /\ m[k] \in Policy
      /\ 2 * m[k].beta <= 3 * m[k].alpha
      /\ \A l \in Key \ {k} : m[l] = memory[l]
    BY <1>1, <1>2, <1>3, UpsertedIs
<1> HIDE DEF m
<1>6. Balanced'
    BY <1>1, <1>2, <1>5 DEF Balanced, PolicyPart
<1> QED
    BY <1>2, <1>4, <1>5, <1>6, OrderedIs, RestPolicies, SameWork, NoNewRow DEF Order

LEMMA DeleteKeeps ==
    ASSUME PolicyPart, WorkPart, NEW k \in Key, DeletePolicy(k)
    PROVE  PolicyPart' /\ WorkPart' /\ OnlyOrders
<1>1. memory' = [memory EXCEPT ![k] = NoPolicy] /\ memory' \in Memory
    BY DEF DeletePolicy, PolicyPart, Memory
<1>2. Balanced'
    BY <1>1 DEF Balanced, PolicyPart, Memory
<1>3. mixed' \subseteq Key /\ erased' \subseteq Key
    BY DEF DeletePolicy, PolicyPart
<1> QED
    BY <1>1, <1>2, <1>3, OrderedIs, RestPolicies, SameWork, NoNewRow DEF DeletePolicy

LEMMA ResetKeeps ==
    ASSUME PolicyPart, WorkPart, ResetAllPolicies
    PROVE  PolicyPart' /\ WorkPart' /\ OnlyOrders
<1>1. memory' \in Memory /\ Balanced'
    BY DEF ResetAllPolicies, Memory, Balanced
<1>2. mixed' \subseteq Key /\ erased' \subseteq Key
    BY DEF ResetAllPolicies, PolicyPart
<1> QED
    BY <1>1, <1>2, OrderedIs, RestPolicies, SameWork, NoNewRow DEF ResetAllPolicies

LEMMA RestartKeeps ==
    ASSUME PolicyPart, WorkPart, Restart
    PROVE  PolicyPart' /\ WorkPart' /\ OnlyOrders
<1>1. memory \in Memory /\ memory' = Filled(memory)
    BY DEF Restart, PolicyPart
<1>2. memory' \in Memory
    BY <1>1, FilledIs
<1>3. Balanced'
    <2>1. CASE memory' = memory
        BY <2>1 DEF PolicyPart, Balanced
    <2>2. CASE memory' # memory
        <3>1. \A k \in Key : memory'[k] = NoPolicy \/ 2 * memory'[k].beta <= 3 * memory'[k].alpha
            BY <1>1, <2>2, FilledIs
        <3> QED
            BY <3>1 DEF Balanced
    <2> QED
        BY <2>1, <2>2
<1>4. mixed' \subseteq Key /\ erased' \subseteq Key
    BY DEF Restart, PolicyPart
<1>5. PolicyPart'
    BY <1>2, <1>3, <1>4, OrderedIs, RestPolicies DEF Restart
<1>6. WorkPart'
    BY DEF Restart, WorkPart, NoHand
<1> QED
    BY <1>5, <1>6, NoNewRow DEF Restart

LEMMA WaitKeeps ==
    ASSUME PolicyPart, WorkPart, Backlog, Wait \/ Postpone
    PROVE  PolicyPart' /\ WorkPart' /\ OnlyOrders
<1>1. PolicyPart' /\ UNCHANGED <<log, trail, hand>>
    BY SamePolicies DEF Wait, Postpone
<1>2. session' \in Session \cup {NoSession}
    <2>1. CASE Wait
        <3>1. session \in Session /\ session' = [session EXCEPT !.held = @ + 1]
            BY <2>1 DEF Wait, WorkPart
        <3> QED
            BY <3>1 DEF Session
    <2>2. CASE Postpone
        BY <2>2, AdvanceEmpties DEF Postpone, Backlog
    <2> QED
        BY <2>1, <2>2
<1> QED
    BY <1>1, <1>2, NoNewRow DEF WorkPart

LEMMA BeginKeeps ==
    ASSUME PolicyPart, WorkPart, Backlog, NEW v \in Sights, BeginIdentify(v)
    PROVE  PolicyPart' /\ WorkPart' /\ OnlyOrders
<1>1. PolicyPart' /\ UNCHANGED <<log, trail, session>>
    BY SamePolicies DEF BeginIdentify
<1>2. hand' = [busy |-> TRUE, n |-> 0, tau |-> 0]
    BY NowIsNothing DEF BeginIdentify, Free, Backlog
<1> QED
    BY <1>1, <1>2, NoNewRow DEF WorkPart

LEMMA StepKept == Kept /\ [Next]_vars => Kept' /\ OnlyOrders
<1> SUFFICES ASSUME Kept, [Next]_vars PROVE Kept' /\ OnlyOrders
    OBVIOUS
<1>1. PolicyPart /\ WorkPart /\ Backlog
    BY KeptIs
<1>2. Backlog'
    BY <1>1, StepBacklog
<1>3. PolicyPart' /\ WorkPart' /\ OnlyOrders
    <2>1. CASE UNCHANGED vars
        BY <1>1, <2>1, SamePolicies, SameWork, NoNewRow DEF vars
    <2>2. ASSUME NEW v \in Sights, Decide(v) \/ BeginIdentify(v)
          PROVE  PolicyPart' /\ WorkPart' /\ OnlyOrders
        BY <1>1, <2>2, DecideKeeps, BeginKeeps
    <2>3. CASE Identified
        BY <1>1, <2>3, IdentifiedKeeps
    <2>4. CASE Wait \/ Postpone
        BY <1>1, <2>4, WaitKeeps
    <2>5. ASSUME NEW d \in Box, Answer(d) PROVE PolicyPart' /\ WorkPart' /\ OnlyOrders
        BY <1>1, <2>5, AnswerKeeps
    <2>6. ASSUME NEW d \in Forced, ForceReset(d) PROVE PolicyPart' /\ WorkPart' /\ OnlyOrders
        BY <1>1, <2>6, ForceKeeps
    <2>7. ASSUME NEW r \in Rules, Order(r[1], r[2])
          PROVE  PolicyPart' /\ WorkPart' /\ OnlyOrders
        BY <1>1, <2>7, OrderKeeps
    <2>8. ASSUME NEW k \in Key, DeletePolicy(k) PROVE PolicyPart' /\ WorkPart' /\ OnlyOrders
        BY <1>1, <2>8, DeleteKeeps
    <2>9. CASE ResetAllPolicies
        BY <1>1, <2>9, ResetKeeps
    <2>10. CASE Restart
        BY <1>1, <2>10, RestartKeeps
    <2> QED
        BY <2>1, <2>2, <2>3, <2>4, <2>5, <2>6, <2>7, <2>8, <2>9, <2>10 DEF Next
<1>4. Kept'
    <2>1. (Kept <=> PolicyPart /\ WorkPart /\ Backlog)'
        BY KeptIs, PTL
    <2> QED
        BY <1>2, <1>3, <2>1
<1> QED
    BY <1>3, <1>4
---------------------------------------------------------------------------
(* The trail                                                               *)

(* What AuditTrail says of one key, of the trail s and the policy p        *)
KeyTrail(s, k, p) ==
    LET rows == {i \in DOMAIN s : s[i].key = k}
    IN /\ rows = {} => p = NoPolicy
       /\ \A i \in rows :
            /\ (\A j \in rows : j <= i) => p # NoPolicy /\ s[i].after = Counts(p)
            /\ \/ /\ \A j \in rows : i <= j
                  /\ s[i].branch = "prior_initialized"
               \/ \E j \in rows : /\ j < i /\ \A l \in rows : l <= j \/ i <= l
                                  /\ s[i].branch = "human_resolved"
                                  /\ s[i].before = s[j].after

LEMMA TrailIsOfKeys == AuditTrail <=> \A k \in Key \ mixed : KeyTrail(trail, k, memory[k])
BY DEF AuditTrail, KeyTrail

(* A row of another key changes nothing. *)
LEMMA OtherRow ==
    ASSUME NEW s \in Seq(TrailRow), NEW e \in TrailRow, NEW k, e.key # k, NEW p,
           KeyTrail(s, k, p)
    PROVE  KeyTrail(Append(s, e), k, p)
<1> DEFINE t == Append(s, e)
           rows == {i \in DOMAIN s : s[i].key = k}
           more == {i \in DOMAIN t : t[i].key = k}
<1>1. /\ DOMAIN s = 1..Len(s) /\ DOMAIN t = 1..(Len(s) + 1) /\ Len(s) \in Nat
      /\ \A i \in DOMAIN s : t[i] = s[i]
      /\ t[Len(s) + 1] = e
    OBVIOUS
<1> HIDE DEF t
<1>2. more = rows /\ \A i \in rows : t[i] = s[i]
    BY <1>1
<1>3. /\ rows = {} => p = NoPolicy
      /\ \A i \in rows :
            /\ (\A j \in rows : j <= i) => p # NoPolicy /\ s[i].after = Counts(p)
            /\ \/ /\ \A j \in rows : i <= j
                  /\ s[i].branch = "prior_initialized"
               \/ \E j \in rows : /\ j < i /\ \A l \in rows : l <= j \/ i <= l
                                  /\ s[i].branch = "human_resolved"
                                  /\ s[i].before = s[j].after
    BY DEF KeyTrail
<1> HIDE DEF rows, more
<1>4. ASSUME NEW i \in more
      PROVE  /\ (\A j \in more : j <= i) => p # NoPolicy /\ t[i].after = Counts(p)
             /\ \/ /\ \A j \in more : i <= j
                   /\ t[i].branch = "prior_initialized"
                \/ \E j \in more : /\ j < i /\ \A l \in more : l <= j \/ i <= l
                                   /\ t[i].branch = "human_resolved"
                                   /\ t[i].before = t[j].after
    <2>1. i \in rows /\ t[i] = s[i]
        BY <1>2
    <2>2. CASE \A j \in rows : i <= j /\ s[i].branch = "prior_initialized"
        BY <1>2, <1>3, <2>1, <2>2
    <2>3. ASSUME NEW j \in rows, j < i, \A l \in rows : l <= j \/ i <= l,
                 s[i].branch = "human_resolved", s[i].before = s[j].after
          PROVE  \E m \in more : /\ m < i /\ \A l \in more : l <= m \/ i <= l
                                 /\ t[i].branch = "human_resolved"
                                 /\ t[i].before = t[m].after
        <3>1. j \in more /\ t[j] = s[j]
            BY <1>2
        <3> QED
            BY <1>2, <2>1, <2>3, <3>1
    <2>4. (\A j \in more : j <= i) => p # NoPolicy /\ t[i].after = Counts(p)
        BY <1>2, <1>3, <2>1
    <2> QED
        BY <1>2, <1>3, <2>1, <2>2, <2>3, <2>4
<1>5. more = {} => p = NoPolicy
    BY <1>2, <1>3
<1> QED
    BY <1>4, <1>5 DEF KeyTrail, more, t

(* The last row of a key, if it has any *)
LEMMA LastOf ==
    ASSUME NEW s \in Seq(TrailRow), NEW k, {i \in DOMAIN s : s[i].key = k} # {}
    PROVE  \E i \in DOMAIN s : s[i].key = k /\ \A j \in DOMAIN s : s[j].key = k => j <= i
<1> DEFINE rows == {i \in DOMAIN s : s[i].key = k}
<1>1. Len(s) \in Nat /\ rows \subseteq 0..Len(s) /\ rows # {}
    OBVIOUS
<1>2. PICK i \in rows : \A j \in rows : i >= j
    <2> HIDE DEF rows
    <2> QED
        BY <1>1, GreatestNat
<1>3. \A j \in DOMAIN s : s[j].key = k => j <= i
    BY <1>1, <1>2
<1> QED
    BY <1>3

(* The first row of a key gives the counts it starts from; another takes   *)
(* them where the last left them.                                          *)
LEMMA OneMoreRow ==
    ASSUME NEW s \in Seq(TrailRow), NEW k, NEW p, NEW q, q # NoPolicy, KeyTrail(s, k, p),
           NEW e \in TrailRow, e.key = k, e.after = Counts(q),
           \/ p = NoPolicy /\ e.branch = "prior_initialized"
           \/ p # NoPolicy /\ e.branch = "human_resolved" /\ e.before = Counts(p)
    PROVE  KeyTrail(Append(s, e), k, q)
<1> DEFINE t == Append(s, e)
           n == Len(s) + 1
           rows == {i \in DOMAIN s : s[i].key = k}
           more == {i \in DOMAIN t : t[i].key = k}
<1>1. /\ DOMAIN s = 1..Len(s) /\ DOMAIN t = 1..n /\ Len(s) \in Nat /\ n \in Nat
      /\ \A i \in DOMAIN s : t[i] = s[i]
      /\ t[n] = e
    OBVIOUS
<1> HIDE DEF t
<1>2. /\ more = rows \cup {n} /\ \A i \in rows : t[i] = s[i] /\ i \in Nat /\ i < n
    BY <1>1
<1>3. /\ rows = {} => p = NoPolicy
      /\ \A i \in rows :
            /\ (\A j \in rows : j <= i) => p # NoPolicy /\ s[i].after = Counts(p)
            /\ \/ /\ \A j \in rows : i <= j
                  /\ s[i].branch = "prior_initialized"
               \/ \E j \in rows : /\ j < i /\ \A l \in rows : l <= j \/ i <= l
                                  /\ s[i].branch = "human_resolved"
                                  /\ s[i].before = s[j].after
    BY DEF KeyTrail
<1>4. ASSUME rows # {} PROVE \E i \in rows : \A j \in rows : j <= i
    <2>1. PICK i \in DOMAIN s : s[i].key = k /\ \A j \in DOMAIN s : s[j].key = k => j <= i
        BY <1>4, LastOf
    <2> QED
        BY <2>1
<1> HIDE DEF rows, more, n
<1>5. rows = {} <=> p = NoPolicy
    BY <1>3, <1>4
<1>6. ASSUME NEW i \in more
      PROVE  /\ (\A j \in more : j <= i) => q # NoPolicy /\ t[i].after = Counts(q)
             /\ \/ /\ \A j \in more : i <= j
                   /\ t[i].branch = "prior_initialized"
                \/ \E j \in more : /\ j < i /\ \A l \in more : l <= j \/ i <= l
                                   /\ t[i].branch = "human_resolved"
                                   /\ t[i].before = t[j].after
    <2>1. CASE i \in rows
        <3>1. ~\A j \in more : j <= i
            BY <1>1, <1>2, <2>1
        <3>2. CASE \A j \in rows : i <= j /\ s[i].branch = "prior_initialized"
            <4>1. \A j \in more : i <= j
                BY <1>1, <1>2, <2>1, <3>2
            <4>2. t[i].branch = "prior_initialized"
                BY <1>2, <2>1, <3>2
            <4> QED
                BY <3>1, <4>1, <4>2
        <3>3. ASSUME NEW j \in rows, j < i, \A l \in rows : l <= j \/ i <= l,
                     s[i].branch = "human_resolved", s[i].before = s[j].after
              PROVE  \E m \in more : /\ m < i /\ \A l \in more : l <= m \/ i <= l
                                     /\ t[i].branch = "human_resolved"
                                     /\ t[i].before = t[m].after
            <4>1. j \in more /\ \A l \in more : l <= j \/ i <= l
                BY <1>1, <1>2, <2>1, <3>3
            <4>2. t[i] = s[i] /\ t[j] = s[j]
                BY <1>2, <2>1
            <4> QED
                BY <3>3, <4>1, <4>2
        <3> QED
            BY <1>3, <2>1, <3>1, <3>2, <3>3
    <2>2. CASE i = n
        <3>1. t[i] = e
            BY <1>1, <2>2
        <3>2. CASE rows = {}
            <4>1. \A j \in more : i <= j
                BY <1>1, <1>2, <2>2, <3>2
            <4> QED
                BY <1>5, <3>1, <3>2, <4>1
        <3>3. CASE rows # {}
            <4>1. PICK j \in rows : \A l \in rows : l <= j
                BY <1>4, <3>3
            <4>2. j \in more /\ j < i /\ t[j] = s[j]
                BY <1>2, <2>2
            <4>3. \A l \in more : l <= j \/ i <= l
                BY <1>1, <1>2, <2>2, <4>1
            <4>4. s[j].after = Counts(p)
                BY <1>3, <4>1
            <4> QED
                BY <1>5, <3>1, <3>3, <4>2, <4>3, <4>4
        <3> QED
            BY <3>2, <3>3
    <2> QED
        BY <1>2, <2>1, <2>2
<1>7. more # {}
    BY <1>2
<1> QED
    BY <1>6, <1>7 DEF KeyTrail, more, t

(* The rows of an answer go on from where the last one stopped.            *)
LEMMA AnswerTrail ==
    ASSUME PolicyPart, WorkPart, NEW k \in Key, KeyTrail(trail, k, memory[k]),
           memory' \in Memory, memory'[k] \in Policy,
           trail' = trail \o Initialized(k) \o <<Resolved(k)>>
    PROVE  KeyTrail(trail', k, memory'[k])
<1> DEFINE e == Resolved(k)
           i == [branch |-> "prior_initialized", key |-> k, before |-> Counts(NoPolicy),
                 after |-> Prior(memory, k)]
<1>1. trail \in Seq(TrailRow) /\ e \in TrailRow /\ memory'[k] # NoPolicy
    BY RowsAre, NoPolicyIsNone DEF WorkPart
<1>2. /\ e.key = k /\ e.branch = "human_resolved" /\ e.before = Theta(memory, k)
      /\ e.after = Counts(memory'[k])
    BY DEF Resolved
<1> HIDE DEF e
<1>3. CASE memory[k] # NoPolicy
    <2>1. trail' = Append(trail, e)
        BY <1>1, <1>3 DEF Initialized, e
    <2>2. e.before = Counts(memory[k])
        BY <1>2, <1>3 DEF Theta
    <2> QED
        BY <1>1, <1>2, <1>3, <2>1, <2>2, OneMoreRow
<1>4. CASE memory[k] = NoPolicy
    <2> DEFINE p == [dest |-> "none", alpha |-> Prior(memory, k).alpha,
                     beta |-> Prior(memory, k).beta, unit |-> Prior(memory, k).unit,
                     source |-> "prior"]
    <2>1. Initialized(k) = <<i>> /\ Initialized(k) \in Seq(TrailRow)
        BY <1>4, RowsAre DEF Initialized
    <2>2. i \in TrailRow /\ i.key = k /\ i.branch = "prior_initialized"
          /\ i.after = Prior(memory, k)
        <3>1. <<i>>[1] \in TrailRow
            BY <2>1
        <3> QED
            BY <3>1
    <2>3. Counts(p) = Prior(memory, k) /\ p # NoPolicy
        <3>1. Prior(memory, k) = [alpha |-> Prior(memory, k).alpha,
                                  beta |-> Prior(memory, k).beta, unit |-> Prior(memory, k).unit]
            BY DEF Prior
        <3>2. p.source = "prior" /\ NoPolicy.source = "none"
            BY DEF NoPolicy
        <3> QED
            BY <3>1, <3>2 DEF Counts
    <2>4. e.before = Counts(p)
        BY <1>2, <1>4, <2>3 DEF Theta
    <2> HIDE DEF i, p
    <2>5. trail' = Append(Append(trail, i), e)
        BY <1>1, <2>1, <2>2 DEF e
    <2>6. KeyTrail(Append(trail, i), k, p) /\ Append(trail, i) \in Seq(TrailRow)
        BY <1>1, <1>4, <2>2, <2>3, OneMoreRow
    <2> QED
        BY <1>1, <1>2, <2>3, <2>4, <2>5, <2>6, OneMoreRow
<1> QED
    BY <1>3, <1>4

(* and are none of another key's. *)
LEMMA OthersTrail ==
    ASSUME PolicyPart, WorkPart, NEW k \in Key, memory' \in Memory,
           NEW l \in Key \ {k}, KeyTrail(trail, l, memory[l]), memory'[l] = memory[l],
           \/ trail' = trail \o Initialized(k) \o <<Resolved(k)>>
           \/ trail' = trail \o Initialized(k)
    PROVE  KeyTrail(trail', l, memory'[l])
<1> DEFINE e == Resolved(k)
           i == [branch |-> "prior_initialized", key |-> k, before |-> Counts(NoPolicy),
                 after |-> Prior(memory, k)]
<1>1. trail \in Seq(TrailRow) /\ e \in TrailRow
    BY RowsAre DEF WorkPart
<1>2. e.key = k
    BY DEF Resolved
<1>3. \/ Initialized(k) = <<>>
      \/ Initialized(k) = <<i>> /\ i \in TrailRow
    <2>1. CASE memory[k] # NoPolicy
        <3>1. Initialized(k) = <<>>
            BY <2>1 DEF Initialized
        <3> QED
            BY <3>1
    <2>2. CASE memory[k] = NoPolicy
        <3>1. Initialized(k) = <<i>> /\ Initialized(k) \in Seq(TrailRow)
            BY <2>2, RowsAre DEF Initialized
        <3>2. <<i>>[1] \in TrailRow
            BY <3>1
        <3> QED
            BY <3>1, <3>2
    <2> QED
        BY <2>1, <2>2
<1>4. i.key = k
    OBVIOUS
<1> HIDE DEF i, e
<1>5. \/ trail' = trail
      \/ trail' = Append(trail, e)
      \/ i \in TrailRow /\ trail' = Append(trail, i)
      \/ i \in TrailRow /\ trail' = Append(Append(trail, i), e)
    <2>1. CASE Initialized(k) = <<>>
        BY <1>1, <2>1 DEF e
    <2>2. CASE Initialized(k) = <<i>> /\ i \in TrailRow
        BY <1>1, <2>2 DEF e
    <2> QED
        BY <1>3, <2>1, <2>2
<1>6. i \in TrailRow => /\ KeyTrail(Append(trail, i), l, memory[l])
                        /\ Append(trail, i) \in Seq(TrailRow)
    BY <1>1, <1>4, OtherRow
<1>7. KeyTrail(Append(trail, e), l, memory[l])
    BY <1>1, <1>2, OtherRow
<1>8. i \in TrailRow => KeyTrail(Append(Append(trail, i), e), l, memory[l])
    BY <1>1, <1>2, <1>6, OtherRow
<1> QED
    BY <1>5, <1>6, <1>7, <1>8

LEMMA InitTrail == ASSUME Init PROVE AuditTrail
<1>1. trail = <<>> /\ mixed = {k \in Key : Defaults[k] # "none"}
    BY DEF Init
<1>2. ASSUME NEW k \in Key \ mixed PROVE memory[k] = NoPolicy
    <2>1. Defaults[k] = "none"
        BY <1>1
    <2>2. memory = [l \in Key |-> IF Defaults[l] = "none" THEN NoPolicy
                                  ELSE Upserted([j \in Key |-> NoPolicy], l, Defaults[l])[l]]
        BY DEF Init, Filled
    <2> QED
        BY <2>1, <2>2
<1> QED
    BY <1>1, <1>2 DEF AuditTrail

LEMMA SameTrail ==
    ASSUME AuditTrail, trail' = trail, mixed \subseteq mixed',
           \A l \in Key \ mixed' : memory'[l] = memory[l]
    PROVE  AuditTrail'
<1>1. \A k \in Key \ mixed' : KeyTrail(trail', k, memory'[k])
    BY TrailIsOfKeys
<1>2. (AuditTrail <=> \A k \in Key \ mixed : KeyTrail(trail, k, memory[k]))'
    BY TrailIsOfKeys, PTL
<1> QED
    BY <1>1, <1>2

LEMMA StepTrail ==
    ASSUME Kept, AuditTrail, [Next]_vars
    PROVE  AuditTrail'
<1>1. PolicyPart /\ WorkPart /\ memory \in Memory
    BY KeptIs DEF PolicyPart
<1>2. \A k \in Key \ mixed : KeyTrail(trail, k, memory[k])
    BY TrailIsOfKeys
<1>3. (AuditTrail <=> \A k \in Key \ mixed : KeyTrail(trail, k, memory[k]))'
    BY TrailIsOfKeys, PTL
<1>4. ASSUME NEW d \in Box, Answer(d) PROVE AuditTrail'
    <2> DEFINE key == session.key
    <2>1. d \in Destination /\ session \in Session
        BY <1>1, <1>4, PolicyAssumption DEF Answer, Destination, WorkPart
    <2>2. /\ key \in Key /\ memory' \in Memory /\ memory'[key] \in Policy
          /\ \A l \in Key \ {key} : memory'[l] = memory[l]
        BY <1>1, <1>4, <2>1, AnsweredIs DEF Answer
    <2>3. trail' = trail \o Initialized(key) \o <<Resolved(key)>> /\ mixed' = mixed
        BY <1>4 DEF Answer
    <2> HIDE DEF key
    <2>4. ASSUME NEW k \in Key \ mixed' PROVE KeyTrail(trail', k, memory'[k])
        <3>1. CASE k = key
            BY <1>1, <1>2, <2>2, <2>3, <2>4, <3>1, AnswerTrail
        <3>2. CASE k # key
            BY <1>1, <1>2, <2>2, <2>3, <2>4, <3>2, OthersTrail
        <3> QED
            BY <3>1, <3>2
    <2> QED
        BY <1>3, <2>4
<1>5. ASSUME NEW d \in Forced, ForceReset(d) PROVE AuditTrail'
    <2> DEFINE key == session.key
    <2>1. d \in Destination /\ session \in Session
        BY <1>1, <1>5, PolicyAssumption DEF ForceReset, Destination, WorkPart
    <2>2. /\ key \in Key /\ memory' \in Memory
          /\ \A l \in Key \ {key} : memory'[l] = memory[l]
        BY <1>1, <1>5, <2>1, AnsweredIs DEF ForceReset
    <2>3. trail' = trail \o Initialized(key) /\ mixed' = mixed \cup {key}
        BY <1>5 DEF ForceReset
    <2> HIDE DEF key
    <2>4. ASSUME NEW k \in Key \ mixed' PROVE KeyTrail(trail', k, memory'[k])
        BY <1>1, <1>2, <2>2, <2>3, <2>4, OthersTrail
    <2> QED
        BY <1>3, <2>4
<1>6. ASSUME NEW r \in Rules, Order(r[1], r[2]) PROVE AuditTrail'
    <2> DEFINE k == r[1]
    <2>1. k \in Key /\ r[2] \in Destination
        BY PolicyAssumption DEF Destination
    <2>2. memory' = Upserted(memory, k, r[2]) /\ mixed' = mixed \cup {k} /\ trail' = trail
        BY <1>6 DEF Order
    <2> HIDE DEF k
    <2>3. \A l \in Key \ mixed' : memory'[l] = memory[l]
        BY <1>1, <2>1, <2>2, UpsertedIs
    <2> QED
        BY <2>2, <2>3, SameTrail
<1>7. ASSUME NEW k \in Key, DeletePolicy(k) PROVE AuditTrail'
    <2>1. /\ memory' = [memory EXCEPT ![k] = NoPolicy] /\ mixed' = mixed \cup {k}
          /\ trail' = trail
        BY <1>7 DEF DeletePolicy
    <2>2. \A l \in Key \ mixed' : memory'[l] = memory[l]
        BY <1>1, <2>1 DEF Memory
    <2> QED
        BY <2>1, <2>2, SameTrail
<1>8. CASE ResetAllPolicies
    BY <1>8 DEF ResetAllPolicies, AuditTrail
<1>9. CASE Restart
    <2>1. trail' = trail /\ ((memory' = memory /\ mixed' = mixed) \/ mixed' = Key)
        BY <1>9 DEF Restart
    <2> QED
        BY <2>1, SameTrail DEF AuditTrail
<1>10. CASE UNCHANGED <<memory, trail, mixed>>
    BY <1>10, SameTrail
<1>11. ASSUME NEW v \in Sights, Decide(v) \/ BeginIdentify(v) PROVE AuditTrail'
    BY <1>11, <1>10 DEF Decide, BeginIdentify
<1>12. CASE Identified \/ Wait \/ Postpone \/ UNCHANGED vars
    BY <1>12, <1>10 DEF Identified, Wait, Postpone, vars
<1> QED
    BY <1>4, <1>5, <1>6, <1>7, <1>8, <1>9, <1>11, <1>12 DEF Next
---------------------------------------------------------------------------
(* The replay                                                              *)

(* A policy the replay knows: like one learned from answers, but never one *)
(* of an order *)
SimPolicy == [dest : Boxes, alpha : Nat \ {0}, beta : Nat \ {0}, unit : Nat \ {0},
              source : {"replay"}]
SimState == SimPolicy \cup {NoPolicy}

LEMMA SimFeedback ==
    ASSUME NEW p \in SimPolicy, NEW d \in Boxes
    PROVE  ApplyFeedback(p, d) \in SimPolicy
<1> DEFINE yes   == [p EXCEPT !.alpha = @ + p.unit, !.dest = d]
           over  == [dest |-> d, alpha |-> 2, beta |-> 1, unit |-> 1, source |-> p.source]
           no    == [p EXCEPT !.beta = @ + p.unit]
<1>1. p.alpha \in Nat \ {0} /\ p.beta \in Nat \ {0} /\ p.unit \in Nat \ {0}
    BY DEF SimPolicy
<1>2. yes \in SimPolicy
    <2> DEFINE q == [p EXCEPT !.alpha = @ + p.unit]
    <2>1. q \in SimPolicy
        BY <1>1 DEF SimPolicy
    <2>2. yes = [q EXCEPT !.dest = d]
        OBVIOUS
    <2> HIDE DEF q, yes
    <2> QED
        BY <2>1, <2>2 DEF SimPolicy
<1>3. over \in SimPolicy /\ no \in SimPolicy
    BY <1>1 DEF SimPolicy
<1>4. ApplyFeedback(p, d) \in {yes, over, no}
    BY DEF ApplyFeedback
<1> QED
    BY <1>2, <1>3, <1>4

(* A row without a label teaches nothing. *)
LEMMA ReplayStepIs ==
    ASSUME NEW p \in SimState, NEW row, NEW d \in Boxes \cup {"none"}
    PROVE  /\ ReplayStep(p, row, d) \in SimState
           /\ d = "none" => ReplayStep(p, row, d) = p
<1> DEFINE q == IF p = NoPolicy
                THEN [dest |-> d, alpha |-> 1, beta |-> 1, unit |-> 1, source |-> "replay"]
                ELSE p
           r == ApplyFeedback(q, d)
<1>1. \/ ReplayStep(p, row, d) = p
      \/ d # "none" /\ ReplayStep(p, row, d) = r
    BY DEF ReplayStep
<1>2. d = "none" => ReplayStep(p, row, d) = p
    BY DEF ReplayStep
<1>3. ASSUME d # "none" PROVE r \in SimPolicy
    <2>1. q \in SimPolicy /\ d \in Boxes
        BY <1>3 DEF SimState, SimPolicy
    <2> HIDE DEF q
    <2> QED
        BY <2>1, SimFeedback
<1> HIDE DEF r
<1> QED
    BY <1>1, <1>2, <1>3 DEF SimState

(* Row i in the replay of the rows of k, and the boxes its rows are        *)
(* labelled with                                                           *)
RowStep(p, i, rows, k, box) ==
    IF rows[i].key = k THEN ReplayStep(p, rows[i], box[i]) ELSE p
Labelled(rows, k, box) ==
    \A i \in 1..Len(rows) : rows[i].key = k => box[i] \in Boxes \cup {"none"}

(* The simulation of a log, as it recurs *)
Sim(s, rows, k, box) ==
    s = [i \in 0..Len(rows) |-> IF i = 0 THEN NoPolicy ELSE RowStep(s[i - 1], i, rows, k, box)]

LEMMA SimulatedIs ==
    ASSUME NEW rows, NEW k, NEW box
    PROVE  Simulated(rows, k, box) = (CHOOSE s : Sim(s, rows, k, box))[Len(rows)]
BY Zenon DEF Simulated, Sim, RowStep

(* There is one *)
LEMMA SimExists ==
    ASSUME NEW rows \in Seq(Entry), NEW k, NEW box, Labelled(rows, k, box)
    PROVE  \E s : Sim(s, rows, k, box) /\ s \in [0..Len(rows) -> SimState]
<1> DEFINE n == Len(rows)
           step == [x \in (1..n) \X SimState |-> RowStep(x[2], x[1], rows, k, box)]
<1>1. n \in Nat
    OBVIOUS
<1>2. NoPolicy \in SimState
    BY DEF SimState
<1>3. step \in [(1..n) \X SimState -> SimState]
    <2>1. ASSUME NEW i \in 1..n, NEW p \in SimState
          PROVE  RowStep(p, i, rows, k, box) \in SimState
        BY ReplayStepIs DEF RowStep, Labelled
    <2> QED
        BY <2>1
<1>4. \A i \in 1..n : \A p \in SimState : step[<<i, p>>] = RowStep(p, i, rows, k, box)
    OBVIOUS
<1> HIDE DEF step, n
<1>5. PICK s : NatRec(s, n, SimState, NoPolicy, step)
    BY <1>1, <1>2, <1>3, NatRecExists
<1>6. s \in [0..n -> SimState] /\ s[0] = NoPolicy
    BY <1>5 DEF NatRec
<1>7. \A i \in 1..n : s[i] = RowStep(s[i - 1], i, rows, k, box)
    <2> TAKE i \in 1..n
    <2>1. s[i - 1] \in SimState
        BY <1>1, <1>6
    <2> QED
        BY <1>4, <1>5, <2>1 DEF NatRec
<1>8. s = [i \in 0..n |-> IF i = 0 THEN NoPolicy ELSE RowStep(s[i - 1], i, rows, k, box)]
    BY <1>1, <1>6, <1>7
<1> QED
    BY <1>6, <1>8 DEF Sim, n

(* and only one on the rows that two logs share, with what they are        *)
(* labelled with: they do not differ first at any row                      *)
Share(rows, box, more, also, k) ==
    \A i \in 1..Len(rows) : \A p : RowStep(p, i, rows, k, box) = RowStep(p, i, more, k, also)

LEMMA SimAgree ==
    ASSUME NEW rows \in Seq(Entry), NEW more \in Seq(Entry), Len(rows) <= Len(more),
           NEW k, NEW box, NEW also, Share(rows, box, more, also, k),
           NEW s, Sim(s, rows, k, box), NEW t, Sim(t, more, k, also)
    PROVE  s[Len(rows)] = t[Len(rows)]
<1> DEFINE n == Len(rows)
           T == {i \in 0..n : s[i] # t[i]}
<1>1. n \in Nat /\ Len(more) \in Nat
    OBVIOUS
<1>2. SUFFICES ASSUME T # {} PROVE FALSE
    BY <1>1, <1>2
<1>3. PICK i \in T : \A j \in T : i <= j
    <2>1. T \subseteq Nat
        OBVIOUS
    <2> HIDE DEF T
    <2> QED
        BY <1>2, <2>1, LeastNat
<1>4. i \in 0..n /\ i \in 0..Len(more) /\ s[i] # t[i]
    BY <1>1
<1>5. /\ s[i] = IF i = 0 THEN NoPolicy ELSE RowStep(s[i - 1], i, rows, k, box)
      /\ t[i] = IF i = 0 THEN NoPolicy ELSE RowStep(t[i - 1], i, more, k, also)
    BY <1>4 DEF Sim
<1>6. i # 0
    BY <1>4, <1>5
<1>7. i - 1 \in 0..n /\ ~(i <= i - 1) /\ i \in 1..n
    BY <1>4, <1>6
<1>8. s[i - 1] = t[i - 1]
    BY <1>3, <1>7
<1>9. RowStep(t[i - 1], i, rows, k, box) = RowStep(t[i - 1], i, more, k, also)
    BY <1>7 DEF Share
<1> QED
    BY <1>4, <1>5, <1>6, <1>8, <1>9

(* so the replay is of the rows and the labels alone, *)
LEMMA SimulatedShared ==
    ASSUME NEW rows \in Seq(Entry), NEW more \in Seq(Entry), Len(rows) = Len(more),
           NEW k, NEW box, NEW also, Share(rows, box, more, also, k),
           Labelled(rows, k, box), Labelled(more, k, also)
    PROVE  Simulated(rows, k, box) = Simulated(more, k, also)
<1> DEFINE s == CHOOSE s : Sim(s, rows, k, box)
           t == CHOOSE t : Sim(t, more, k, also)
<1>1. Sim(s, rows, k, box) /\ Sim(t, more, k, also)
    BY SimExists
<1>2. Simulated(rows, k, box) = s[Len(rows)] /\ Simulated(more, k, also) = t[Len(more)]
    BY SimulatedIs
<1> HIDE DEF s, t
<1> QED
    BY <1>1, <1>2, SimAgree

LEMMA SimulatedType ==
    ASSUME NEW rows \in Seq(Entry), NEW k, NEW box, Labelled(rows, k, box)
    PROVE  Simulated(rows, k, box) \in SimState
<1> DEFINE s == CHOOSE s : Sim(s, rows, k, box)
<1>1. Sim(s, rows, k, box)
    BY SimExists
<1>2. PICK t : Sim(t, rows, k, box) /\ t \in [0..Len(rows) -> SimState]
    BY SimExists
<1>3. Simulated(rows, k, box) = s[Len(rows)]
    BY SimulatedIs
<1>4. Share(rows, box, rows, box, k) /\ Len(rows) \in Nat
    BY DEF Share
<1> HIDE DEF s
<1>5. s[Len(rows)] = t[Len(rows)]
    BY <1>1, <1>2, <1>4, SimAgree
<1> QED
    BY <1>2, <1>3, <1>4, <1>5

LEMMA SimulatedEmpty ==
    ASSUME NEW k, NEW box
    PROVE  Simulated(<<>>, k, box) = NoPolicy
<1> DEFINE rows == <<>>
           s == CHOOSE s : Sim(s, rows, k, box)
<1>1. rows \in Seq(Entry) /\ Len(rows) = 0
    OBVIOUS
<1> HIDE DEF rows
<1>2. Labelled(rows, k, box)
    BY <1>1 DEF Labelled
<1>3. Sim(s, rows, k, box)
    BY <1>1, <1>2, SimExists
<1>4. Simulated(rows, k, box) = s[0]
    BY <1>1, SimulatedIs
<1> HIDE DEF s
<1>5. s[0] = NoPolicy
    BY <1>1, <1>3 DEF Sim
<1> QED
    BY <1>4, <1>5 DEF rows

(* and the last row is the last step. *)
LEMMA SimulatedLast ==
    ASSUME NEW rows \in Seq(Entry), NEW more \in Seq(Entry), Len(more) = Len(rows) + 1,
           NEW k, NEW box, NEW also, Share(rows, box, more, also, k),
           Labelled(rows, k, box), Labelled(more, k, also)
    PROVE  Simulated(more, k, also) = RowStep(Simulated(rows, k, box), Len(more), more, k, also)
<1> DEFINE s == CHOOSE s : Sim(s, rows, k, box)
           t == CHOOSE t : Sim(t, more, k, also)
<1>1. Sim(s, rows, k, box) /\ Sim(t, more, k, also)
    BY SimExists
<1>2. Simulated(rows, k, box) = s[Len(rows)] /\ Simulated(more, k, also) = t[Len(more)]
    BY SimulatedIs
<1> HIDE DEF s, t
<1>3. Len(rows) \in Nat /\ Len(more) \in 0..Len(more) /\ Len(more) # 0 /\ Len(more) - 1 = Len(rows)
    OBVIOUS
<1>4. s[Len(rows)] = t[Len(rows)]
    BY <1>1, <1>3, SimAgree
<1>5. t[Len(more)] = RowStep(t[Len(more) - 1], Len(more), more, k, also)
    BY <1>1, <1>3 DEF Sim
<1> QED
    BY <1>2, <1>3, <1>4, <1>5

(* With no backlog the replay too asks about everything it knows *)
LEMMA SimAsks ==
    ASSUME NEW c \in Condition, NEW p \in SimPolicy
    PROVE  ShouldQueryHuman(c, p, 0, 0)
<1> DEFINE L == Loss[c][p.dest]
<1>1. L \in Nat \ {0}
    BY PolicyAssumption DEF SimPolicy
<1>2. p.alpha + p.beta \in Nat /\ p.beta \in Nat \ {0} /\ Doubt(p) = p.beta
    BY DEF SimPolicy, Doubt
<1>3. K1 \in Nat /\ K2 \in Nat
    BY PolicyAssumption
<1>4. (K1 * 0 + K2 * 0 * (RampCapacity - 0)) * (p.alpha + p.beta) = 0
    BY <1>2, <1>3 DEF RampCapacity
<1>5. Doubt(p) * L * (RampCapacity - 0) > 0
    <2>1. \A a, b \in Nat : a > 0 /\ b > 0 => a * b * 6 > 0
        OBVIOUS
    <2>2. p.beta * L * 6 > 0
        BY <1>1, <1>2, <2>1
    <2>3. RampCapacity - 0 = 6
        BY DEF RampCapacity
    <2> QED
        BY <1>2, <2>2, <2>3
<1>6. EvpiExceedsCost(c, p, 0, 0)
    BY <1>4, <1>5 DEF EvpiExceedsCost, RampCapacity
<1> QED
    BY <1>6 DEF ShouldQueryHuman

(* A simulated policy and a stored one that say the same *)
Same(p, q) ==
    \/ p = NoPolicy /\ q = NoPolicy
    \/ /\ p # NoPolicy /\ q # NoPolicy
       /\ p.dest = q.dest /\ p.alpha = q.alpha /\ p.beta = q.beta /\ p.unit = q.unit

(* Field by field, whatever the policy came from *)
LEMMA FeedbackFields ==
    ASSUME NEW r \in Policy \cup SimPolicy, NEW d
    PROVE  /\ ApplyFeedback(r, d).dest =
                IF d = r.dest \/ r.dest = "ask_human" THEN d
                ELSE IF 2 * (r.beta + r.unit) > 3 * r.alpha THEN d ELSE r.dest
           /\ ApplyFeedback(r, d).alpha =
                IF d = r.dest \/ r.dest = "ask_human" THEN r.alpha + r.unit
                ELSE IF 2 * (r.beta + r.unit) > 3 * r.alpha THEN 2 ELSE r.alpha
           /\ ApplyFeedback(r, d).beta =
                IF d = r.dest \/ r.dest = "ask_human" THEN r.beta
                ELSE IF 2 * (r.beta + r.unit) > 3 * r.alpha THEN 1 ELSE r.beta + r.unit
           /\ ApplyFeedback(r, d).unit =
                IF d = r.dest \/ r.dest = "ask_human" THEN r.unit
                ELSE IF 2 * (r.beta + r.unit) > 3 * r.alpha THEN 1 ELSE r.unit
<1> DEFINE a == [r EXCEPT !.alpha = @ + r.unit]
           yes == [a EXCEPT !.dest = d]
           no == [r EXCEPT !.beta = @ + r.unit]
<1>1. DOMAIN r = {"dest", "alpha", "beta", "unit", "source"}
    BY DEF Policy, SimPolicy
<1>2. /\ a.dest = r.dest /\ a.alpha = r.alpha + r.unit /\ a.beta = r.beta /\ a.unit = r.unit
      /\ DOMAIN a = {"dest", "alpha", "beta", "unit", "source"}
    BY <1>1 DEF Policy, SimPolicy
<1>3. yes.dest = d /\ yes.alpha = a.alpha /\ yes.beta = a.beta /\ yes.unit = a.unit
    <2> HIDE DEF a
    <2> QED
        BY <1>2
<1>4. no.dest = r.dest /\ no.alpha = r.alpha /\ no.beta = r.beta + r.unit /\ no.unit = r.unit
    BY <1>1 DEF Policy, SimPolicy
<1>5. ApplyFeedback(r, d) =
        IF d = r.dest \/ r.dest = "ask_human" THEN yes
        ELSE IF 2 * (r.beta + r.unit) > 3 * r.alpha
             THEN [dest |-> d, alpha |-> 2, beta |-> 1, unit |-> 1, source |-> r.source]
             ELSE no
    BY DEF ApplyFeedback
<1> HIDE DEF a, yes, no
<1> QED
    BY <1>2, <1>3, <1>4, <1>5

LEMMA SameFeedback ==
    ASSUME NEW p \in SimPolicy, NEW q \in Policy, Same(p, q), NEW d \in Boxes
    PROVE  /\ ApplyFeedback(p, d).dest = ApplyFeedback(q, d).dest
           /\ ApplyFeedback(p, d).alpha = ApplyFeedback(q, d).alpha
           /\ ApplyFeedback(p, d).beta = ApplyFeedback(q, d).beta
           /\ ApplyFeedback(p, d).unit = ApplyFeedback(q, d).unit
<1>1. p.dest = q.dest /\ p.alpha = q.alpha /\ p.beta = q.beta /\ p.unit = q.unit
    <2>1. p # NoPolicy
        BY DEF NoPolicy, SimPolicy
    <2> QED
        BY <2>1 DEF Same
<1>2. /\ ApplyFeedback(p, d).dest =
           IF d = p.dest \/ p.dest = "ask_human" THEN d
           ELSE IF 2 * (p.beta + p.unit) > 3 * p.alpha THEN d ELSE p.dest
      /\ ApplyFeedback(p, d).alpha =
           IF d = p.dest \/ p.dest = "ask_human" THEN p.alpha + p.unit
           ELSE IF 2 * (p.beta + p.unit) > 3 * p.alpha THEN 2 ELSE p.alpha
      /\ ApplyFeedback(p, d).beta =
           IF d = p.dest \/ p.dest = "ask_human" THEN p.beta
           ELSE IF 2 * (p.beta + p.unit) > 3 * p.alpha THEN 1 ELSE p.beta + p.unit
      /\ ApplyFeedback(p, d).unit =
           IF d = p.dest \/ p.dest = "ask_human" THEN p.unit
           ELSE IF 2 * (p.beta + p.unit) > 3 * p.alpha THEN 1 ELSE p.unit
    BY FeedbackFields
<1>3. /\ ApplyFeedback(q, d).dest =
           IF d = q.dest \/ q.dest = "ask_human" THEN d
           ELSE IF 2 * (q.beta + q.unit) > 3 * q.alpha THEN d ELSE q.dest
      /\ ApplyFeedback(q, d).alpha =
           IF d = q.dest \/ q.dest = "ask_human" THEN q.alpha + q.unit
           ELSE IF 2 * (q.beta + q.unit) > 3 * q.alpha THEN 2 ELSE q.alpha
      /\ ApplyFeedback(q, d).beta =
           IF d = q.dest \/ q.dest = "ask_human" THEN q.beta
           ELSE IF 2 * (q.beta + q.unit) > 3 * q.alpha THEN 1 ELSE q.beta + q.unit
      /\ ApplyFeedback(q, d).unit =
           IF d = q.dest \/ q.dest = "ask_human" THEN q.unit
           ELSE IF 2 * (q.beta + q.unit) > 3 * q.alpha THEN 1 ELSE q.unit
    BY FeedbackFields
<1> QED
    BY <1>1, <1>2, <1>3

(* What an answer does to the table its label does to the simulation *)
LEMMA AnswerAgrees ==
    ASSUME ~pooling, memory \in Memory, NEW p \in SimState, NEW row \in Entry,
           row.n = 0, row.tau = 0, NEW d \in Boxes, Same(p, memory[row.key])
    PROVE  Same(ReplayStep(p, row, d), Learned(memory, row.key, d)[row.key])
<1> DEFINE k == row.key
           start == [dest |-> d, alpha |-> 1, beta |-> 1, unit |-> 1, source |-> "replay"]
           q == IF p = NoPolicy THEN start ELSE p
<1>1. k \in Key /\ p \in SimPolicy \cup {NoPolicy} /\ memory[k] \in Policy \cup {NoPolicy}
      /\ k[2] \in Condition
    BY DEF Entry, SimState, Memory, Key
<1>2. start \in SimPolicy /\ NoPolicy \notin SimPolicy
    BY DEF SimPolicy, NoPolicy
<1>3. ShouldQueryHuman(row.key[2], p, 0, 0)
    <2>1. CASE p = NoPolicy
        BY <2>1 DEF ShouldQueryHuman
    <2>2. CASE p # NoPolicy
        BY <1>1, <2>2, SimAsks
    <2> QED
        BY <2>1, <2>2
<1>4. d # "none"
    BY DEF Boxes
<1>5. ReplayStep(p, row, d) = ApplyFeedback(q, d)
    BY <1>3, <1>4 DEF ReplayStep
<1>6. q \in SimPolicy /\ ApplyFeedback(q, d) \in SimPolicy
    <2>1. q \in SimPolicy
        BY <1>1, <1>2
    <2> HIDE DEF q
    <2> QED
        BY <2>1, SimFeedback
<1>7. CASE memory[k] = NoPolicy
    <2>1. p = NoPolicy
        BY <1>7 DEF Same
    <2>2. ApplyFeedback(q, d) = [start EXCEPT !.alpha = @ + start.unit, !.dest = d]
        BY <2>1 DEF ApplyFeedback
    <2>3. /\ ApplyFeedback(q, d).dest = d /\ ApplyFeedback(q, d).alpha = 2
          /\ ApplyFeedback(q, d).beta = 1 /\ ApplyFeedback(q, d).unit = 1
        <3> DEFINE a == [start EXCEPT !.alpha = @ + start.unit]
        <3>1. a = [dest |-> d, alpha |-> 2, beta |-> 1, unit |-> 1, source |-> "replay"]
            OBVIOUS
        <3>2. ApplyFeedback(q, d) = [a EXCEPT !.dest = d]
            BY <2>2
        <3> HIDE DEF a
        <3> QED
            BY <3>1, <3>2
    <2>4. Theta(memory, k) = [alpha |-> 1, beta |-> 1, unit |-> 1]
        BY <1>7 DEF Prior, Theta
    <2>5. Learned(memory, k, d)[k] = [dest |-> d, alpha |-> 2, beta |-> 1, unit |-> 1,
                                      source |-> "human_feedback"]
        BY <1>1, <1>7, <2>4 DEF Learned, Memory
    <2> QED
        BY <1>2, <1>5, <1>6, <2>3, <2>5, NoPolicyIsNone DEF Same, NoPolicy
<1>8. CASE memory[k] # NoPolicy
    <2>1. p # NoPolicy /\ q = p /\ memory[k] \in Policy /\ p \in SimPolicy
        BY <1>1, <1>8 DEF Same
    <2>2. Learned(memory, k, d)[k] = [ApplyFeedback(memory[k], d) EXCEPT !.source = "human_feedback"]
        BY <1>1, <1>8 DEF Learned, Memory
    <2>3. ApplyFeedback(memory[k], d) \in Policy
        BY <1>1, <2>1, FeedbackIs DEF Destination
    <2>4. /\ Learned(memory, k, d)[k] \in Policy
          /\ Learned(memory, k, d)[k].dest = ApplyFeedback(memory[k], d).dest
          /\ Learned(memory, k, d)[k].alpha = ApplyFeedback(memory[k], d).alpha
          /\ Learned(memory, k, d)[k].beta = ApplyFeedback(memory[k], d).beta
          /\ Learned(memory, k, d)[k].unit = ApplyFeedback(memory[k], d).unit
        BY <2>2, <2>3 DEF Policy
    <2> HIDE DEF q
    <2>5. /\ ApplyFeedback(p, d).dest = ApplyFeedback(memory[k], d).dest
          /\ ApplyFeedback(p, d).alpha = ApplyFeedback(memory[k], d).alpha
          /\ ApplyFeedback(p, d).beta = ApplyFeedback(memory[k], d).beta
          /\ ApplyFeedback(p, d).unit = ApplyFeedback(memory[k], d).unit
        BY <2>1, SameFeedback
    <2> QED
        BY <1>2, <1>5, <1>6, <2>1, <2>4, <2>5, NoPolicyIsNone DEF Same
<1> QED
    BY <1>7, <1>8
---------------------------------------------------------------------------
(* The log, the open question and the table in step                        *)

(* The questions labelled with what was answered, and what the replay of   *)
(* key k then comes to                                                     *)
Answers(rows)   == [i \in DOMAIN rows |-> rows[i].answer]
Replay(rows, k) == Simulated(rows, k, Answers(rows))

LEMMA AnswersLabel ==
    ASSUME NEW rows \in Seq(Entry), NEW k
    PROVE  Labelled(rows, k, Answers(rows)) /\ Replay(rows, k) \in SimState
<1>1. \A i \in 1..Len(rows) : Answers(rows)[i] = rows[i].answer /\ rows[i] \in Entry
    BY DEF Answers
<1>2. Labelled(rows, k, Answers(rows))
    BY <1>1 DEF Labelled, Entry
<1> QED
    BY <1>2, SimulatedType DEF Replay

(* One row more *)
LEMMA ReplayLast ==
    ASSUME NEW rows \in Seq(Entry), NEW more \in Seq(Entry), Len(more) = Len(rows) + 1,
           \A i \in 1..Len(rows) : rows[i] = more[i], NEW k
    PROVE  LET row == more[Len(more)]
           IN Replay(more, k) = IF row.key = k THEN ReplayStep(Replay(rows, k), row, row.answer)
                                ELSE Replay(rows, k)
<1>1. /\ \A i \in 1..Len(rows) : Answers(rows)[i] = rows[i].answer /\ i \in 1..Len(more)
      /\ \A i \in 1..Len(more) : Answers(more)[i] = more[i].answer
      /\ Len(more) \in 1..Len(more)
    BY DEF Answers
<1>2. Share(rows, Answers(rows), more, Answers(more), k)
    BY <1>1 DEF Share, RowStep
<1>3. Replay(more, k) = RowStep(Replay(rows, k), Len(more), more, k, Answers(more))
    BY <1>2, AnswersLabel, SimulatedLast DEF Replay
<1> QED
    BY <1>1, <1>3 DEF RowStep

(* The rows of the log, when one is added and when the last is answered *)
LEMMA AddedRow ==
    ASSUME NEW rows \in Seq(Entry), NEW e \in Entry, e.answer = "none", NEW k
    PROVE  Replay(Append(rows, e), k) = Replay(rows, k)
<1> DEFINE more == Append(rows, e)
<1>1. /\ more \in Seq(Entry) /\ Len(more) = Len(rows) + 1 /\ more[Len(more)] = e
      /\ \A i \in 1..Len(rows) : rows[i] = more[i]
    OBVIOUS
<1> HIDE DEF more
<1>2. LET last == more[Len(more)]
      IN Replay(more, k) = IF last.key = k THEN ReplayStep(Replay(rows, k), last, last.answer)
                           ELSE Replay(rows, k)
    BY <1>1, ReplayLast
<1> QED
    BY <1>1, <1>2, AnswersLabel, ReplayStepIs DEF more

LastRow == log[Len(log)]

LEMMA AnsweredRow ==
    ASSUME log \in Seq(Entry), Len(log) > 0, LastRow.answer = "none", NEW d \in Boxes,
           log' = [log EXCEPT ![Len(log)].answer = d], NEW k
    PROVE  Replay(log', k) = IF LastRow.key = k
                             THEN ReplayStep(Replay(log, k), [LastRow EXCEPT !.answer = d], d)
                             ELSE Replay(log, k)
<1> DEFINE row   == [LastRow EXCEPT !.answer = d]
           n     == Len(log)
           front == SubSeq(log, 1, n - 1)
<1>1. LastRow \in Entry
    BY DEF LastRow
<1>2. row \in Entry /\ row.key = LastRow.key /\ row.answer = d
    BY <1>1 DEF Entry
<1>3. front \in Seq(Entry) /\ Len(front) = n - 1 /\ \A i \in 1..Len(front) : front[i] = log[i]
    <2>1. n \in Nat \ {0} /\ \A i \in 1..(n - 1) : log[i] \in Entry
        OBVIOUS
    <2>2. /\ front \in Seq(Entry) /\ Len(front) = IF 1 <= n - 1 THEN n - 1 - 1 + 1 ELSE 0
          /\ \A i \in 1..(n - 1 - 1 + 1) : front[i] = log[1 + i - 1]
        <3> HIDE DEF n
        <3> QED
            BY <2>1, SubSeqProperties
    <2>3. Len(front) = n - 1
        <3> HIDE DEF n, front
        <3> QED
            BY <2>1, <2>2
    <2> HIDE DEF n, front
    <2> QED
        BY <2>1, <2>2, <2>3
<1>4. n \in Nat \ {0} /\ log \in [1..n -> Entry]
    OBVIOUS
<1>5. log' \in Seq(Entry) /\ Len(log') = n
    BY AnswerKeepsLog
<1>6. log'[n] = row /\ \A i \in 1..(n - 1) : log'[i] = log[i]
    BY <1>4 DEF LastRow
<1>7. \A i \in 1..Len(front) : front[i] = log'[i]
    <2> HIDE DEF front, row
    <2> QED
        BY <1>3, <1>4, <1>6
<1> HIDE DEF front, n, row
<1>8. Len(log) = Len(front) + 1 /\ Len(log') = Len(front) + 1 /\ log'[Len(log')] = row
    BY <1>3, <1>4, <1>5, <1>6 DEF n
<1>9. Replay(log, k) = IF LastRow.key = k THEN ReplayStep(Replay(front, k), LastRow, "none")
                       ELSE Replay(front, k)
    BY <1>3, <1>8, ReplayLast DEF LastRow
<1>10. Replay(log, k) = Replay(front, k)
    BY <1>3, <1>9, AnswersLabel, ReplayStepIs
<1>11. Replay(log', k) = IF row.key = k THEN ReplayStep(Replay(front, k), row, d)
                         ELSE Replay(front, k)
    <2>1. LET last == log'[Len(log')]
          IN Replay(log', k) = IF last.key = k THEN ReplayStep(Replay(front, k), last, last.answer)
                               ELSE Replay(front, k)
        BY <1>3, <1>5, <1>7, <1>8, ReplayLast
    <2> QED
        BY <1>2, <1>8, <2>1
<1> QED
    BY <1>2, <1>10, <1>11 DEF row

(* An open question is the last row of the log, not answered yet. *)
Asked ==
    session # NoSession =>
        /\ Len(log) > 0 /\ session.row = Len(log)
        /\ LastRow.key = session.key /\ LastRow.answer = "none"
        /\ LastRow.n = 0 /\ LastRow.tau = 0

(* The table agrees with the replay where only answers made it. *)
Agrees == ~pooling => \A k \in Key \ mixed : Same(Replay(log, k), memory[k])

LEMMA InitAgrees == ASSUME Init PROVE Asked /\ Agrees
<1>1. session = NoSession /\ log = <<>> /\ mixed = {k \in Key : Defaults[k] # "none"}
    BY DEF Init
<1>2. ASSUME NEW k \in Key, k \notin mixed PROVE Same(Replay(log, k), memory[k])
    <2>1. Replay(log, k) = NoPolicy
        BY <1>1, SimulatedEmpty DEF Replay
    <2>2. Defaults[k] = "none"
        BY <1>1, <1>2
    <2>3. memory = [l \in Key |-> IF Defaults[l] = "none" THEN NoPolicy
                                  ELSE Upserted([j \in Key |-> NoPolicy], l, Defaults[l])[l]]
        BY DEF Init, Filled
    <2>4. memory[k] = NoPolicy
        BY <2>2, <2>3
    <2> QED
        BY <2>1, <2>4 DEF Same
<1> QED
    BY <1>1, <1>2 DEF Asked, Agrees

LEMMA SameLog ==
    ASSUME Asked, Agrees, UNCHANGED <<log, pooling>>, mixed \subseteq mixed',
           \A l \in Key \ mixed' : memory'[l] = memory[l],
           \/ session' = NoSession
           \/ session # NoSession /\ session'.key = session.key /\ session'.row = session.row
    PROVE  Asked' /\ Agrees'
BY DEF Asked, Agrees, LastRow

(* A decision adds a row that teaches nothing yet. *)
LEMMA NewRowAgrees ==
    ASSUME Asked, Agrees, log \in Seq(Entry), session = NoSession,
           UNCHANGED <<memory, pooling, mixed>>,
           NEW key \in Key, NEW seen \in Key, NEW dest \in Boxes \cup {"none"},
           log' = Append(log, Row(key, seen, 0, 0, dest)),
           session' = session \/ session' = [key |-> key, row |-> Len(log'), held |-> 0]
    PROVE  Asked' /\ Agrees'
<1> DEFINE e == Row(key, seen, 0, 0, dest)
<1>1. e \in Entry /\ e.answer = "none" /\ e.key = key /\ e.n = 0 /\ e.tau = 0
    BY DEF Row, Entry
<1> HIDE DEF e
<1>2. \A k : Replay(log', k) = Replay(log, k)
    <2>1. \A k : Replay(Append(log, e), k) = Replay(log, k)
        BY <1>1, AddedRow
    <2> QED
        BY <2>1 DEF e
<1>3. Len(log') > 0 /\ log'[Len(log')] = e
    BY <1>1, AppendIs DEF e
<1>4. Asked'
    BY <1>1, <1>3 DEF Asked, LastRow
<1>5. Agrees'
    BY <1>2 DEF Agrees
<1> QED
    BY <1>4, <1>5

LEMMA Stage3Agrees ==
    ASSUME Kept, Asked, Agrees, session = NoSession, UNCHANGED <<memory, pooling, mixed>>,
           NEW name \in Name, NEW c \in Condition, NEW seen \in Key, Stage3(name, c, seen, 0, 0)
    PROVE  Asked' /\ Agrees'
<1> DEFINE k == <<name, c>>
           p == memory[k]
<1>1. k \in Key /\ TypeOK /\ log \in Seq(Entry)
    BY DEF Key, Kept, TypeOK, Entry
<1>2. CASE ShouldQueryHuman(c, p, 0, 0)
    <2>1. log' = Append(log, Row(k, seen, 0, 0, "none")) /\ AskHuman(k, Len(log'))
        BY <1>2 DEF Stage3
    <2>2. session' = [key |-> k, row |-> Len(log'), held |-> 0]
        BY <2>1 DEF AskHuman
    <2> HIDE DEF k
    <2> QED
        BY <1>1, <2>1, <2>2, NewRowAgrees
<1>3. CASE ~ShouldQueryHuman(c, p, 0, 0)
    <2>1. log' = Append(log, Row(k, seen, 0, 0, p.dest)) /\ session' = session
        BY <1>3 DEF Stage3
    <2>2. p \in Policy
        BY <1>1, <1>3 DEF TypeOK, ShouldQueryHuman
    <2>3. p.dest \in Boxes
        BY <1>3, <2>2, DoubtAsks
    <2> HIDE DEF k, p
    <2> QED
        BY <1>1, <2>1, <2>3, NewRowAgrees
<1> QED
    BY <1>2, <1>3

LEMMA DecideAgrees ==
    ASSUME Kept, Asked, Agrees, NEW v \in Sights, Decide(v)
    PROVE  Asked' /\ Agrees'
<1>1. session = NoSession /\ TypeOK /\ log \in Seq(Entry) /\ UNCHANGED <<memory, pooling, mixed>>
    BY DEF Decide, Free, Kept, TypeOK, Entry
<1>2. v \in Sight /\ v.name \in Name
    BY PolicyAssumption DEF Sight, Name
<1>3. Candidates(v) \in Seq(Condition) /\ Candidates(v) # <<>> /\ Len(Candidates(v)) <= 3
    BY <1>2, CandidatesAre
<1>4. Head(Candidates(v)) \in Condition /\ Matching(v.name, Candidates(v)) \in Condition
    BY <1>3, MatchingIs
<1> DEFINE seen == <<v.name, Head(Candidates(v))>>
<1>5. seen \in Key
    BY <1>2, <1>4 DEF Key
<1>6. CongestionN = 0 /\ CongestionTau = 0
    BY <1>1, NowIsNothing DEF Kept, Backlog
<1>7. \/ log' = Append(log, Row(seen, seen, 0, 0, "none")) /\ AskHuman(seen, Len(log'))
      \/ Stage3(v.name, Matching(v.name, Candidates(v)), seen, 0, 0)
    BY <1>6 DEF Decide
<1> HIDE DEF seen
<1>8. CASE log' = Append(log, Row(seen, seen, 0, 0, "none")) /\ AskHuman(seen, Len(log'))
    <2>1. session' = [key |-> seen, row |-> Len(log'), held |-> 0]
        BY <1>1, <1>8 DEF AskHuman
    <2> QED
        BY <1>1, <1>5, <1>8, <2>1, NewRowAgrees
<1>9. CASE Stage3(v.name, Matching(v.name, Candidates(v)), seen, 0, 0)
    BY <1>1, <1>2, <1>4, <1>5, <1>9, Stage3Agrees
<1> QED
    BY <1>7, <1>8, <1>9

LEMMA IdentifiedAgrees ==
    ASSUME Kept, Asked, Agrees, Identified
    PROVE  Asked' /\ Agrees'
<1>1. session = NoSession /\ hand.n = 0 /\ hand.tau = 0 /\ UNCHANGED <<memory, pooling, mixed>>
    BY DEF Identified, Backlog, Kept
<1>2. PICK name \in Object \cup {Unidentified} :
          Stage3(name, "unknown", <<name, "unknown">>, hand.n, hand.tau)
    BY DEF Identified
<1>3. name \in Name /\ "unknown" \in Condition /\ <<name, "unknown">> \in Key
    BY DEF Name, Condition, Key
<1> QED
    BY <1>1, <1>2, <1>3, Stage3Agrees

(* An answer changes the policy of its own key, as its label does in the   *)
(* replay.                                                                 *)
LEMMA AnswerKeepsAgreed ==
    ASSUME Kept, Asked, Agrees, NEW d \in Boxes, Answer(d)
    PROVE  Asked' /\ Agrees'
<1> DEFINE key == session.key
           row == [LastRow EXCEPT !.answer = d]
<1>1. /\ session # NoSession /\ memory' = Learned(memory, key, d)
      /\ log' = [log EXCEPT ![session.row].answer = d]
      /\ pooling' = pooling /\ mixed' = mixed
    BY DEF Answer
<1>2. PolicyPart /\ WorkPart /\ Backlog /\ session \in Session /\ d \in Destination
    BY <1>1, KeptIs DEF WorkPart, Destination
<1>3. session' = NoSession
    BY <1>2, AdvanceEmpties DEF Answer, Backlog
<1>4. /\ log \in Seq(Entry) /\ memory \in Memory
      /\ Len(log) > 0 /\ session.row = Len(log) /\ LastRow.key = key /\ LastRow.answer = "none"
      /\ LastRow.n = 0 /\ LastRow.tau = 0
    BY <1>1, <1>2 DEF Asked, WorkPart, PolicyPart
<1>5. row \in Entry /\ row.key = key /\ row.n = 0 /\ row.tau = 0
    <2>1. LastRow \in Entry
        BY <1>4 DEF LastRow
    <2> QED
        BY <1>4, <2>1 DEF Entry
<1>6. key \in Key /\ \A l \in Key \ {key} : memory'[l] = memory[l]
    BY <1>1, <1>2, AnsweredIs
<1>7. \A k : Replay(log', k) = IF key = k THEN ReplayStep(Replay(log, k), row, d)
                               ELSE Replay(log, k)
    BY <1>1, <1>4, AnsweredRow
<1> HIDE DEF row, key
<1>8. ASSUME ~pooling', NEW k \in Key, k \notin mixed'
      PROVE  Same(Replay(log', k), memory'[k])
    <2>1. Same(Replay(log, k), memory[k]) /\ ~pooling
        BY <1>1, <1>8 DEF Agrees
    <2>2. CASE k # key
        BY <1>6, <1>7, <2>1, <2>2
    <2>3. CASE k = key
        <3>1. Replay(log, k) \in SimState
            BY <1>4, AnswersLabel
        <3>2. Same(ReplayStep(Replay(log, k), row, d), Learned(memory, row.key, d)[row.key])
            BY <1>4, <1>5, <2>1, <2>3, <3>1, AnswerAgrees
        <3> QED
            BY <1>1, <1>5, <1>7, <2>3, <3>2
    <2> QED
        BY <2>2, <2>3
<1>9. Agrees'
    BY <1>8 DEF Agrees
<1> QED
    BY <1>3, <1>9 DEF Asked

LEMMA StepAgrees ==
    ASSUME Kept, Asked, Agrees, [Next]_vars
    PROVE  Asked' /\ Agrees'
<1>1. /\ memory \in Memory /\ pending = <<>> /\ mixed \subseteq Key /\ log \in Seq(Entry)
      /\ session \in Session \cup {NoSession}
    BY DEF Kept, TypeOK, Memory, Backlog, Entry
<1>2. CASE UNCHANGED vars
    BY <1>2, SameLog DEF vars, Asked, Agrees, LastRow
<1>3. ASSUME NEW v \in Sights, Decide(v) PROVE Asked' /\ Agrees'
    BY <1>3, DecideAgrees
<1>4. ASSUME NEW v \in Sights, BeginIdentify(v) PROVE Asked' /\ Agrees'
    BY <1>4, SameLog DEF BeginIdentify, Free
<1>5. CASE Identified
    BY <1>5, IdentifiedAgrees
<1>6. CASE Wait
    <2>1. session' = [session EXCEPT !.held = @ + 1] /\ session \in Session
        BY <1>1, <1>6 DEF Wait
    <2>2. session'.key = session.key /\ session'.row = session.row
        BY <2>1 DEF Session
    <2> QED
        BY <1>6, <2>2, SameLog DEF Wait
<1>7. CASE Postpone
    <2>1. session' = NoSession
        BY <1>1, <1>7, AdvanceEmpties DEF Postpone
    <2> QED
        BY <1>7, <2>1, SameLog DEF Postpone
<1>8. ASSUME NEW d \in Box, Answer(d) PROVE Asked' /\ Agrees'
    <2>1. d \in Boxes
        BY PolicyAssumption
    <2> QED
        BY <1>8, <2>1, AnswerKeepsAgreed
<1>9. ASSUME NEW d \in Forced, ForceReset(d) PROVE Asked' /\ Agrees'
    <2> DEFINE key == session.key
    <2>1. d \in Destination /\ session \in Session /\ PolicyPart
        BY <1>1, <1>9, KeptIs, PolicyAssumption DEF ForceReset, Destination
    <2>2. \A l \in Key \ {key} : memory'[l] = memory[l]
        BY <1>9, <2>1, AnsweredIs DEF ForceReset
    <2>3. session' = NoSession
        BY <1>1, <1>9, AdvanceEmpties DEF ForceReset
    <2>4. mixed' = mixed \cup {key} /\ UNCHANGED <<log, pooling>>
        BY <1>9 DEF ForceReset
    <2> HIDE DEF key
    <2> QED
        BY <2>2, <2>3, <2>4, SameLog
<1>10. ASSUME NEW r \in Rules, Order(r[1], r[2]) PROVE Asked' /\ Agrees'
    <2> DEFINE k == r[1]
    <2>1. k \in Key /\ r[2] \in Destination
        BY PolicyAssumption DEF Destination
    <2>2. /\ memory' = Upserted(memory, k, r[2]) /\ mixed' = mixed \cup {k}
          /\ UNCHANGED <<session, log, pooling>>
        BY <1>10 DEF Order
    <2> HIDE DEF k
    <2>3. \A l \in Key \ mixed' : memory'[l] = memory[l]
        BY <1>1, <2>1, <2>2, UpsertedIs
    <2> QED
        BY <2>2, <2>3, SameLog
<1>11. ASSUME NEW k \in Key, DeletePolicy(k) PROVE Asked' /\ Agrees'
    <2>1. /\ memory' = [memory EXCEPT ![k] = NoPolicy] /\ mixed' = mixed \cup {k}
          /\ UNCHANGED <<session, log, pooling>>
        BY <1>11 DEF DeletePolicy
    <2>2. \A l \in Key \ mixed' : memory'[l] = memory[l]
        BY <1>1, <2>1 DEF Memory
    <2> QED
        BY <2>1, <2>2, SameLog
<1>12. CASE ResetAllPolicies
    BY <1>1, <1>12, SameLog DEF ResetAllPolicies
<1>13. CASE Restart
    <2>1. \/ memory' = memory /\ mixed' = mixed
          \/ mixed' = Key
        BY <1>13 DEF Restart
    <2>2. session' = NoSession /\ UNCHANGED <<log, pooling>>
        BY <1>13 DEF Restart
    <2> QED
        BY <1>1, <2>1, <2>2, SameLog
<1> QED
    BY <1>2, <1>3, <1>4, <1>5, <1>6, <1>7, <1>8, <1>9, <1>10, <1>11, <1>12, <1>13 DEF Next

(* Labels that say what was answered make the replay that of the answers,  *)
(* whatever other rows say.                                                *)
LEMMA AgreesIsReproduced ==
    ASSUME log \in Seq(Entry), memory \in Memory, Agrees
    PROVE  ReplayReproduces
<1>1. SUFFICES ASSUME ~pooling, NEW k \in Key \ mixed, NEW label \in Labelings(k)
               PROVE  /\ Replayed(k, label).dest = memory[k].dest
                      /\ Counts(Replayed(k, label)) = Counts(memory[k])
    BY DEF ReplayReproduces
<1> DEFINE box == [i \in DOMAIN label |-> Correct(label[i])]
           mine == {i \in DOMAIN log : log[i].key = k}
<1>2. DOMAIN label = mine /\ \A i \in mine : Correct(label[i]) = log[i].answer
    BY DEF Labelings
<1>3. \A i \in mine : box[i] = log[i].answer /\ Answers(log)[i] = log[i].answer
    BY <1>2 DEF Answers
<1>4. /\ DOMAIN log = 1..Len(log)
      /\ \A i \in 1..Len(log) : log[i].answer \in Boxes \cup {"none"}
    <2>1. \A i \in 1..Len(log) : log[i] \in Entry
        OBVIOUS
    <2> QED
        BY <2>1 DEF Entry
<1> HIDE DEF box
<1>5. Labelled(log, k, box)
    BY <1>3, <1>4 DEF Labelled
<1>6. Share(log, box, log, Answers(log), k)
    BY <1>3, <1>4 DEF Share, RowStep
<1>7. Simulated(log, k, box) = Simulated(log, k, Answers(log))
    BY <1>5, <1>6, SimulatedShared, AnswersLabel
<1>8. Replayed(k, label) = Replay(log, k)
    BY <1>7 DEF Replayed, Replay, box
<1>9. Same(Replay(log, k), memory[k])
    BY <1>1 DEF Agrees
<1> QED
    BY <1>8, <1>9 DEF Same, Counts
---------------------------------------------------------------------------
(* The theorems                                                            *)

(* Type correctness: among the types, that every policy has positive       *)
(* counts and every row of the log a destination it could be sent to.      *)
THEOREM TypeCorrect == Spec => []TypeOK
<1>1. Init => Kept
    BY InitKept
<1>2. Kept => TypeOK
    BY DEF Kept
<1> QED
    BY <1>1, <1>2, StepKept, PTL DEF Spec

(* No policy is kept against its own counts, whatever is ordered, deleted, *)
(* forced or pooled                                                        *)
(* (bayesian_policy.py:305).                                               *)
THEOREM AlwaysBalanced == Spec => []Balanced
<1>1. Init => Kept
    BY InitKept
<1>2. Kept => Balanced
    BY DEF Kept
<1> QED
    BY <1>1, <1>2, StepKept, PTL DEF Spec

(* Every answer is in the log with the counts it found and those it left,  *)
(* and the rows of a key that learned from answers alone lead without a    *)
(* gap from its prior to what is stored (hitl_state_machine.py:474).       *)
THEOREM AlwaysTrail == Spec => []AuditTrail
<1>1. Init => Kept /\ AuditTrail
    BY InitKept, InitTrail
<1>2. Kept /\ AuditTrail /\ [Next]_vars => Kept' /\ AuditTrail'
    BY StepKept, StepTrail
<1> QED
    BY <1>1, <1>2, PTL DEF Spec

(* Where the questions are labelled with what was answered and priors are  *)
(* not pooled, the replay of the log comes to the policy and the counts    *)
(* the answers left, for every key that learned from answers alone         *)
(* (replay_session.py:28).                                                 *)
THEOREM ReplayIsTrue == Spec => []ReplayReproduces
<1>1. Init => Kept /\ Asked /\ Agrees
    BY InitKept, InitAgrees
<1>2. Kept /\ Asked /\ Agrees /\ [Next]_vars => Kept' /\ Asked' /\ Agrees'
    BY StepKept, StepAgrees
<1>3. Kept /\ Asked /\ Agrees => ReplayReproduces
    BY KeptIs, AgreesIsReproduced DEF PolicyPart, WorkPart
<1> QED
    BY <1>1, <1>2, <1>3, PTL DEF Spec

(* What is executed without a question is what an order said, or the table *)
(* was filled with: there is no number of answers after which a learned    *)
(* policy is (human_query_gate.py:111).                                    *)
THEOREM OnlyOrdersExecuted == Spec => [][OnlyOrders]_vars
<1>1. Init => Kept
    BY InitKept
<1>2. Kept /\ [Next]_vars => Kept' /\ [OnlyOrders]_vars
    BY StepKept
<1> QED
    BY <1>1, <1>2, PTL DEF Spec
=============================================================================
