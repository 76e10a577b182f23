--------------------------- MODULE RecursionProofs ---------------------------
(* Induction and recursion for the proofs of the other modules.  The       *)
(* library's induction theorems take an operator as a parameter; these     *)
(* speak of sets and functions only, so that they can be cited.            *)
(*                                                                         *)
(* A property of numbers, or of the subsets of a finite set, is proved by  *)
(* the least of its counterexamples (LeastNat, LeastSet).  A function that *)
(* recurs from m to m - 1 (NatRec), or from a set to the set without one   *)
(* of its elements (SetRec), exists.                                       *)
EXTENDS Integers, FiniteSetTheorems, TLAPS

(* Numbers have a least *)
LEMMA LeastNat ==
  ASSUME NEW T, T \subseteq Nat, T # {}
  PROVE  \E x \in T : \A y \in T : x <= y
<1> DEFINE R == OpToRel(<, Nat)
<1>1. IsWellFoundedOn(R, Nat)
  BY NatLessThanWellFounded
<1>2. \A x, y \in Nat : y < x => <<y,x>> \in R
  BY DEF OpToRel
<1> HIDE DEF R
<1>3. PICK x \in T : \A y \in T : ~ (<<y, x>> \in R)
  BY <1>1, WFMin
<1>4. \A y \in T : x <= y
  <2> TAKE y \in T
  <2>1. x \in Nat /\ y \in Nat
    OBVIOUS
  <2>2. ~ (y < x)
    BY <1>2, <1>3, <2>1
  <2> QED BY <2>1, <2>2
<1> QED BY <1>4

(* and those up to a bound a greatest. *)
LEMMA GreatestNat ==
  ASSUME NEW n \in Nat, NEW T, T \subseteq 0..n, T # {}
  PROVE  \E x \in T : \A y \in T : x >= y
<1> DEFINE U == {u \in Nat : u <= n /\ n - u \in T}
<1>1. U \subseteq Nat /\ U # {}
  <2>1. PICK x \in T : TRUE
    OBVIOUS
  <2>2. x \in 0..n
    BY <2>1
  <2>3. n - x \in Nat /\ n - x <= n /\ n - (n - x) = x
    BY <2>2
  <2>4. n - x \in U
    BY <2>1, <2>3
  <2> QED BY <2>4
<1>2. PICK u \in U : \A v \in U : u <= v
  <2> HIDE DEF U
  <2> QED BY <1>1, LeastNat
<1>3. u \in Nat /\ u <= n /\ n - u \in T
  BY <1>2
<1>4. ASSUME NEW y \in T PROVE n - u >= y
  <2>1. y \in 0..n
    OBVIOUS
  <2>2. n - y \in Nat /\ n - y <= n /\ n - (n - y) = y
    BY <2>1
  <2>3. n - y \in U
    BY <2>2
  <2>4. u <= n - y
    BY <1>2, <2>3
  <2> QED BY <1>3, <2>1, <2>4
<1> QED BY <1>3, <1>4

---------------------------------------------------------------------------
(* Recursion over 1..m: f[i] is step of i and f[i - 1]                     *)
NatRec(f, m, B, base, step) ==
  /\ f \in [0..m -> B]
  /\ f[0] = base
  /\ \A i \in 1..m : f[i] = step[<<i, f[i-1]>>]

(* The recursion that ends at once *)
LEMMA NatRecZero == ASSUME NEW B, NEW base \in B, NEW step
  PROVE NatRec([i \in 0..0 |-> base], 0, B, base, step)
BY DEF NatRec

(* One step more *)
LEMMA NatRecNext ==
  ASSUME NEW n \in Nat, NEW m \in 1..n, NEW B, NEW base \in B,
         NEW step \in [(1..n) \X B -> B], NEW f, NatRec(f, m-1, B, base, step)
  PROVE  NatRec([i \in 0..m |-> IF i = m THEN step[<<m, f[m-1]>>] ELSE f[i]],
                m, B, base, step)
<1> DEFINE g == [i \in 0..m |-> IF i = m THEN step[<<m, f[m-1]>>] ELSE f[i]]
<1>1. f \in [0..(m-1) -> B] /\ f[0] = base /\ \A i \in 1..(m-1) : f[i] = step[<<i, f[i-1]>>]
  BY DEF NatRec
<1>2. f[m-1] \in B
  BY <1>1
<1>3. step[<<m, f[m-1]>>] \in B
  BY <1>2
<1>4. g \in [0..m -> B]
  BY <1>1, <1>3
<1>5. g[0] = base
  BY <1>1
<1>6. \A i \in 1..m : g[i] = step[<<i, g[i-1]>>]
  <2> TAKE i \in 1..m
  <2>1. i-1 \in 0..m /\ i \in 0..m /\ i-1 # m
    OBVIOUS
  <2>2. g[i-1] = f[i-1]
    BY <2>1
  <2>3. CASE i = m
    BY <2>2, <2>3, <2>1
  <2>4. CASE i # m
    BY <2>2, <2>4, <2>1, <1>1
  <2> QED BY <2>3, <2>4
<1> QED BY <1>4, <1>5, <1>6 DEF NatRec

(* The recursion over 1..n has a function *)
LEMMA NatRecExists ==
  ASSUME NEW n \in Nat, NEW B, NEW base \in B, NEW step \in [(1..n) \X B -> B]
  PROVE \E f : NatRec(f, n, B, base, step)
<1> DEFINE T == {m \in 0..n : ~ \E f : NatRec(f, m, B, base, step)}
<1>1. SUFFICES ASSUME T # {} PROVE FALSE
  <2>1. n \in 0..n /\ T = {}
    BY <1>1
  <2> QED BY <2>1
<1>2. T \subseteq Nat
  OBVIOUS
<1>3. PICK m \in T : \A k \in T : m <= k
  <2> HIDE DEF T
  <2> QED BY <1>1, <1>2, LeastNat
<1>4. m = 0 \/ m \in 1..n
  OBVIOUS
<1>5. CASE m = 0
  BY <1>5, NatRecZero
<1>6. CASE m \in 1..n
  <2>1. m - 1 \in 0..n /\ ~ (m <= m-1)
    BY <1>6
  <2>2. \E f : NatRec(f, m-1, B, base, step)
    BY <2>1, <1>3
  <2> QED BY <2>2, <1>6, NatRecNext
<1> QED BY <1>4, <1>5, <1>6
---------------------------------------------------------------------------
(* Subsets of a finite set have a least *)
LEMMA LeastSet ==
  ASSUME NEW S, IsFiniteSet(S), NEW C, C \subseteq SUBSET S, C # {}
  PROVE  \E T \in C : \A U \in C : U \subseteq T => U = T
<1> DEFINE R == StrictSubsetOrdering(S)
<1>1. IsWellFoundedOn(R, SUBSET S)
  BY FS_StrictSubsetOrderingWellFounded, FS_FiniteSubsetsOfFinite
<1>2. \A U, T \in SUBSET S : U \subseteq T /\ U # T => <<U, T>> \in R
  BY DEF StrictSubsetOrdering
<1> HIDE DEF R
<1>3. PICK T \in C : \A U \in C : ~ (<<U, T>> \in R)
  BY <1>1, WFMin
<1> QED BY <1>2, <1>3

(* The element the recursion takes out *)
Chosen(T) == CHOOSE x \in T : TRUE

LEMMA ChosenIn == ASSUME NEW T, T # {} PROVE Chosen(T) \in T
BY DEF Chosen

(* Recursion over the subsets of S *)
SetRec(f, S, B, base, step) ==
  /\ f \in [SUBSET S -> B]
  /\ \A T \in SUBSET S :
       f[T] = IF T = {} THEN base ELSE step[<<Chosen(T), f[T \ {Chosen(T)}]>>]

(* Two such functions agree where both are defined *)
LEMMA SetRecAgree ==
  ASSUME NEW S, IsFiniteSet(S), NEW S2, NEW B, NEW base, NEW step, NEW f, NEW g,
         SetRec(f, S, B, base, step), SetRec(g, S2, B, base, step),
         NEW T0 \in SUBSET (S \cap S2)
  PROVE f[T0] = g[T0]
<1> DEFINE C == {T \in SUBSET (S \cap S2) : f[T] # g[T]}
<1>1. SUFFICES ASSUME C # {} PROVE FALSE
  OBVIOUS
<1>2. C \subseteq SUBSET S
  OBVIOUS
<1>3. PICK T \in C : \A U \in C : U \subseteq T => U = T
  <2> HIDE DEF C
  <2> QED BY <1>1, <1>2, LeastSet
<1>4. T # {}
  BY DEF SetRec
<1>5. Chosen(T) \in T
  BY <1>4, ChosenIn
<1>6. f[T \ {Chosen(T)}] = g[T \ {Chosen(T)}]
  BY <1>3, <1>5
<1> QED BY <1>4, <1>6, <1>3 DEF SetRec

(* The recursion over the subsets of a finite set has a function: put       *)
(* together from those of the sets without one element                      *)
LEMMA SetRecExists ==
  ASSUME NEW S, IsFiniteSet(S), NEW B, NEW base \in B, NEW step \in [S \X B -> B]
  PROVE  \E f : SetRec(f, S, B, base, step)
<1> DEFINE C == {T \in SUBSET S : ~ \E f : SetRec(f, T, B, base, step)}
<1>1. SUFFICES ASSUME C # {} PROVE FALSE
  OBVIOUS
<1>2. PICK T \in C : \A U \in C : U \subseteq T => U = T
  <2>1. C \subseteq SUBSET S
    OBVIOUS
  <2> HIDE DEF C
  <2> QED BY <1>1, <2>1, LeastSet
<1>3. IsFiniteSet(T)
  BY FS_Subset
<1> DEFINE part == [y \in T |-> CHOOSE f : SetRec(f, T \ {y}, B, base, step)]
<1>4. \A y \in T : SetRec(part[y], T \ {y}, B, base, step)
  <2> TAKE y \in T
  <2>1. T \ {y} \notin C /\ T \ {y} \in SUBSET S
    BY <1>2
  <2>2. \E f : SetRec(f, T \ {y}, B, base, step)
    BY <2>1
  <2> QED BY <2>2
<1>5. \A y, z \in T : \A U : U \subseteq T \ {y} /\ U \subseteq T \ {z} => part[y][U] = part[z][U]
  <2> TAKE y, z \in T
  <2> TAKE U
  <2> HAVE U \subseteq T \ {y} /\ U \subseteq T \ {z}
  <2>1. IsFiniteSet(T \ {y}) /\ U \in SUBSET ((T \ {y}) \cap (T \ {z}))
    BY <1>3, FS_Subset
  <2>2. SetRec(part[y], T \ {y}, B, base, step) /\ SetRec(part[z], T \ {z}, B, base, step)
    BY <1>4
  <2> HIDE DEF part, C
  <2> QED BY <2>1, <2>2, SetRecAgree
<1> DEFINE whole == IF T = {} THEN base ELSE step[<<Chosen(T), part[Chosen(T)][T \ {Chosen(T)}]>>]
           f == [U \in SUBSET T |-> IF U = T THEN whole ELSE part[Chosen(T \ U)][U]]
<1>6. \A U \in SUBSET T : \A y \in T : y \notin U => f[U] = part[y][U]
  <2> TAKE U \in SUBSET T
  <2> TAKE y \in T
  <2> HAVE y \notin U
  <2>1. Chosen(T \ U) \in T \ U
    BY ChosenIn
  <2>2. U # T
    OBVIOUS
  <2>3. f[U] = part[Chosen(T \ U)][U]
    BY <2>2
  <2> HIDE DEF f, part
  <2> QED BY <2>1, <2>3, <1>5
<1>7. f[T] = IF T = {} THEN base ELSE step[<<Chosen(T), f[T \ {Chosen(T)}]>>]
  <2>1. CASE T = {}
    BY <2>1
  <2>2. CASE T # {}
    <3>1. Chosen(T) \in T
      BY <2>2, ChosenIn
    <3>2. f[T \ {Chosen(T)}] = part[Chosen(T)][T \ {Chosen(T)}]
      <4> HIDE DEF f, part
      <4> QED BY <3>1, <1>6
    <3>3. f[T] = whole
      OBVIOUS
    <3> HIDE DEF f, part
    <3> QED BY <3>3, <3>2, <2>2
  <2> QED BY <2>1, <2>2
<1>8. \A U \in SUBSET T : U # T =>
        f[U] = IF U = {} THEN base ELSE step[<<Chosen(U), f[U \ {Chosen(U)}]>>]
  <2> TAKE U \in SUBSET T
  <2> HAVE U # T
  <2>1. PICK y \in T : y \notin U
    OBVIOUS
  <2> HIDE DEF f, part
  <2>2. f[U] = part[y][U] /\ U \in SUBSET (T \ {y})
    BY <2>1, <1>6
  <2>3. CASE U = {}
    BY <2>2, <2>3, <1>4 DEF SetRec
  <2>4. CASE U # {}
    <3>1. Chosen(U) \in U
      BY <2>4, ChosenIn
    <3>2. f[U \ {Chosen(U)}] = part[y][U \ {Chosen(U)}]
      BY <2>1, <1>6
    <3>3. part[y][U] = step[<<Chosen(U), part[y][U \ {Chosen(U)}]>>]
      BY <2>2, <2>4, <1>4 DEF SetRec
    <3> QED BY <2>2, <2>4, <3>2, <3>3
  <2> QED BY <2>3, <2>4
<1>9. f \in [SUBSET T -> B]
  <2>1. \A y \in T : \A U : U \subseteq T \ {y} => part[y][U] \in B
    <3> HIDE DEF part, f, whole, C
    <3> QED BY <1>4 DEF SetRec
  <2>2. whole \in B
    <3>1. CASE T = {}
      BY <3>1
    <3>2. CASE T # {}
      <4>1. Chosen(T) \in T
        BY <3>2, ChosenIn
      <4> HIDE DEF part
      <4>2. part[Chosen(T)][T \ {Chosen(T)}] \in B
        BY <4>1, <2>1
      <4> QED BY <4>1, <4>2, <3>2
    <3> QED BY <3>1, <3>2
  <2>3. \A U \in SUBSET T : U # T => part[Chosen(T \ U)][U] \in B
    <3> TAKE U \in SUBSET T
    <3> HAVE U # T
    <3>1. Chosen(T \ U) \in T \ U
      BY ChosenIn
    <3> HIDE DEF part
    <3> QED BY <2>1, <3>1
  <2> HIDE DEF part, whole
  <2> QED BY <2>2, <2>3
<1>10. SetRec(f, T, B, base, step)
  <2> HIDE DEF f
  <2> QED BY <1>7, <1>8, <1>9 DEF SetRec
<1> QED BY <1>10
==============================================================================
