-------------------------- MODULE MicrophoneProofs --------------------------
(* What holds of Microphone for any finite set of questions and any bounds *)
(* on what is spoken and pressed.                                          *)
(*                                                                         *)
(* The invariant says of each user what its place in the lock is: a user   *)
(* in the queue waits, and is there once (Queued); the one that holds the  *)
(* lock is in that part of its code that holds it (Holding); a recording   *)
(* somebody waits for is that of the holder (OneAwaited), at the point     *)
(* where it records (Recording).  A cancelled task is taken out of all     *)
(* three at once, which is what Cancel is for.                             *)
EXTENDS Microphone, SequenceTheorems, FiniteSetTheorems, TLAPS

---------------------------------------------------------------------------
(* The queue of the lock                                                   *)

(* Taking a user out of a queue in which nobody is twice *)
LEMMA RemoveFirstIs ==
    ASSUME NEW s \in Seq(User), IsInjective(s), NEW u
    PROVE  /\ RemoveFirst(s, u) \in Seq(User) /\ IsInjective(RemoveFirst(s, u))
           /\ Range(RemoveFirst(s, u)) \subseteq Range(s) \ {u}
<1> DEFINE I == {i \in 1..Len(s) : s[i] = u}
           n == Len(s)
<1>0. n \in Nat /\ DOMAIN s = 1..n /\ \A i \in 1..n : s[i] \in User
    BY ElementOfSeq, LenProperties
<1>1. CASE \E i \in 1..Len(s) : s[i] = u
    <2>1. PICK i \in 1..n : s[i] = u
        BY <1>1
    <2>2. I = {i}
        BY <1>0, <2>1 DEF IsInjective
    <2>3. Min(I) = i
        <3>1. \A x : x \in I <=> x = i
            BY <2>2
        <3> HIDE DEF I
        <3>2. i <= i
            BY <1>0, <2>1
        <3>3. i \in I /\ \A y \in I : i <= y
            <4>1. i \in I
                BY <3>1
            <4>2. ASSUME NEW y \in I PROVE i <= y
                BY <3>1, <3>2, Zenon
            <4> QED
                BY <4>1, <4>2
        <3>4. Min(I) \in I
            BY <3>3, Zenon DEF Min
        <3> QED
            BY <3>1, <3>4
    <2>4. SelectInSeq(s, LAMBDA v : v = u) = i
        BY <2>2, <2>3 DEF SelectInSeq
    <2> DEFINE a == SubSeq(s, 1, i - 1)
               b == SubSeq(s, i + 1, n)
               t == a \o b
    <2>5. RemoveFirst(s, u) = t
        BY <1>1, <2>4 DEF RemoveFirst, RemoveAt
    <2>6. /\ a \in Seq(User) /\ Len(a) = i - 1
          /\ \A j \in 1..(i - 1) : a[j] = s[j]
        BY <1>0, <2>1, SubSeqProperties
    <2>7. /\ b \in Seq(User) /\ Len(b) = n - i
          /\ \A j \in 1..(n - i) : b[j] = s[j + i]
        <3>1. \A j \in (i + 1)..n : s[j] \in User
            BY <1>0, <2>1
        <3>2. /\ b \in Seq(User) /\ Len(b) = IF i + 1 <= n THEN n - (i + 1) + 1 ELSE 0
              /\ \A j \in 1..(n - (i + 1) + 1) : b[j] = s[(i + 1) + j - 1]
            BY <1>0, <2>1, <3>1, SubSeqProperties
        <3> HIDE DEF b, n
        <3>3. ASSUME NEW j \in 1..(n - i) PROVE b[j] = s[j + i]
            <4>1. j \in 1..(n - (i + 1) + 1) /\ (i + 1) + j - 1 = j + i
                BY <1>0, <2>1
            <4> QED
                BY <3>2, <4>1
        <3>4. Len(b) = n - i
            BY <1>0, <2>1, <3>2
        <3> QED
            BY <3>2, <3>3, <3>4
    <2> HIDE DEF a, b, n
    <2>8. /\ t \in Seq(User) /\ Len(t) = Len(a) + Len(b)
          /\ \A j \in 1..(Len(a) + Len(b)) : t[j] = IF j <= Len(a) THEN a[j] ELSE b[j - Len(a)]
        BY <2>6, <2>7, ConcatProperties
    <2> HIDE DEF t
    <2>9. DOMAIN t = 1..(n - 1) /\ \A j \in 1..(n - 1) : t[j] = IF j < i THEN s[j] ELSE s[j + 1]
        <3>1. DOMAIN t = 1..(n - 1)
            BY <1>0, <2>1, <2>6, <2>7, <2>8
        <3>2. ASSUME NEW j \in 1..(n - 1), j < i PROVE t[j] = s[j]
            BY <1>0, <2>1, <2>6, <2>7, <2>8, <3>2
        <3>3. ASSUME NEW j \in 1..(n - 1), ~(j < i) PROVE t[j] = s[j + 1]
            <4>1. t[j] = b[j - (i - 1)]
                BY <1>0, <2>1, <2>6, <2>7, <2>8, <3>3
            <4>2. j - (i - 1) \in 1..(n - i)
                BY <1>0, <2>1, <3>3
            <4> QED
                BY <1>0, <2>1, <2>7, <4>1, <4>2
        <3> QED
            BY <3>1, <3>2, <3>3
    <2>10. IsInjective(t)
        <3> SUFFICES ASSUME NEW j \in 1..(n - 1), NEW k \in 1..(n - 1), t[j] = t[k] PROVE j = k
            BY <2>9 DEF IsInjective
        <3>1. \A x, y \in 1..n : s[x] = s[y] => x = y
            BY <1>0 DEF IsInjective
        <3> DEFINE f(x) == IF x < i THEN x ELSE x + 1
        <3>2. f(j) \in 1..n /\ f(k) \in 1..n /\ t[j] = s[f(j)] /\ t[k] = s[f(k)]
            BY <1>0, <2>1, <2>9
        <3>3. f(j) = f(k)
            BY <3>1, <3>2
        <3> QED
            BY <1>0, <2>1, <3>3
    <2>11. \A j \in 1..(n - 1) : t[j] # u /\ \E k \in 1..n : t[j] = s[k]
        BY <1>0, <2>1, <2>9 DEF IsInjective
    <2> QED
        <3>1. t \in Seq(User)
            BY <2>8
        <3>2. Range(t) \subseteq Range(s) \ {u}
            BY <1>0, <2>9, <2>11 DEF Range, n
        <3> QED
            BY <2>5, <2>10, <3>1, <3>2
<1>2. CASE ~\E i \in 1..Len(s) : s[i] = u
    BY <1>0, <1>2 DEF RemoveFirst, Range
<1> QED
    BY <1>1, <1>2

(* A user that is not in the queue joins it *)
LEMMA AppendIs ==
    ASSUME NEW s \in Seq(User), IsInjective(s), NEW u \in User, u \notin Range(s)
    PROVE  /\ Append(s, u) \in Seq(User) /\ IsInjective(Append(s, u))
           /\ Range(Append(s, u)) = Range(s) \cup {u}
<1> DEFINE t == Append(s, u)
           n == Len(s)
<1>1. n \in Nat /\ DOMAIN s = 1..n
    BY LenProperties
<1>2. /\ t \in Seq(User) /\ Len(t) = n + 1 /\ \A i \in 1..n : t[i] = s[i]
      /\ t[n + 1] = u
    BY AppendProperties
<1>3. DOMAIN t = 1..(n + 1)
    BY <1>2, LenProperties
<1> HIDE DEF t, n
<1>4. IsInjective(t)
    <2> SUFFICES ASSUME NEW i \in 1..(n + 1), NEW j \in 1..(n + 1), t[i] = t[j] PROVE i = j
        BY <1>3 DEF IsInjective
    <2>1. \A k \in 1..n : s[k] # u
        BY <1>1 DEF Range
    <2>2. (i \in 1..n \/ i = n + 1) /\ (j \in 1..n \/ j = n + 1)
        BY <1>1
    <2> QED
        BY <1>1, <1>2, <2>1, <2>2 DEF IsInjective
<1>5. Range(t) = Range(s) \cup {u}
    <2>1. \A i \in 1..(n + 1) : i \in 1..n \/ i = n + 1
        BY <1>1
    <2>2. \A i \in 1..n : i \in 1..(n + 1)
        BY <1>1
    <2>3. n + 1 \in 1..(n + 1)
        BY <1>1
    <2> QED
        BY <1>1, <1>2, <1>3, <2>1, <2>2, <2>3 DEF Range
<1> QED
    BY <1>2, <1>4, <1>5 DEF t

(* The first of the queue leaves it *)
LEMMA TailIs ==
    ASSUME NEW s \in Seq(User), IsInjective(s), s # <<>>
    PROVE  /\ Tail(s) \in Seq(User) /\ IsInjective(Tail(s)) /\ Head(s) \in Range(s)
           /\ Range(Tail(s)) \subseteq Range(s) \ {Head(s)}
<1> DEFINE t == Tail(s)
           n == Len(s)
<1>1. n \in Nat \ {0} /\ DOMAIN s = 1..n /\ Head(s) = s[1]
    BY LenProperties, EmptySeq, HeadTailProperties
<1>2. /\ t \in Seq(User) /\ Len(t) = n - 1 /\ \A i \in 1..(n - 1) : t[i] = s[i + 1]
    BY HeadTailProperties
<1>3. DOMAIN t = 1..(n - 1)
    BY <1>2, LenProperties
<1> HIDE DEF t, n
<1>4. \A i \in 1..(n - 1) : i + 1 \in 1..n /\ i + 1 # 1
    BY <1>1
<1>5. 1 \in 1..n
    BY <1>1
<1> DEFINE once == \A a, b \in 1..n : s[a] = s[b] => a = b
<1>once. once
    BY <1>1 DEF IsInjective
<1>6. IsInjective(t)
    <2> SUFFICES ASSUME NEW i \in 1..(n - 1), NEW j \in 1..(n - 1), t[i] = t[j] PROVE i = j
        BY <1>3 DEF IsInjective
    <2>1. s[i + 1] = s[j + 1]
        BY <1>2
    <2>2. i + 1 \in 1..n /\ j + 1 \in 1..n
        BY <1>4
    <2>3. i + 1 = j + 1
        BY <1>once, <2>1, <2>2
    <2> QED
        BY <1>1, <2>3
<1>7. ASSUME NEW i \in 1..(n - 1) PROVE t[i] \in Range(s) \ {Head(s)}
    <2>1. t[i] = s[i + 1] /\ i + 1 \in 1..n /\ i + 1 # 1
        BY <1>2, <1>4
    <2>2. s[i + 1] # s[1]
        BY <1>5, <1>once, <2>1
    <2> QED
        BY <1>1, <2>1, <2>2 DEF Range
<1>8. Head(s) \in Range(s)
    BY <1>1, <1>5 DEF Range
<1>9. Range(t) \subseteq Range(s) \ {Head(s)}
    BY <1>3, <1>7 DEF Range
<1> QED
    BY <1>2, <1>6, <1>8, <1>9 DEF t

(* Each user waits once, so there are no more in the queue than users. *)
LEMMA QueueFits ==
    ASSUME NEW s \in Seq(User), IsInjective(s)
    PROVE  Len(s) <= Cardinality(User)
<1>1. IsFiniteSet(User)
    <2>1. IsFiniteSet({"wake"} \cup {"push"})
        BY FS_Singleton, FS_Union
    <2>2. Command = {"wake"} \cup {"push"}
        BY DEF Command
    <2> QED
        BY <2>1, <2>2, FS_Union, MicrophoneAssumption DEF User
<1>2. Len(s) \in Nat /\ s \in [1..Len(s) -> User]
    BY LenProperties
<1>3. s \in Injection(1..Len(s), User)
    BY <1>2 DEF Injection
<1>4. Cardinality(1..Len(s)) <= Cardinality(User)
    BY <1>1, <1>3, FS_Injection
<1>5. Cardinality(1..Len(s)) = Len(s)
    BY <1>2, FS_Interval
<1> QED
    BY <1>4, <1>5
---------------------------------------------------------------------------
(* The invariant                                                           *)

(* The types, the length of the queue left aside *)
Typed ==
    /\ holder \in User \cup {"none"}
    /\ waiters \in Seq(User) /\ IsInjective(waiters)
    /\ ear \in {"polling", "opening", "reading", "calling", "stopped"}
    /\ command \in [Command -> {"none", "waiting", "greeting", "recording", "replying", "applying"}]
    /\ question \in [Question -> {"none", "speaking", "listening", "answered", "over"}]
    /\ current \in Question \cup {None} /\ tries \in [Question -> 0..MaxTries]
    /\ awaited \subseteq User /\ abandoned \in Nat
    /\ wakes \in 0..MaxWakes /\ pushes \in 0..MaxPushes /\ failures \in 0..MaxFailures

(* Who is in the queue waits there *)
Queued ==
    \A u \in Range(waiters) :
        /\ u # holder
        /\ u \in Command => command[u] = "waiting"
        /\ u \in Question => question[u] = "listening"

(* A spoken rule is past its waiting exactly while it holds the lock; a    *)
(* question holds it while it records                                      *)
Holding ==
    /\ \A c \in Command : holder = c <=> command[c] \notin {"none", "waiting"}
    /\ holder \in Question => holder \in awaited

(* Who records is at the point of its code where it does *)
Recording ==
    \A u \in awaited :
        /\ u \in Command => command[u] = "recording"
        /\ u \in Question => question[u] = "listening"

(* The listener waits for the command it has started, and an attempt is    *)
(* left while a question is not over                                       *)
Driven ==
    /\ command["wake"] # "none" => ear = "calling"
    /\ \A q \in Question : question[q] # "over" => tries[q] < MaxTries

IInv == Typed /\ Queued /\ Holding /\ Recording /\ OneAwaited /\ Driven
(* The names of the users, and of nobody *)
LEMMA Names == /\ "none" \notin User /\ Question \cap Command = {}
               /\ "wake" \in Command /\ "push" \in Command
               /\ Question \subseteq User /\ Command \subseteq User
               /\ MaxTries \in Nat \ {0} /\ MaxWakes \in Nat /\ MaxPushes \in Nat
               /\ MaxFailures \in Nat
    BY MicrophoneAssumption DEF User, Command

(* In the queue there are users *)
LEMMA OfUsers == ASSUME Typed PROVE Range(waiters) \subseteq User
<1>1. DOMAIN waiters = 1..Len(waiters) /\ \A i \in 1..Len(waiters) : waiters[i] \in User
    BY ElementOfSeq, LenProperties DEF Typed
<1> QED
    BY <1>1 DEF Range

(* A cancelled user is nowhere in the lock *)
LEMMA Cancelled ==
    ASSUME Typed, OneAwaited, NEW u \in User, Cancel(u)
    PROVE  /\ waiters' \in Seq(User) /\ IsInjective(waiters')
           /\ Range(waiters') \subseteq Range(waiters) \ {u}
           /\ holder' = (IF holder = u THEN "none" ELSE holder)
           /\ awaited' = awaited \ {u} /\ awaited' \subseteq {holder'}
           /\ abandoned' \in Nat
<1>1. waiters' = RemoveFirst(waiters, u) /\ waiters \in Seq(User) /\ IsInjective(waiters)
    BY DEF Typed, Cancel
<1>2. /\ waiters' \in Seq(User) /\ IsInjective(waiters')
      /\ Range(waiters') \subseteq Range(waiters) \ {u}
    BY <1>1, RemoveFirstIs
<1>3. /\ holder' = (IF holder = u THEN "none" ELSE holder)
      /\ awaited' = awaited \ {u} /\ abandoned' \in Nat
    BY DEF Cancel, Release, Typed
<1> QED
    BY <1>2, <1>3 DEF OneAwaited

(* A user that joins the queue *)
LEMMA Joined ==
    ASSUME Typed, NEW u \in User, u \notin Range(waiters), waiters' = Append(waiters, u)
    PROVE  /\ waiters' \in Seq(User) /\ IsInjective(waiters')
           /\ Range(waiters') = Range(waiters) \cup {u}
<1>1. waiters \in Seq(User) /\ IsInjective(waiters)
    BY DEF Typed
<1> QED
    BY <1>1, AppendIs

(* Init makes it true *)
LEMMA InitInv == ASSUME Init PROVE IInv
<1>1. <<>> \in Seq(User) /\ IsInjective(<<>>) /\ Range(<<>>) = {}
    BY EmptySeq DEF IsInjective, Range
<1> QED
    BY <1>1, Names DEF Init, IInv, Typed, Queued, Holding, Recording, OneAwaited, Driven, Command

(* Every step keeps it: first those of the lock *)
LEMMA LockKeeps == ASSUME IInv, Grant \/ AbandonedEnds PROVE IInv'
<1> USE Names DEF IInv
<1>1. ASSUME Grant PROVE IInv'
    <2> DEFINE h == Head(waiters)
    <2>w. /\ waiters' \in Seq(User) /\ IsInjective(waiters') /\ h \in Range(waiters)
          /\ Range(waiters') \subseteq Range(waiters) \ {h}
        BY <1>1, TailIs DEF Typed, Grant
    <2>h. h \in User /\ holder' = h /\ holder = "none" /\ awaited = {}
        BY <1>1, HeadTailProperties DEF Typed, OneAwaited, Grant
    <2> HIDE DEF h
    <2>c. ASSUME h \in Command PROVE Queued' /\ Holding' /\ Driven'
        <3>1. /\ command[h] = "waiting" /\ command' = [command EXCEPT ![h] = "greeting"]
              /\ UNCHANGED <<awaited, ear, question, tries>>
            BY <1>1, <2>c, <2>w DEF Grant, Queued, h, askVars
        <3>2. \A c \in Command : command'[c] = IF c = h THEN "greeting" ELSE command[c]
            BY <3>1 DEF Typed
        <3> QED
            BY <2>c, <2>w, <2>h, <3>1, <3>2 DEF Queued, Holding, Driven
    <2>q. ASSUME h \notin Command PROVE Queued' /\ Holding' /\ Driven'
        <3>1. /\ question[h] = "listening" /\ h \in Question /\ awaited' = {h}
              /\ UNCHANGED <<command, ear, question, tries>>
            BY <1>1, <2>q, <2>w, <2>h DEF Grant, Queued, h, askVars, User
        <3> QED
            BY <2>q, <2>w, <2>h, <3>1 DEF Queued, Holding, Driven
    <2>1. Queued' /\ Holding' /\ Driven'
        BY <2>c, <2>q
    <2>2. Typed'
        BY <1>1, <2>w, <2>h, <2>c, <2>q
           DEF Grant, lockVars, askVars, countVars, Typed, OneAwaited
    <2>3. Recording' /\ OneAwaited'
        BY <1>1, <2>w, <2>h, <2>c, <2>q
           DEF Grant, askVars, Typed, Queued, Recording, Holding, OneAwaited
    <2> QED
        BY <2>1, <2>2, <2>3
<1>2. ASSUME AbandonedEnds PROVE IInv'
    BY <1>2 DEF AbandonedEnds, lockVars, askVars, countVars, Typed, Queued, Holding, Recording,
                OneAwaited, Driven
<1> QED
    BY <1>1, <1>2

(* those of the listener *)
LEMMA EarKeeps ==
    ASSUME IInv, \/ EarPolls \/ EarOpens \/ EarLetsGo \/ EarWakes \/ EarReturns \/ EarStops
    PROVE  IInv'
<1> USE Names DEF IInv, lockVars, askVars, countVars, Typed, Queued, Holding, Recording,
                  OneAwaited, Driven, Command
<1>1. CASE EarPolls
    BY <1>1 DEF EarPolls
<1>2. CASE EarOpens
    BY <1>2 DEF EarOpens
<1>3. CASE EarLetsGo
    BY <1>3 DEF EarLetsGo
<1>4. CASE EarWakes
    <2>1. "wake" \in User /\ "wake" \notin Range(waiters) /\ "wake" # holder
        BY <1>4 DEF EarWakes
    <2>2. /\ waiters' \in Seq(User) /\ IsInjective(waiters')
          /\ Range(waiters') = Range(waiters) \cup {"wake"}
        BY <1>4, <2>1, Joined DEF EarWakes
    <2> QED
        BY <1>4, <2>1, <2>2 DEF EarWakes
<1>5. CASE EarReturns
    BY <1>5 DEF EarReturns
<1>6. CASE EarStops
    <2>1. /\ waiters' \in Seq(User) /\ IsInjective(waiters')
          /\ Range(waiters') \subseteq Range(waiters) \ {"wake"}
          /\ holder' = (IF holder = "wake" THEN "none" ELSE holder)
          /\ awaited' = awaited \ {"wake"} /\ awaited' \subseteq {holder'}
          /\ abandoned' \in Nat
        BY <1>6, Cancelled DEF EarStops
    <2> QED
        BY <1>6, <2>1, OfUsers DEF EarStops
<1> QED
    BY <1>1, <1>2, <1>3, <1>4, <1>5, <1>6

(* those of a spoken rule *)
LEMMA CommandKeeps ==
    ASSUME IInv, \/ PushToTalk
                 \/ \E c \in Command : \/ CommandRecords(c) \/ CommandHeard(c)
                                       \/ CommandReplies(c) \/ CommandApplies(c)
    PROVE  IInv'
<1> USE Names DEF IInv, lockVars, askVars, countVars, Typed, Queued, Holding, Recording,
                  OneAwaited, Driven, Command
<1>1. CASE PushToTalk
    <2>1. "push" \in User /\ "push" \notin Range(waiters) /\ "push" # holder
        BY <1>1 DEF PushToTalk
    <2>2. /\ waiters' \in Seq(User) /\ IsInjective(waiters')
          /\ Range(waiters') = Range(waiters) \cup {"push"}
        BY <1>1, <2>1, Joined DEF PushToTalk
    <2> QED
        BY <1>1, <2>1, <2>2 DEF PushToTalk
<1>2. ASSUME NEW c \in Command, CommandRecords(c) PROVE IInv'
    BY <1>2 DEF CommandRecords
<1>3. ASSUME NEW c \in Command, CommandHeard(c) PROVE IInv'
    BY <1>3 DEF CommandHeard
<1>4. ASSUME NEW c \in Command, CommandReplies(c) PROVE IInv'
    BY <1>4, OfUsers DEF CommandReplies, Returns, Release
<1>5. ASSUME NEW c \in Command, CommandApplies(c) PROVE IInv'
    BY <1>5, OfUsers DEF CommandApplies, Returns, Release
<1> QED
    BY <1>1, <1>2, <1>3, <1>4, <1>5

(* and those of a question.  Asking again stays below the limit, because   *)
(* an attempt is left as long as the question is not over. *)
LEMMA AgainTypes ==
    ASSUME IInv, NEW q \in Question, StopListening(q) \/ Interpret(q)
    PROVE  /\ tries' \in [Question -> 0..MaxTries] /\ current' \in Question \cup {None}
           /\ question' \in [Question -> {"none", "speaking", "listening", "answered", "over"}]
<1>1. tries[q] \in 0..MaxTries /\ tries[q] < MaxTries /\ MaxTries \in Nat
    BY MicrophoneAssumption DEF StopListening, Interpret, IInv, Typed, Driven
<1>2. tries[q] + 1 \in 0..MaxTries
    BY <1>1
<1> QED
    BY <1>2 DEF StopListening, Interpret, Again, IInv, Typed

LEMMA QuestionKeeps ==
    ASSUME IInv, \E q \in Question : \/ Ask(q) \/ Listen(q) \/ AnswerRecorded(q)
                                     \/ StopListening(q) \/ AnsweredEarly(q) \/ Interpret(q)
    PROVE  IInv'
<1> USE Names DEF IInv, lockVars, askVars, countVars, Typed, Queued, Holding, Recording,
                  OneAwaited, Driven, Command
<1>1. ASSUME NEW q \in Question, Ask(q) PROVE IInv'
    BY <1>1 DEF Ask
<1>2. ASSUME NEW q \in Question, Listen(q) PROVE IInv'
    <2>1. q \in User /\ q \notin Range(waiters) /\ q # holder
        BY <1>2 DEF Listen
    <2>2. /\ waiters' \in Seq(User) /\ IsInjective(waiters')
          /\ Range(waiters') = Range(waiters) \cup {q}
        BY <1>2, <2>1, Joined DEF Listen
    <2> QED
        BY <1>2, <2>1, <2>2 DEF Listen
<1>3. ASSUME NEW q \in Question, AnswerRecorded(q) PROVE IInv'
    BY <1>3, OfUsers DEF AnswerRecorded, Release
<1>4. ASSUME NEW q \in Question, StopListening(q) PROVE IInv'
    <2>1. /\ waiters' \in Seq(User) /\ IsInjective(waiters')
          /\ Range(waiters') \subseteq Range(waiters) \ {q}
          /\ holder' = (IF holder = q THEN "none" ELSE holder)
          /\ awaited' = awaited \ {q} /\ awaited' \subseteq {holder'}
          /\ abandoned' \in Nat
        BY <1>4, Cancelled DEF StopListening
    <2>2. \A u \in Question : u # q => question'[u] = question[u]
        BY <1>4 DEF StopListening, Again
    <2>3. Typed'
        BY <1>4, <2>1, AgainTypes DEF StopListening
    <2>c. command' = command
        BY <1>4 DEF StopListening
    <2>4. Queued'
        <3>1. \A u \in Range(waiters') : u \in Range(waiters) /\ u # q
            BY <2>1
        <3>2. \A u \in Range(waiters') : u # holder'
            BY <2>1, <3>1, OfUsers
        <3> QED
            BY <2>2, <2>c, <3>1, <3>2
    <2>5. Holding'
        BY <2>1, <2>2, <2>c, OfUsers
    <2>7. Recording'
        BY <1>4, <2>1, <2>2, OfUsers DEF StopListening
    <2>8. OneAwaited'
        BY <2>1
    <2>6. Driven'
        BY <1>4, <2>2, AgainTypes DEF StopListening, Again
    <2> QED
        BY <2>3, <2>4, <2>5, <2>6, <2>7, <2>8
<1>5. ASSUME NEW q \in Question, AnsweredEarly(q) PROVE IInv'
    BY <1>5 DEF AnsweredEarly
<1>6. ASSUME NEW q \in Question, Interpret(q) PROVE IInv'
    BY <1>6, AgainTypes DEF Interpret, Again
<1> QED
    BY <1>1, <1>2, <1>3, <1>4, <1>5, <1>6

LEMMA StepInv == ASSUME IInv, [Next]_vars PROVE IInv'
<1>1. CASE AdminReset
    BY <1>1, Names DEF AdminReset, IInv, lockVars, countVars, Typed, Queued, Holding, Recording,
                       OneAwaited, Driven
<1>2. CASE UNCHANGED vars
    BY <1>2 DEF vars, lockVars, askVars, countVars, IInv, Typed, Queued, Holding, Recording,
                OneAwaited, Driven
<1> QED
    BY <1>1, <1>2, LockKeeps, EarKeeps, CommandKeeps, QuestionKeeps DEF Next

(* The length of the queue follows from its being without repetition. *)
LEMMA InvTypes == ASSUME IInv PROVE TypeOK
<1>1. Len(waiters) <= Cardinality(User)
    BY QueueFits DEF IInv, Typed
<1> QED
    BY <1>1 DEF IInv, Typed, TypeOK

(* The types, for any number of questions, attempts and uses (TypeOK).     *)
THEOREM TypeCorrect == Spec => []TypeOK
<1>1. IInv /\ [Next]_vars => IInv'
    BY StepInv
<1>2. Init => IInv
    BY InitInv
<1>3. IInv => TypeOK
    BY InvTypes
<1> QED
    BY <1>1, <1>2, <1>3, PTL DEF Spec

(* Only the one that holds the microphone waits for what is recorded,      *)
(* whatever is cancelled when (OneAwaited): mic_lock.py:4.                 *)
THEOREM OneIsAwaited == Spec => []OneAwaited
<1>1. IInv /\ [Next]_vars => IInv'
    BY StepInv
<1>2. Init => IInv
    BY InitInv
<1>3. IInv => OneAwaited
    BY DEF IInv
<1> QED
    BY <1>1, <1>2, <1>3, PTL DEF Spec
=============================================================================
