---------------------------- MODULE ConsoleProofs ----------------------------
(* What holds of Console for any other clients, any kinds and number of    *)
(* faults, and any number of stops and uses of the panels.                 *)
(*                                                                         *)
(* The pause button (paused) and the robot (pause) change at different     *)
(* times: the robot when the router handles the call, the button when the  *)
(* screen gets the answer.  The invariant says how they stand to each      *)
(* other in between (Agreed), which rests on there being one such call at  *)
(* a time (OneCall).                                                       *)
(*                                                                         *)
(* The popup follows the question because each of the two tasks sends in   *)
(* turn what its state says (JobFollows), to every client of the list, the *)
(* screen among them (Wired): of a question in the screen's inbox or popup *)
(* the end is still to be told, or comes later in the inbox (Heard).       *)
EXTENDS Console, RecursionProofs, SequenceTheorems, TLAPS

---------------------------------------------------------------------------
CallTypes == calls \in [Call -> {"none", "sent", "ok", "failed"}]

(* Besides a stop one call is under way *)
OneCall ==
    \A c, d \in Call \ {"ESTOP"} : calls[c] # "none" /\ calls[d] # "none" => c = d

(* The button is behind the robot by the answer that is on its way *)
Agreed ==
    faults \cap {"voice", "timeout"} = {} =>
        /\ calls["PAUSE"] = "ok" => pause = TRUE
        /\ calls["UNPAUSE"] = "ok" \/ calls["RESUME"] = "ok" => pause = FALSE
        /\ (\A c \in {"PAUSE", "UNPAUSE", "RESUME"} : calls[c] # "ok") => paused = pause

IInv == CallTypes /\ OneCall /\ Agreed

(* A step that leaves the two and the calls alone keeps it; faults are not *)
(* taken back *)
LEMMA CalmStep ==
    ASSUME IInv, UNCHANGED <<pause, paused, calls>>, faults \subseteq faults'
    PROVE  IInv'
    BY DEF IInv, CallTypes, OneCall, Agreed

LEMMA InitInv == ASSUME Init PROVE IInv
    BY DEF Init, IInv, CallTypes, OneCall, Agreed, Call

(* The steps of the robot *)
LEMMA RobotKeeps == ASSUME IInv, Robot PROVE IInv'
<1>1. CASE VoicePause
    BY <1>1 DEF VoicePause, Goes, IInv, CallTypes, OneCall, Agreed, screenVars
<1>2. CASE RobotStops \/ Recovered \/ HwReset \/ VoiceStop \/ Block
    BY <1>2, CalmStep DEF RobotStops, Recovered, HwReset, VoiceStop, Block, Goes, screenVars
<1> QED
    BY <1>1, <1>2 DEF Robot

(* The steps of the broadcasts, of the question, of the sockets and of the *)
(* screen that takes a message or whose box is dismissed *)
LEMMA OthersKeep == ASSUME IInv, Sending \/ Question \/ Sockets \/ Screen PROVE IInv'
<1>1. CASE Sending
    <2>1. CASE Take
        BY <2>1, CalmStep DEF Take, robotVars, screenVars
    <2>2. ASSUME NEW t, SendNext(t) \/ SendDone(t) PROVE IInv'
        BY <2>2, CalmStep DEF SendNext, SendDone, robotVars, screenVars
    <2> QED
        BY <1>1, <2>1, <2>2 DEF Sending
<1>2. CASE Question
    BY <1>2, CalmStep DEF Question, Ask, VoiceAnswer, Conclude, Reset, Goes, robotVars, screenVars
<1>3. CASE Sockets
    <2>1. ASSUME NEW c, Drop(c) \/ Disconnect(c) PROVE IInv'
        BY <2>1, CalmStep DEF Drop, Disconnect, Goes, robotVars, screenVars
    <2>2. CASE Reconnect
        BY <2>2, CalmStep DEF Reconnect, robotVars, screenVars
    <2> QED
        BY <1>3, <2>1, <2>2 DEF Sockets
<1>4. CASE Screen
    <2>1. CASE Poll
        BY <2>1, CalmStep DEF Poll, robotVars
    <2>2. ASSUME NEW d, Dismiss(d) PROVE IInv'
        BY <2>2, CalmStep DEF Dismiss, robotVars
    <2> QED
        BY <1>4, <2>1, <2>2 DEF Screen
<1> QED
    BY <1>1, <1>2, <1>3, <1>4

(* The operator may start a call only when there is no other *)
LEMMA PostKeeps ==
    ASSUME IInv, NEW c \in Call, Post(c), UNCHANGED <<pause, paused, faults>>
    PROVE  IInv'
<1>1. /\ calls' = [calls EXCEPT ![c] = "sent"] /\ CallTypes
      /\ \A d \in Call : calls'[d] = IF d = c THEN "sent" ELSE calls[d]
    BY DEF Post, IInv, CallTypes
<1>2. c # "ESTOP" => \A d \in Call : calls[d] = "none"
    BY DEF Post, Quiet
<1>3. calls[c] = "none"
    BY DEF Post, Quiet
<1>4. CallTypes'
    BY <1>1 DEF CallTypes
<1>5. OneCall'
    BY <1>1, <1>2 DEF OneCall, IInv
<1>6. Agreed'
    BY <1>1, <1>3 DEF Agreed, IInv, Call
<1> QED
    BY <1>4, <1>5, <1>6 DEF IInv

LEMMA OperatorKeeps == ASSUME IInv, Operator PROVE IInv'
<1>0. {"ESTOP", "PAUSE", "UNPAUSE", "MANUAL", "RESUME", "ANSWER"} = Call
    BY DEF Call
<1>1. CASE PressEstop
    BY <1>0, <1>1, PostKeeps DEF PressEstop, robotVars
<1>2. CASE PressPause
    BY <1>0, <1>2, PostKeeps DEF PressPause, robotVars, screenVars
<1>3. CASE PressManual
    BY <1>0, <1>3, PostKeeps DEF PressManual, robotVars, screenVars
<1>4. CASE PressResume
    BY <1>0, <1>4, PostKeeps DEF PressResume, robotVars
<1>5. CASE PressAnswer
    BY <1>0, <1>5, PostKeeps DEF PressAnswer, robotVars, screenVars
<1>6. CASE ClosePopup
    BY <1>6, CalmStep DEF ClosePopup, robotVars
<1> QED
    BY <1>1, <1>2, <1>3, <1>4, <1>5, <1>6 DEF Operator

(* A call that goes on to next: the types and the number of the calls *)
LEMMA CallGoesOn ==
    ASSUME IInv, NEW c \in Call, calls[c] # "none",
           NEW next \in {"none", "ok", "failed"}, calls' = [calls EXCEPT ![c] = next]
    PROVE  /\ CallTypes' /\ OneCall'
           /\ \A d \in Call : calls'[d] = IF d = c THEN next ELSE calls[d]
           /\ c # "ESTOP" => \A d \in Call \ {"ESTOP", c} : calls[d] = "none"
<1>1. \A d \in Call : calls'[d] = IF d = c THEN next ELSE calls[d]
    BY DEF IInv, CallTypes
<1>2. CallTypes'
    BY DEF IInv, CallTypes
<1>3. OneCall'
    BY <1>1 DEF IInv, OneCall
<1>4. c # "ESTOP" => \A d \in Call \ {"ESTOP", c} : calls[d] = "none"
    BY DEF IInv, OneCall
<1> QED
    BY <1>1, <1>2, <1>3, <1>4

(* The router, the answer and what the screen makes of it *)
LEMMA CallingKeeps == ASSUME IInv, NEW c \in Call, Calling(c) PROVE IInv'
<1>0. {"ESTOP", "PAUSE", "UNPAUSE", "MANUAL", "RESUME", "ANSWER"} = Call
    BY DEF Call
<1>1. CASE Handle(c)
    <2>1. /\ calls[c] = "sent" /\ calls' = [calls EXCEPT ![c] = "ok"]
          /\ UNCHANGED <<paused, faults>>
        BY <1>1 DEF Handle, screenVars
    <2>2. /\ CallTypes' /\ OneCall'
          /\ \A d \in Call : calls'[d] = IF d = c THEN "ok" ELSE calls[d]
          /\ c # "ESTOP" => \A d \in Call \ {"ESTOP", c} : calls[d] = "none"
        BY <2>1, CallGoesOn
    <2>3. /\ c = "PAUSE" => pause' = TRUE
          /\ c \in {"UNPAUSE", "RESUME"} => pause' = FALSE
          /\ c \notin {"PAUSE", "UNPAUSE", "RESUME"} => pause' = pause
        BY <1>1, <1>0 DEF Handle, Effect, Resumes, robotVars
    <2>4. Agreed'
        BY <1>0, <2>1, <2>2, <2>3 DEF Agreed, IInv
    <2> QED
        BY <2>2, <2>4 DEF IInv
<1>2. CASE Refuse(c) \/ (c = "ANSWER" /\ Conflict)
    <2>1. /\ calls[c] = "sent" /\ calls' = [calls EXCEPT ![c] = "failed"]
          /\ UNCHANGED <<pause, paused>> /\ faults \subseteq faults'
        BY <1>2 DEF Refuse, Conflict, Goes, robotVars, screenVars
    <2>2. /\ CallTypes' /\ OneCall'
          /\ \A d \in Call : calls'[d] = IF d = c THEN "failed" ELSE calls[d]
        BY <2>1, CallGoesOn
    <2>3. Agreed'
        BY <1>0, <2>1, <2>2 DEF Agreed, IInv
    <2> QED
        BY <2>2, <2>3 DEF IInv
<1>3. CASE Timeout(c)
    <2>1. calls[c] = "ok" /\ calls' = [calls EXCEPT ![c] = "failed"] /\ "timeout" \in faults'
        BY <1>3 DEF Timeout, Goes
    <2>2. CallTypes' /\ OneCall'
        BY <2>1, CallGoesOn
    <2> QED
        BY <2>1, <2>2 DEF IInv, Agreed
<1>4. CASE Succeed(c)
    <2>1. /\ calls[c] = "ok" /\ calls' = [calls EXCEPT ![c] = "none"]
          /\ UNCHANGED <<pause, faults>>
        BY <1>4 DEF Succeed, robotVars
    <2>2. /\ CallTypes' /\ OneCall'
          /\ \A d \in Call : calls'[d] = IF d = c THEN "none" ELSE calls[d]
          /\ c # "ESTOP" => \A d \in Call \ {"ESTOP", c} : calls[d] = "none"
        BY <2>1, CallGoesOn
    <2>3. /\ c = "PAUSE" => paused' = TRUE
          /\ c \in {"UNPAUSE", "RESUME"} => paused' = FALSE
          /\ c \notin {"PAUSE", "UNPAUSE", "RESUME"} => paused' = paused
        BY <1>4, <1>0 DEF Succeed, ClearOverlay
    <2>4. CASE c = "ESTOP"
        BY <1>0, <2>1, <2>2, <2>3, <2>4 DEF Agreed, IInv
    <2>5. CASE c = "PAUSE"
        BY <1>0, <2>1, <2>2, <2>3, <2>5 DEF Agreed, IInv
    <2>6. CASE c \in {"UNPAUSE", "RESUME"}
        BY <1>0, <2>1, <2>2, <2>3, <2>6 DEF Agreed, IInv
    <2>7. CASE c \in {"MANUAL", "ANSWER"}
        <3>1. \A d \in {"PAUSE", "UNPAUSE", "RESUME"} : calls[d] = "none" /\ calls'[d] = "none"
            BY <1>0, <2>2, <2>7
        <3>2. Agreed'
            BY <2>1, <2>3, <2>7, <3>1 DEF Agreed, IInv
        <3> QED
            BY <2>2, <3>2 DEF IInv
    <2> QED
        BY <1>0, <2>4, <2>5, <2>6, <2>7
<1>5. CASE Fail(c)
    <2>1. /\ calls[c] = "failed" /\ calls' = [calls EXCEPT ![c] = "none"]
          /\ UNCHANGED <<pause, paused, faults>>
        BY <1>5 DEF Fail, robotVars
    <2>2. /\ CallTypes' /\ OneCall'
          /\ \A d \in Call : calls'[d] = IF d = c THEN "none" ELSE calls[d]
        BY <2>1, CallGoesOn
    <2>3. Agreed'
        BY <1>0, <2>1, <2>2 DEF Agreed, IInv
    <2> QED
        BY <2>2, <2>3 DEF IInv
<1> QED
    BY <1>1, <1>2, <1>3, <1>4, <1>5 DEF Calling

LEMMA StepInv == ASSUME IInv, [Next]_vars PROVE IInv'
<1>1. CASE UNCHANGED vars
    BY <1>1, CalmStep DEF vars, robotVars, screenVars
<1>2. CASE Robot
    BY <1>2, RobotKeeps
<1>3. CASE Sending \/ Question \/ Sockets \/ Screen
    BY <1>3, OthersKeep
<1>4. CASE Operator
    BY <1>4, OperatorKeeps
<1>5. CASE \E c \in Call : Calling(c)
    BY <1>5, CallingKeeps
<1> QED
    BY <1>1, <1>2, <1>3, <1>4, <1>5 DEF Next

(* When no call is under way the pause button says what the robot does     *)
(* (PauseShown): dashboard.py:955, 1149.                                   *)
THEOREM PauseAlwaysShown == Spec => []PauseShown
<1>1. IInv /\ [Next]_vars => IInv'
    BY StepInv
<1>2. Init => IInv
    BY InitInv
<1>3. IInv => PauseShown
    BY DEF IInv, Agreed, PauseShown, Quiet, Call
<1> QED
    BY <1>1, <1>2, <1>3, PTL DEF Spec
---------------------------------------------------------------------------
(* The list of the connections                                             *)

(* What Without keeps of the first i clients of a list, as it recurs *)
Keeps(kept, list, gone) ==
    kept = [i \in 0..Len(list) |->
              IF i = 0 THEN <<>>
              ELSE IF list[i] \in gone THEN kept[i - 1] ELSE Append(kept[i - 1], list[i])]

LEMMA WithoutIs ==
    ASSUME NEW list, NEW gone
    PROVE  Without(list, gone) = (CHOOSE kept : Keeps(kept, list, gone))[Len(list)]
BY Zenon DEF Without, Keeps

LEMMA KeepsExist ==
    ASSUME NEW list \in Seq(Client), NEW gone
    PROVE  \E kept : Keeps(kept, list, gone)
<1> DEFINE n == Len(list)
           B == Seq(Client)
           step == [x \in (1..n) \X B |->
                      IF list[x[1]] \in gone THEN x[2] ELSE Append(x[2], list[x[1]])]
<1>1. n \in Nat /\ <<>> \in B /\ \A i \in 1..n : list[i] \in Client
    OBVIOUS
<1>2. step \in [(1..n) \X B -> B]
    BY <1>1
<1>3. \A i \in 1..n : \A s \in B :
        step[<<i, s>>] = IF list[i] \in gone THEN s ELSE Append(s, list[i])
    OBVIOUS
<1> HIDE DEF step, n, B
<1>4. PICK kept : NatRec(kept, n, B, <<>>, step)
    BY <1>1, <1>2, NatRecExists
<1>5. kept \in [0..n -> B] /\ kept[0] = <<>>
    BY <1>4 DEF NatRec
<1>6. \A i \in 1..n : kept[i] = IF list[i] \in gone THEN kept[i - 1]
                                ELSE Append(kept[i - 1], list[i])
    <2> TAKE i \in 1..n
    <2>1. kept[i - 1] \in B
        BY <1>1, <1>5
    <2> QED
        BY <1>3, <1>4, <2>1 DEF NatRec
<1>7. kept = [i \in 0..n |-> IF i = 0 THEN <<>>
                             ELSE IF list[i] \in gone THEN kept[i - 1]
                                  ELSE Append(kept[i - 1], list[i])]
    <2>1. \A i \in 0..n : i = 0 \/ i \in 1..n
        BY <1>1
    <2>2. \A i \in 0..n : kept[i] = IF i = 0 THEN <<>>
                                    ELSE IF list[i] \in gone THEN kept[i - 1]
                                         ELSE Append(kept[i - 1], list[i])
        BY <1>5, <1>6, <2>1
    <2>3. DOMAIN kept = 0..n /\ kept = [i \in 0..n |-> kept[i]]
        BY <1>5
    <2> QED
        BY Zenon, <2>2, <2>3
<1> QED
    BY <1>7 DEF Keeps, n

(* What is kept of the first i is a list of clients among them, each once  *)
(* if it was there once; and it is all of them if none is gone             *)
KeptOf(s, list, i) ==
    /\ s \in Seq(Client)
    /\ \A a \in 1..Len(s) : \E b \in 1..i : s[a] = list[b]
    /\ IsInjective(list) => IsInjective(s)

LEMMA KeptEmpty == ASSUME NEW list PROVE KeptOf(<<>>, list, 0)
<1> DEFINE s == <<>>
<1>1. s \in Seq(Client) /\ Len(s) = 0 /\ DOMAIN s = {}
    OBVIOUS
<1> HIDE DEF s
<1>2. IsInjective(s) /\ 1..Len(s) = {}
    BY <1>1 DEF IsInjective
<1>3. KeptOf(s, list, 0)
    BY <1>1, <1>2 DEF KeptOf
<1> QED
    BY <1>3 DEF s

LEMMA KeptNext ==
    ASSUME NEW list \in Seq(Client), NEW i \in 1..Len(list), NEW s, KeptOf(s, list, i - 1)
    PROVE  KeptOf(s, list, i) /\ KeptOf(Append(s, list[i]), list, i)
<1> DEFINE t == Append(s, list[i])
           n == Len(s)
<1>1. s \in Seq(Client) /\ n \in Nat /\ Len(list) \in Nat /\ list[i] \in Client
    BY DEF KeptOf
<1>2. t \in Seq(Client) /\ Len(t) = n + 1 /\ t[n + 1] = list[i] /\ \A a \in 1..n : t[a] = s[a]
    BY <1>1
<1>3. \A a \in 1..n : \E b \in 1..i : s[a] = list[b] /\ b # i
    <2> TAKE a \in 1..n
    <2>1. PICK b \in 1..(i - 1) : s[a] = list[b]
        BY DEF KeptOf
    <2>2. b \in 1..i /\ b # i
        BY <2>1
    <2> QED
        BY <2>1, <2>2
<1> HIDE DEF n, t
<1>4. KeptOf(s, list, i)
    BY <1>3 DEF KeptOf, n
<1>5. \A a \in 1..(n + 1) : \E b \in 1..i : t[a] = list[b]
    <2> TAKE a \in 1..(n + 1)
    <2>1. CASE a = n + 1
        BY <2>1, <1>2
    <2>2. CASE a # n + 1
        <3>1. a \in 1..n
            BY <1>1, <2>2
        <3> QED
            BY <3>1, <1>2, <1>3
    <2> QED
        BY <2>1, <2>2
<1>6. ASSUME IsInjective(list) PROVE IsInjective(t)
    <2>1. \A a \in 1..n : s[a] # list[i]
        <3> TAKE a \in 1..n
        <3>1. PICK b \in 1..i : s[a] = list[b] /\ b # i
            BY <1>3
        <3>2. b \in DOMAIN list /\ i \in DOMAIN list
            BY <1>1
        <3> QED
            BY <1>6, <3>1, <3>2 DEF IsInjective
    <2>2. \A a, b \in 1..n : s[a] = s[b] => a = b
        <3>1. IsInjective(s) /\ DOMAIN s = 1..n
            BY <1>1, <1>6 DEF KeptOf, n
        <3> QED
            BY <3>1 DEF IsInjective
    <2>3. DOMAIN t = 1..(n + 1)
        BY <1>2
    <2>4. \A a \in 1..(n + 1) : a = n + 1 \/ a \in 1..n
        BY <1>1
    <2> QED
        BY <1>2, <2>1, <2>2, <2>3, <2>4 DEF IsInjective
<1> QED
    BY <1>2, <1>4, <1>5, <1>6 DEF KeptOf, t

LEMMA WithoutKeeps ==
    ASSUME NEW list \in Seq(Client), NEW gone
    PROVE  KeptOf(Without(list, gone), list, Len(list))
<1> DEFINE kept == CHOOSE kept : Keeps(kept, list, gone)
           n == Len(list)
           T == {i \in 0..n : ~KeptOf(kept[i], list, i)}
<1>1. Keeps(kept, list, gone) /\ n \in Nat
    BY KeepsExist
<1>2. Without(list, gone) = kept[n]
    BY WithoutIs
<1> HIDE DEF kept
<1>3. ASSUME T # {} PROVE FALSE
    <2>1. PICK i \in T : \A j \in T : i <= j
        <3>1. T \subseteq Nat
            OBVIOUS
        <3> HIDE DEF T
        <3> QED
            BY <1>3, <3>1, LeastNat
    <2>2. i \in 0..n /\ kept[i] = IF i = 0 THEN <<>>
                                  ELSE IF list[i] \in gone THEN kept[i - 1]
                                       ELSE Append(kept[i - 1], list[i])
        BY <1>1, <2>1 DEF Keeps
    <2>3. i # 0
        BY <2>1, <2>2, KeptEmpty
    <2>4. i - 1 \in 0..n /\ ~(i <= i - 1) /\ i \in 1..n
        BY <2>2, <2>3, <1>1
    <2>5. KeptOf(kept[i - 1], list, i - 1)
        BY <2>1, <2>4
    <2>6. KeptOf(kept[i], list, i)
        <3>1. i \in 1..Len(list) /\ kept[i] \in {kept[i - 1], Append(kept[i - 1], list[i])}
            BY <2>2, <2>3, <2>4
        <3> HIDE DEF T, n
        <3>2. KeptOf(kept[i - 1], list, i) /\ KeptOf(Append(kept[i - 1], list[i]), list, i)
            BY <2>5, <3>1, KeptNext
        <3> QED
            BY <3>1, <3>2
    <2> QED
        BY <2>1, <2>6
<1>4. n \in 0..n
    BY <1>1
<1> QED
    BY <1>2, <1>3, <1>4

(* Nobody is gone *)
LEMMA WithoutNone ==
    ASSUME NEW list \in Seq(Client)
    PROVE  Without(list, {}) = list
<1> DEFINE kept == CHOOSE kept : Keeps(kept, list, {})
           n == Len(list)
           front(i) == [a \in 1..i |-> list[a]]
           T == {i \in 0..n : kept[i] # front(i)}
<1>1. Keeps(kept, list, {}) /\ n \in Nat
    BY KeepsExist
<1>2. Without(list, {}) = kept[n]
    BY WithoutIs
<1> HIDE DEF kept
<1>3. ASSUME T # {} PROVE FALSE
    <2>1. PICK i \in T : \A j \in T : i <= j
        <3>1. T \subseteq Nat
            OBVIOUS
        <3> HIDE DEF T
        <3> QED
            BY <1>3, <3>1, LeastNat
    <2>2. i \in 0..n /\ kept[i] = IF i = 0 THEN <<>> ELSE Append(kept[i - 1], list[i])
        BY <1>1, <2>1 DEF Keeps
    <2>3. i # 0
        BY <2>1, <2>2
    <2>4. i - 1 \in 0..n /\ ~(i <= i - 1) /\ i \in 1..n
        BY <2>2, <2>3, <1>1
    <2>5. kept[i - 1] = front(i - 1)
        BY <2>1, <2>4
    <2>6. front(i - 1) \in Seq(Client) /\ Len(front(i - 1)) = i - 1
        BY <2>4, <1>1
    <2>7. Append(front(i - 1), list[i]) = front(i)
        BY <2>4, <2>6, <1>1
    <2> QED
        BY <2>1, <2>2, <2>3, <2>5, <2>7
<1>4. n \in 0..n
    BY <1>1
<1>5. kept[n] = front(n)
    BY <1>3, <1>4
<1>6. front(n) = list
    OBVIOUS
<1> QED
    BY <1>2, <1>5, <1>6

(* At the start the list has every client, each once *)
LEMMA ListedIs ==
    ASSUME NEW list \in SetToSeqs(Client)
    PROVE  /\ list \in Seq(Client) /\ IsInjective(list)
           /\ \E i \in DOMAIN list : list[i] = "hmi"
<1> DEFINE n == Cardinality(Client)
<1>1. list \in [1..n -> Client] /\ \A i, j \in 1..n : i # j => list[i] # list[j]
    BY Zenon DEF SetToSeqs
<1>2. IsFiniteSet(Client)
    BY ConsoleAssumption, FS_AddElement DEF Client
<1>3. n \in Nat
    BY <1>2, FS_CardinalityType
<1>4. list \in Seq(Client)
    BY <1>1, <1>3
<1>5. IsInjective(list)
    BY <1>1 DEF IsInjective
<1>6. list \in Injection(1..n, Client)
    BY <1>1, <1>5 DEF Injection
<1>7. Cardinality(1..n) = n
    <2>1. Cardinality(1..n) = IF 1 > n THEN 0 ELSE n - 1 + 1
        BY <1>3, FS_Interval
    <2> QED
        BY <1>3, <2>1
<1>8. list \in Surjection(1..n, Client)
    BY <1>2, <1>6, <1>7, FS_Injection
<1>9. "hmi" \in Client
    BY DEF Client
<1>10. \E i \in 1..n : list[i] = "hmi"
    BY <1>8, <1>9 DEF Surjection
<1> QED
    BY <1>1, <1>4, <1>5, <1>10
---------------------------------------------------------------------------
(* Types                                                                   *)

Task      == {"consumer", "hitl"}
Broadcast == [msg : Message, at : Nat \ {0}, dead : SUBSET Client]
Asked     == [q : 1..MaxUses, st : {"asking", "open", "answered", "ending", "stuck"}]

RobotTypes ==
    /\ robot \in {"run", "recover", "waiting", "confirm", "reset", "confirmed"}
    /\ stop \in BOOLEAN /\ pause \in BOOLEAN /\ blocked \in BOOLEAN
    /\ said \in Seq(Text)
WireTypes ==
    /\ conns \in Seq(Client) /\ IsInjective(conns) /\ up \subseteq Client
    /\ job \in [Task -> {Idle} \cup Broadcast] /\ inbox \in Seq(Message)
SessionTypes ==
    /\ session \in {NoSession} \cup Asked
    /\ count \in [stops : Nat, uses : 0..MaxUses] /\ faults \subseteq FaultKinds
ScreenTypes ==
    /\ estopped \in BOOLEAN /\ paused \in BOOLEAN /\ (button = "none") = ~estopped
    /\ button \in {"none", "waiting", "ready", "sending"}
    /\ popup \in 0..MaxUses /\ dialogs \subseteq {"resolved", "stuck", "call", "retry"}
Types == RobotTypes /\ WireTypes /\ SessionTypes /\ ScreenTypes /\ CallTypes

LEMMA TypesGive == ASSUME Types PROVE TypeOK
<1>1. \A t \in {"consumer", "hitl"} :
         job[t] # Idle => job[t].msg \in Message /\ job[t].dead \subseteq Client
    BY DEF Types, WireTypes, Task, Broadcast
<1>2. /\ session.q \in 0..MaxUses
      /\ session.st \in {"none", "asking", "open", "answered", "ending", "stuck"}
    BY ConsoleAssumption DEF Types, SessionTypes, NoSession, Asked
<1> QED
    BY <1>1, <1>2 DEF Types, RobotTypes, WireTypes, SessionTypes, ScreenTypes, CallTypes, TypeOK

(* No socket is held for dead by a task that sends nothing *)
LEMMA NoneDead ==
    ASSUME NEW m, NEW n, NEW j, j = [msg |-> m, at |-> n, dead |-> {}]
    PROVE  [j EXCEPT !.dead = @ \ {"hmi"}] = j
<1>1. j.dead \ {"hmi"} = {}
    OBVIOUS
<1>2. [j EXCEPT !.dead = {}] = j
    OBVIOUS
<1> QED
    BY <1>1, <1>2

LEMMA IdleStays == ASSUME NEW j, j = Idle PROVE [j EXCEPT !.dead = @ \ {"hmi"}] = j
<1>1. j = [msg |-> <<>>, at |-> 0, dead |-> {}]
    BY DEF Idle
<1> QED
    BY <1>1, NoneDead

LEMMA InitTypes == ASSUME Init PROVE Types
<1>1. RobotTypes /\ ScreenTypes /\ CallTypes
    <2>1. RobotTypes /\ CallTypes
        <3>1. RobotTypes
            <4>1. robot = "run" /\ stop = FALSE /\ pause = FALSE /\ blocked = FALSE /\ said = <<>>
                BY DEF Init
            <4>2. said \in Seq(Text)
                BY <4>1
            <4>3. stop \in BOOLEAN /\ pause \in BOOLEAN /\ blocked \in BOOLEAN
                BY <4>1
            <4> QED
                BY <4>1, <4>2, <4>3 DEF RobotTypes
        <3>2. CallTypes
            BY DEF Init, CallTypes
        <3> QED
            BY <3>1, <3>2
    <2>2. ScreenTypes
        <3>1. 0 \in 0..MaxUses
            BY ConsoleAssumption
        <3> QED
            BY <3>1 DEF Init, ScreenTypes
    <2> QED
        BY <2>1, <2>2
<1>2. WireTypes
    <2>1. job \in [Task -> {Idle} \cup Broadcast] /\ up \subseteq Client /\ inbox \in Seq(Message)
        BY DEF Init, Task
    <2>2. conns \in SetToSeqs(Client)
        BY DEF Init
    <2> QED
        BY <2>1, <2>2, ListedIs DEF WireTypes
<1>3. SessionTypes
    BY ConsoleAssumption DEF Init, SessionTypes
<1> QED
    BY <1>1, <1>2, <1>3 DEF Types

LEMMA SameRobot  == ASSUME RobotTypes, UNCHANGED <<robotVars, said>> PROVE RobotTypes'
    BY DEF RobotTypes, robotVars
LEMMA SameWire   == ASSUME WireTypes, UNCHANGED <<conns, up, job, inbox>> PROVE WireTypes'
    BY DEF WireTypes
LEMMA SameScreen == ASSUME ScreenTypes, UNCHANGED screenVars PROVE ScreenTypes'
    BY DEF ScreenTypes, screenVars
LEMMA SameSession ==
    ASSUME SessionTypes, UNCHANGED <<session, count>>, faults' = faults \/ \E k : Goes(k)
    PROVE  SessionTypes'
    BY DEF SessionTypes, Goes

LEMMA SpentTypes ==
    ASSUME SessionTypes, NEW kind \in {"stops", "uses"}, NEW max \in Nat, Spent(kind, max),
           kind = "uses" => max = MaxUses
    PROVE  /\ count' \in [stops : Nat, uses : 0..MaxUses]
           /\ kind = "uses" => count'.uses \in 1..MaxUses
    BY ConsoleAssumption DEF SessionTypes, Spent

(* One send, and the end of a broadcast *)
LEMMA StartTypes ==
    ASSUME WireTypes, NEW t \in Task, NEW msg \in Message, Start(t, msg)
    PROVE  /\ job' \in [Task -> {Idle} \cup Broadcast]
           /\ job'[t] = [msg |-> msg, at |-> 1, dead |-> {}]
           /\ \A u \in Task \ {t} : job'[u] = job[u]
    BY DEF WireTypes, Start, Broadcast

LEMMA RobotTyped == ASSUME Types, Robot PROVE Types'
<1>1. RobotTypes /\ WireTypes /\ SessionTypes /\ ScreenTypes /\ CallTypes
    BY DEF Types
<1>2. UNCHANGED <<conns, up, job, inbox, session, screenVars, calls>>
    BY DEF Robot, RobotStops, Recovered, HwReset, VoiceStop, VoicePause, Block, backendVars
<1>3. SessionTypes'
    <2>1. ASSUME Spent("stops", MaxStops), faults' = faults \/ \E k : Goes(k) PROVE SessionTypes'
        BY <1>1, <1>2, <2>1, ConsoleAssumption, SpentTypes DEF SessionTypes, Goes
    <2>2. CASE RobotStops \/ Recovered \/ HwReset \/ VoicePause
        BY <1>1, <2>2, SameSession DEF RobotStops, Recovered, HwReset, VoicePause, backendVars
    <2>3. CASE VoiceStop \/ Block
        BY <2>1, <2>3 DEF VoiceStop, Block
    <2> QED
        BY <2>2, <2>3 DEF Robot
<1>4. RobotTypes'
    <2>1. \A s \in Text : Append(said, s) \in Seq(Text)
        BY <1>1 DEF RobotTypes
    <2>2. said \o <<"blocked", "wait">> \in Seq(Text)
        <3>1. <<"blocked", "wait">> \in Seq(Text)
            BY DEF Text
        <3> QED
            BY <1>1, <3>1, ConcatProperties DEF RobotTypes
    <2> HIDE <1>2
    <2>3. CASE RobotStops
        BY <1>1, <2>1, <2>2, <2>3 DEF RobotStops, RobotTypes, Text
    <2>4. CASE Recovered
        BY <1>1, <2>1, <2>4 DEF Recovered, RobotTypes, Text
    <2>5. CASE HwReset
        BY <1>1, <2>1, <2>5 DEF HwReset, RobotTypes, Text
    <2>6. CASE VoiceStop \/ VoicePause \/ Block
        BY <1>1, <2>6 DEF VoiceStop, VoicePause, Block, RobotTypes, backendVars
    <2> QED
        BY <2>3, <2>4, <2>5, <2>6 DEF Robot
<1>5. WireTypes' /\ ScreenTypes' /\ CallTypes'
    BY <1>1, <1>2, SameWire, SameScreen DEF CallTypes
<1> QED
    BY <1>3, <1>4, <1>5 DEF Types

LEMMA SendingTyped == ASSUME Types, Sending PROVE Types'
<1>1. RobotTypes /\ WireTypes /\ SessionTypes /\ ScreenTypes /\ CallTypes
    BY DEF Types
<1>2. UNCHANGED <<robotVars, up, screenVars, calls, count, faults>>
    BY DEF Sending, Take, SendNext, SendDone
<1>3. ScreenTypes' /\ CallTypes'
    BY <1>1, <1>2, SameScreen DEF CallTypes
<1>4. DOMAIN job = Task
    BY <1>1 DEF WireTypes
<1>5. CASE Take
    <2>1. said \in Seq(Text) /\ said # <<>>
        BY <1>1, <1>5 DEF Take, RobotTypes
    <2>2. Head(said) \in Text /\ Tail(said) \in Seq(Text)
        BY <2>1
    <2>3. <<Head(said), 0>> \in Message
        BY <2>2 DEF Message
    <2>4. job' \in [Task -> {Idle} \cup Broadcast]
        BY <1>1, <1>5, <2>3, StartTypes DEF Take, Task
    <2>5. RobotTypes'
        BY <1>1, <1>2, <1>5, <2>2 DEF Take, RobotTypes, robotVars
    <2>6. WireTypes' /\ SessionTypes'
        BY <1>1, <1>2, <1>5, <2>4 DEF Take, WireTypes, SessionTypes
    <2> QED
        BY <1>3, <2>5, <2>6 DEF Types
<1>6. ASSUME NEW t \in Task, SendNext(t) PROVE Types'
    <2>1. job[t] \in Broadcast
        BY <1>1, <1>6 DEF SendNext, WireTypes
    <2>2. conns[job[t].at] \in Client
        BY <1>1, <1>6, <2>1 DEF SendNext, WireTypes, Broadcast
    <2>3. \/ job' = [job EXCEPT ![t].at = @ + 1]
          \/ job' = [job EXCEPT ![t].at = @ + 1, ![t].dead = @ \cup {conns[job[t].at]}]
        BY <1>6 DEF SendNext
    <2> DEFINE a == [job[t] EXCEPT !.at = @ + 1]
               b == [a EXCEPT !.dead = @ \cup {conns[job[t].at]}]
    <2>4. a \in Broadcast
        BY <2>1 DEF Broadcast
    <2>5. b \in Broadcast
        BY <2>2, <2>4 DEF Broadcast
    <2>6. job' = [job EXCEPT ![t] = a] \/ job' = [job EXCEPT ![t] = b]
        BY <1>1, <2>3 DEF WireTypes
    <2>7. job' \in [Task -> {Idle} \cup Broadcast]
        <3> HIDE DEF a, b
        <3> QED
            BY <1>1, <2>4, <2>5, <2>6 DEF WireTypes
    <2>8. inbox' \in Seq(Message)
        <3>1. job[t].msg \in Message
            BY <2>1 DEF Broadcast
        <3>2. inbox' = inbox \/ inbox' = Append(inbox, job[t].msg)
            BY <1>6 DEF SendNext
        <3> QED
            BY <1>1, <3>1, <3>2 DEF WireTypes
    <2>9. WireTypes' /\ SessionTypes' /\ RobotTypes'
        BY <1>1, <1>2, <1>6, <2>7, <2>8, SameRobot DEF SendNext, WireTypes, SessionTypes
    <2> QED
        BY <1>3, <2>9 DEF Types
<1>7. ASSUME NEW t \in Task, SendDone(t) PROVE Types'
    <2>1. conns \in Seq(Client) /\ IsInjective(conns) /\ conns' = Without(conns, job[t].dead)
        BY <1>1, <1>7 DEF SendDone, WireTypes
    <2>2. conns' \in Seq(Client) /\ IsInjective(conns')
        BY <2>1, WithoutKeeps DEF KeptOf
    <2>3. job' \in [Task -> {Idle} \cup Broadcast]
        BY <1>1, <1>7 DEF SendDone, WireTypes
    <2>4. session' \in {NoSession} \cup Asked
        <3>1. \/ session' = session \/ session' = NoSession
              \/ session.st = "asking" /\ session' = [session EXCEPT !.st = "open"]
            BY <1>7 DEF SendDone
        <3>2. session.st = "asking" => session \in Asked
            BY <1>1 DEF SessionTypes, NoSession
        <3> QED
            BY <1>1, <3>1, <3>2 DEF SessionTypes, Asked
    <2>5. WireTypes' /\ SessionTypes' /\ RobotTypes'
        BY <1>1, <1>2, <1>7, <2>2, <2>3, <2>4, SameRobot DEF SendDone, WireTypes, SessionTypes
    <2> QED
        BY <1>3, <2>5 DEF Types
<1> QED
    BY <1>4, <1>5, <1>6, <1>7 DEF Sending

LEMMA SocketsTyped == ASSUME Types, Sockets PROVE Types'
<1>1. RobotTypes /\ WireTypes /\ SessionTypes /\ ScreenTypes /\ CallTypes
    BY DEF Types
<1>2. UNCHANGED <<robotVars, said, screenVars, calls, count, session>>
    BY DEF Sockets, Drop, Disconnect, Reconnect, backendVars
<1>3. RobotTypes' /\ ScreenTypes' /\ CallTypes'
    BY <1>1, <1>2, SameScreen, SameRobot DEF CallTypes
<1>4. ASSUME NEW c \in Client, Drop(c) PROVE WireTypes' /\ SessionTypes'
    BY <1>1, <1>4, SameSession DEF Drop, WireTypes, backendVars
<1>5. ASSUME NEW c \in Client, Disconnect(c) PROVE WireTypes' /\ SessionTypes'
    <2>1. conns \in Seq(Client) /\ IsInjective(conns) /\ conns' = Without(conns, {c})
        BY <1>1, <1>5 DEF Disconnect, WireTypes
    <2>2. conns' \in Seq(Client) /\ IsInjective(conns')
        BY <2>1, WithoutKeeps DEF KeptOf
    <2> QED
        BY <1>1, <1>5, <2>2, SameSession DEF Disconnect, WireTypes
<1>6. CASE Reconnect
    <2>1. /\ "hmi" \notin up /\ \A i \in DOMAIN conns : conns[i] # "hmi"
          /\ up' = up \cup {"hmi"} /\ conns' = Append(conns, "hmi")
          /\ job' = [t \in DOMAIN job |-> [job[t] EXCEPT !.dead = @ \ {"hmi"}]]
          /\ "hmi" \in Client
        BY <1>6 DEF Reconnect, Client
    <2>2. conns' \in Seq(Client) /\ IsInjective(conns')
        <3> DEFINE n == Len(conns)
        <3>1. n \in Nat /\ conns \in Seq(Client) /\ DOMAIN conns = 1..n /\ IsInjective(conns)
            BY <1>1 DEF WireTypes
        <3>2. /\ conns' \in Seq(Client) /\ DOMAIN conns' = 1..(n + 1) /\ conns'[n + 1] = "hmi"
              /\ \A i \in 1..n : conns'[i] = conns[i]
            BY <2>1, <3>1
        <3> HIDE DEF n
        <3>3. \A i \in 1..(n + 1) : i = n + 1 \/ i \in 1..n
            BY <3>1
        <3> QED
            BY <2>1, <3>1, <3>2, <3>3 DEF IsInjective
    <2>3. job' \in [Task -> {Idle} \cup Broadcast]
        <3>1. ASSUME NEW j \in {Idle} \cup Broadcast
              PROVE  [j EXCEPT !.dead = @ \ {"hmi"}] \in {Idle} \cup Broadcast
            <4>1. CASE j = Idle
                BY <4>1, IdleStays
            <4>2. CASE j \in Broadcast
                BY <4>2 DEF Broadcast
            <4> QED
                BY <4>1, <4>2
        <3> QED
            BY <1>1, <2>1, <3>1 DEF WireTypes
    <2> QED
        BY <1>1, <1>3, <1>6, <2>1, <2>2, <2>3, SameSession DEF Reconnect, WireTypes, Types
<1> QED
    BY <1>3, <1>4, <1>5, <1>6 DEF Types, Sockets

LEMMA QuestionTyped == ASSUME Types, Question PROVE Types'
<1>1. RobotTypes /\ WireTypes /\ SessionTypes /\ ScreenTypes /\ CallTypes
    BY DEF Types
<1>2. UNCHANGED <<robotVars, said, conns, screenVars, up, inbox, calls>>
    BY DEF Question, Ask, VoiceAnswer, Conclude, Reset
<1>3. RobotTypes' /\ ScreenTypes' /\ CallTypes'
    BY <1>1, <1>2, SameScreen, SameRobot DEF CallTypes
<1>4. CASE Ask
    <2>1. count' \in [stops : Nat, uses : 0..MaxUses] /\ count'.uses \in 1..MaxUses
        BY <1>1, <1>4, ConsoleAssumption, SpentTypes DEF Ask
    <2>2. <<"ask", count'.uses>> \in Message
        BY <2>1 DEF Message
    <2>3. job' \in [Task -> {Idle} \cup Broadcast]
        BY <1>1, <1>4, <2>2, StartTypes DEF Ask, Task
    <2>4. session' \in Asked
        BY <1>4, <2>1 DEF Ask, Asked
    <2> QED
        BY <1>1, <1>2, <1>3, <1>4, <2>1, <2>3, <2>4 DEF Ask, WireTypes, SessionTypes, Types
<1>5. CASE VoiceAnswer
    <2>1. session \in Asked
        BY <1>1, <1>5 DEF VoiceAnswer, SessionTypes, NoSession
    <2>2. session' \in Asked
        BY <1>5, <2>1 DEF VoiceAnswer, Asked
    <2> QED
        BY <1>1, <1>3, <1>5, <2>2, SameWire DEF VoiceAnswer, SessionTypes, Types
<1>6. CASE Conclude
    <2>1. session \in Asked
        BY <1>1, <1>6 DEF Conclude, SessionTypes, NoSession
    <2>2. session' \in Asked
        BY <1>6, <2>1 DEF Conclude, Asked
    <2>3. \A m \in {"resolved", "skipped", "stuck"} : <<m, session.q>> \in Message
        BY <2>1 DEF Asked, Message
    <2>4. job' \in [Task -> {Idle} \cup Broadcast]
        <3>1. \/ job' = job
              \/ \E m \in {"resolved", "skipped", "stuck"} : Start("hitl", <<m, session.q>>)
            BY <1>6 DEF Conclude
        <3> QED
            BY <1>1, <2>3, <3>1, StartTypes DEF WireTypes, Task
    <2> QED
        BY <1>1, <1>2, <1>3, <1>6, <2>2, <2>4 DEF Conclude, WireTypes, SessionTypes, Types
<1>7. CASE Reset
    BY <1>1, <1>3, <1>7, SameWire DEF Reset, SessionTypes, Goes, Types
<1> QED
    BY <1>4, <1>5, <1>6, <1>7 DEF Question

(* What a message says to the screen *)
LEMMA MessageIs ==
    ASSUME NEW m \in Message
    PROVE  \/ m[1] \in {"stop", "wait", "blocked"} /\ m[2] = 0
           \/ m[1] = "ask" /\ m[2] \in 1..MaxUses
           \/ m[1] \in {"resolved", "skipped", "stuck"} /\ m[2] \in 1..MaxUses
    BY DEF Message, Text

LEMMA ScreenTyped == ASSUME Types, Screen PROVE Types'
<1>1. RobotTypes /\ WireTypes /\ SessionTypes /\ ScreenTypes /\ CallTypes
    BY DEF Types
<1>2. UNCHANGED <<robotVars, backendVars, paused, up, calls, count, faults>>
    BY DEF Screen, Poll, Dismiss
<1>3. RobotTypes' /\ CallTypes' /\ SessionTypes'
    BY <1>1, <1>2, SameRobot, SameSession DEF CallTypes, backendVars
<1>4. CASE Poll
    <2> DEFINE m == Head(inbox)
    <2>1. m \in Message /\ inbox' \in Seq(Message)
        BY <1>1, <1>4 DEF Poll, WireTypes
    <2>2. WireTypes'
        BY <1>1, <1>2, <2>1 DEF WireTypes, backendVars
    <2>3. ScreenTypes'
        <3>1. CASE m[1] \in {"stop", "wait", "blocked"}
            <4>1. HearState(m[1]) /\ UNCHANGED <<popup, dialogs>>
                BY <1>4, <3>1 DEF Poll
            <4> QED
                BY <1>1, <1>2, <4>1 DEF HearState, Overlay, Shown, ScreenTypes
        <3>2. CASE m[1] = "ask" /\ m[2] \in 1..MaxUses
            <4>1. HearAsk(m[2]) /\ UNCHANGED <<estopped, button, dialogs>>
                BY <1>4, <3>2 DEF Poll
            <4> QED
                BY <1>1, <1>2, <3>2, <4>1 DEF HearAsk, ScreenTypes
        <3>3. CASE m[1] \in {"resolved", "skipped", "stuck"}
            <4>1. HearEnd(m[1]) /\ UNCHANGED <<estopped, button>>
                BY <1>4, <3>3 DEF Poll
            <4>2. popup' \in {popup, 0} /\ dialogs' \subseteq dialogs \cup {"resolved", "stuck"}
                BY <3>3, <4>1 DEF HearEnd
            <4>3. 0 \in 0..MaxUses
                BY ConsoleAssumption
            <4> HIDE DEF m
            <4> QED
                BY <1>1, <1>2, <4>1, <4>2, <4>3 DEF ScreenTypes
        <3> QED
            BY <2>1, <3>1, <3>2, <3>3, MessageIs
    <2> QED
        BY <1>3, <2>2, <2>3 DEF Types
<1>5. ASSUME NEW d \in dialogs, Dismiss(d) PROVE Types'
    <2>1. WireTypes'
        BY <1>1, <1>2, <1>5, SameWire DEF Dismiss, backendVars
    <2>2. ScreenTypes'
        BY <1>1, <1>2, <1>5, ConsoleAssumption DEF Dismiss, ScreenTypes
    <2> QED
        BY <1>3, <2>1, <2>2 DEF Types
<1> QED
    BY <1>4, <1>5 DEF Screen

LEMMA OperatorTyped == ASSUME Types, Operator PROVE Types'
<1>1. RobotTypes /\ WireTypes /\ SessionTypes /\ ScreenTypes /\ CallTypes
    BY DEF Types
<1>2. UNCHANGED <<robotVars, backendVars, paused, dialogs, up, inbox, faults>>
    BY DEF Operator, PressEstop, PressPause, PressManual, PressResume, PressAnswer, ClosePopup,
           screenVars
<1>3. RobotTypes' /\ WireTypes'
    BY <1>1, <1>2, SameRobot, SameWire DEF backendVars
<1>4. SessionTypes'
    <2>1. count' = count \/ Spent("stops", MaxStops) \/ Spent("uses", MaxUses)
        BY DEF Operator, PressEstop, PressPause, PressManual, PressResume, PressAnswer, ClosePopup
    <2>2. count' \in [stops : Nat, uses : 0..MaxUses]
        BY <1>1, <2>1, ConsoleAssumption, SpentTypes DEF SessionTypes
    <2> QED
        BY <1>1, <1>2, <2>2 DEF SessionTypes, backendVars
<1>5. CallTypes'
    <2>1. calls' = calls \/ \E c \in Call : calls' = [calls EXCEPT ![c] = "sent"]
        BY DEF Operator, PressEstop, PressPause, PressManual, PressResume, PressAnswer,
               ClosePopup, Post, Call
    <2> QED
        BY <1>1, <2>1 DEF CallTypes
<1>6. ScreenTypes'
    <2>1. CASE PressEstop
        BY <1>1, <2>1 DEF PressEstop, ScreenTypes
    <2>2. CASE PressPause \/ PressManual \/ PressAnswer
        BY <1>1, <2>2, SameScreen DEF PressPause, PressManual, PressAnswer
    <2>3. CASE PressResume
        BY <1>1, <2>3 DEF PressResume, ScreenTypes
    <2>4. CASE ClosePopup
        BY <1>1, <2>4, ConsoleAssumption DEF ClosePopup, ScreenTypes
    <2> QED
        BY <2>1, <2>2, <2>3, <2>4 DEF Operator
<1> QED
    BY <1>3, <1>4, <1>5, <1>6 DEF Types

LEMMA CallingTyped == ASSUME Types, NEW c \in Call, Calling(c) PROVE Types'
<1>1. RobotTypes /\ WireTypes /\ SessionTypes /\ ScreenTypes /\ CallTypes
    BY DEF Types
<1>2. UNCHANGED <<conns, job, said, popup, up, inbox, count>>
    BY DEF Calling, Handle, Refuse, Timeout, Succeed, Fail, Conflict, backendVars, screenVars,
           Effect, Resumes, robotVars
<1>3. WireTypes'
    BY <1>1, <1>2, SameWire
<1>4. CallTypes'
    <2>1. \E s \in {"none", "ok", "failed"} : \E d \in Call : calls' = [calls EXCEPT ![d] = s]
        BY DEF Calling, Handle, Refuse, Timeout, Succeed, Fail, Conflict, Call
    <2> QED
        BY <1>1, <2>1 DEF CallTypes
<1>5. CASE Handle(c)
    <2>1. UNCHANGED <<screenVars, faults>> /\ Effect(c)
        BY <1>5 DEF Handle
    <2>2. RobotTypes'
        BY <1>1, <1>2, <2>1 DEF Effect, Resumes, RobotTypes, robotVars
    <2>3. \/ session' = session
          \/ session.st = "open" /\ session' = [session EXCEPT !.st = "answered"]
        BY <2>1 DEF Effect
    <2>4. session' \in {NoSession} \cup Asked
        BY <1>1, <2>3 DEF SessionTypes, Asked, NoSession
    <2>5. SessionTypes'
        BY <1>1, <1>2, <2>1, <2>4 DEF SessionTypes
    <2> QED
        BY <1>1, <1>3, <1>4, <2>1, <2>2, <2>5, SameScreen DEF Types
<1>6. CASE Refuse(c) \/ Timeout(c) \/ Conflict
    <2>1. UNCHANGED <<robotVars, screenVars, session>> /\ (faults' = faults \/ \E k : Goes(k))
        BY <1>6 DEF Refuse, Timeout, Conflict, backendVars
    <2> QED
        BY <1>1, <1>2, <1>3, <1>4, <2>1, SameRobot, SameScreen, SameSession DEF Types
<1>7. CASE Succeed(c) \/ Fail(c)
    <2>1. UNCHANGED <<robotVars, session, faults>>
        BY <1>7 DEF Succeed, Fail, backendVars
    <2>2. ScreenTypes'
        <3>1. CASE Succeed(c)
            BY <1>1, <1>2, <3>1 DEF Succeed, ScreenTypes, ClearOverlay, Call
        <3>2. CASE Fail(c)
            BY <1>1, <1>2, <3>2 DEF Fail, ScreenTypes, ErrorBox, Call
        <3> QED
            BY <1>7, <3>1, <3>2
    <2> QED
        BY <1>1, <1>2, <1>3, <1>4, <2>1, <2>2, SameRobot, SameSession DEF Types
<1> QED
    BY <1>5, <1>6, <1>7 DEF Calling

LEMMA StepTypes == ASSUME Types, [Next]_vars PROVE Types'
<1>1. CASE UNCHANGED vars
    BY <1>1, SameRobot, SameWire, SameSession, SameScreen
       DEF vars, backendVars, Types, CallTypes
<1>2. CASE Next
    BY <1>2, RobotTyped, SendingTyped, QuestionTyped, ScreenTyped, OperatorTyped, CallingTyped,
       SocketsTyped DEF Next
<1> QED
    BY <1>1, <1>2

(* Type correctness: among the types, that the overlay has a button just   *)
(* when it is shown, that every message is about a question that was asked *)
(* and that no client is listed twice (connection_manager.py:32,           *)
(* dashboard.py:981).                                                      *)
THEOREM TypeCorrect == Spec => []TypeOK
<1>1. Init => Types
    BY InitTypes
<1>2. Types /\ [Next]_vars => Types'
    BY StepTypes
<1>3. Types => TypeOK
    BY TypesGive
<1> QED
    BY <1>1, <1>2, <1>3, PTL DEF Spec
---------------------------------------------------------------------------
(* The popup                                                               *)

Ends(q) == {<<"resolved", q>>, <<"skipped", q>>}

(* The session's task has a broadcast under way just while its state says  *)
(* so, and of what it says; the queue's speaks of the robot *)
JobFollows ==
    /\ job["consumer"] = Idle \/ job["consumer"].msg[1] \in Text
    /\ session.st = "asking" => job["hitl"].msg = <<"ask", session.q>>
    /\ session.st = "ending" => job["hitl"].msg \in Ends(session.q)
    /\ session.st = "stuck"  => job["hitl"] = Idle \/ job["hitl"].msg = <<"stuck", session.q>>
    /\ session.st \in {"none", "open", "answered"} => job["hitl"] = Idle

Calm == faults \cap {"drop", "leave", "reset"} = {}

(* All are connected, and the screen is told everything *)
Wired == /\ up = Client /\ \A t \in Task : job[t].dead = {}
         /\ \E h \in DOMAIN conns : conns[h] = "hmi"

(* The end of the question has been sent to the screen *)
Told == /\ session.st = "ending"
        /\ \E h \in DOMAIN conns : conns[h] = "hmi" /\ h < job["hitl"].at

(* The screen has yet to be told the end of q, or has it after place i *)
Current(q)    == session.q = q /\ ~Told
EndsAfter(q, i) == \E j \in DOMAIN inbox : i < j /\ inbox[j] \in Ends(q)

AsksEnd == \A i \in DOMAIN inbox :
    inbox[i][1] = "ask" => Current(inbox[i][2]) \/ EndsAfter(inbox[i][2], i)
PopupEnds == popup # 0 => Current(popup) \/ EndsAfter(popup, 0) \/ "resolved" \in dialogs

Heard == Calm => Wired /\ AsksEnd /\ PopupEnds

LEMMA InitHeard == ASSUME Init PROVE JobFollows /\ Heard
<1>1. JobFollows
    BY DEF Init, JobFollows, NoSession
<1>2. Wired
    <2>1. \E h \in DOMAIN conns : conns[h] = "hmi"
        BY ListedIs DEF Init
    <2> QED
        BY <2>1 DEF Init, Wired, Idle, Task
<1>3. AsksEnd /\ PopupEnds
    BY DEF Init, AsksEnd, PopupEnds
<1> QED
    BY <1>1, <1>2, <1>3 DEF Heard

(* A step that leaves the way to the screen alone *)
LEMMA AsideHeard ==
    ASSUME JobFollows, Heard, UNCHANGED <<conns, job, session, inbox>>,
           popup' \in {popup, 0}, faults \subseteq faults', up' = up \/ ~Calm',
           "resolved" \in dialogs => "resolved" \in dialogs' \/ popup' = 0
    PROVE  JobFollows' /\ Heard'
<1>1. JobFollows'
    BY DEF JobFollows
<1>2. ASSUME Calm' PROVE (Wired /\ AsksEnd /\ PopupEnds)'
    <2>1. Calm /\ Wired /\ AsksEnd /\ PopupEnds
        BY <1>2 DEF Calm, Heard
    <2>2. Wired' /\ AsksEnd'
        BY <1>2, <2>1 DEF Wired, AsksEnd, Current, Told, EndsAfter
    <2>3. PopupEnds'
        BY <2>1 DEF PopupEnds, Current, Told, EndsAfter
    <2> QED
        BY <2>2, <2>3
<1> QED
    BY <1>1, <1>2 DEF Heard

(* A step of the session or of a broadcast, by which at most a message m   *)
(* comes to the screen *)
LEMMA ToldHeard ==
    ASSUME Types, Heard, UNCHANGED <<conns, up, popup, dialogs>>, faults \subseteq faults',
           Wired => \A t \in Task : job'[t].dead = {},
           NEW m, m \in Message, inbox' = inbox \/ inbox' = Append(inbox, m),
           \A q \in 1..MaxUses : Current(q) => \/ Current(q)'
                                               \/ m \in Ends(q) /\ inbox' = Append(inbox, m),
           inbox' # inbox /\ m[1] = "ask" => Current(m[2])'
    PROVE  Heard'
<1> SUFFICES ASSUME Calm' PROVE (Wired /\ AsksEnd /\ PopupEnds)'
    BY DEF Heard
<1>1. Calm /\ Wired /\ AsksEnd /\ PopupEnds
    BY DEF Calm, Heard
<1>2. Wired'
    BY <1>1 DEF Wired
<1> DEFINE n == Len(inbox)
<1>3. /\ n \in Nat /\ DOMAIN inbox = 1..n /\ \A i \in 1..n : inbox[i] \in Message
      /\ \/ inbox' = inbox
         \/ inbox' = Append(inbox, m) /\ DOMAIN inbox' = 1..(n + 1) /\ inbox'[n + 1] = m
      /\ \A i \in 1..n : inbox'[i] = inbox[i] /\ i \in DOMAIN inbox'
    BY DEF Types, WireTypes
<1> HIDE DEF n
<1>4. ASSUME NEW q \in 1..MaxUses, NEW i \in 0..n, Current(q) \/ EndsAfter(q, i)
      PROVE  (Current(q) \/ EndsAfter(q, i))'
    <2>1. CASE EndsAfter(q, i)
        BY <1>3, <2>1 DEF EndsAfter
    <2>2. CASE m \in Ends(q) /\ inbox' = Append(inbox, m)
        <3>1. n + 1 \in DOMAIN inbox' /\ inbox'[n + 1] = m /\ i < n + 1
            BY <1>3, <1>4, <2>2
        <3> QED
            BY <2>2, <3>1 DEF EndsAfter, Ends
    <2> QED
        BY <1>4, <2>1, <2>2
<1>5. AsksEnd'
    <2> SUFFICES ASSUME NEW i \in DOMAIN inbox', inbox'[i][1] = "ask"
                 PROVE  (Current(inbox[i][2]) \/ EndsAfter(inbox[i][2], i))'
        BY DEF AsksEnd
    <2>1. CASE i \in 1..n
        <3>1. inbox'[i] = inbox[i] /\ inbox[i][2] \in 1..MaxUses
            BY <1>3, <2>1, MessageIs
        <3>2. Current(inbox[i][2]) \/ EndsAfter(inbox[i][2], i)
            BY <1>1, <1>3, <2>1, <3>1 DEF AsksEnd
        <3> DEFINE q == inbox[i][2]
        <3>3. (Current(q) \/ EndsAfter(q, i))'
            <4>1. \A r \in 1..MaxUses : Current(r) \/ EndsAfter(r, i)
                                          => (Current(r) \/ EndsAfter(r, i))'
                BY <1>3, <1>4, <2>1
            <4> DEFINE r == inbox'[i][2]
            <4>2. r = q
                BY <3>1
            <4>3. r \in 1..MaxUses /\ (Current(r) \/ EndsAfter(r, i))
                BY <3>1, <3>2
            <4> QED
                BY <4>1, <4>2, <4>3 DEF Current, EndsAfter
        <3> QED
            BY <3>1, <3>3 DEF Current, EndsAfter
    <2>2. CASE i \notin 1..n
        <3>1. inbox' = Append(inbox, m) /\ i = n + 1 /\ inbox'[i] = m /\ inbox' # inbox
            BY <1>3, <2>2
        <3>2. Current(m[2])'
            BY <3>1
        <3> QED
            BY <3>1, <3>2 DEF Current
    <2> QED
        BY <2>1, <2>2
<1>6. PopupEnds'
    <2> SUFFICES ASSUME popup' # 0, "resolved" \notin dialogs'
                 PROVE  (Current(popup) \/ EndsAfter(popup, 0))'
        BY DEF PopupEnds
    <2>1. popup \in 1..MaxUses
        BY ConsoleAssumption DEF Types, ScreenTypes
    <2>2. Current(popup) \/ EndsAfter(popup, 0)
        BY <1>1 DEF PopupEnds
    <2>3. \A q \in 1..MaxUses : Current(q) \/ EndsAfter(q, 0) => (Current(q) \/ EndsAfter(q, 0))'
        BY <1>3, <1>4
    <2> QED
        BY <2>1, <2>2, <2>3 DEF Current, EndsAfter
<1> QED
    BY <1>2, <1>5, <1>6

LEMMA TakeHeard == ASSUME Types, JobFollows, Heard, Take PROVE JobFollows' /\ Heard'
<1>1. /\ Start("consumer", <<Head(said), 0>>) /\ DOMAIN job = Task
      /\ UNCHANGED <<conns, session, popup, dialogs, up, inbox, faults>>
    BY DEF Take, screenVars, Types, WireTypes
<1>2. job'["hitl"] = job["hitl"] /\ job'["consumer"].dead = {}
    BY <1>1 DEF Start, Task
<1>3. JobFollows'
    <2>1. Head(said) \in Text
        BY DEF Take, Types, RobotTypes
    <2>2. job'["consumer"].msg[1] = Head(said)
        BY <1>1 DEF Start, Task
    <2> QED
        BY <1>1, <1>2, <2>1, <2>2 DEF JobFollows
<1>4. \A q \in 1..MaxUses : Current(q) => Current(q)'
    BY <1>1, <1>2 DEF Current, Told
<1>5. Wired => \A t \in Task : job'[t].dead = {}
    BY <1>2 DEF Wired, Task
<1>6. \E m : m \in Message
    <2>1. <<"stop", 0>> \in Message
        BY DEF Message, Text
    <2> QED
        BY <2>1
<1> QED
    BY <1>1, <1>3, <1>4, <1>5, <1>6, ToldHeard

(* A broadcast under way says which state the session is in. *)
LEMMA JobIs ==
    ASSUME Types, JobFollows, job["hitl"] # Idle
    PROVE  \/ session.st = "asking" /\ job["hitl"].msg = <<"ask", session.q>>
           \/ session.st = "ending" /\ job["hitl"].msg \in Ends(session.q)
           \/ session.st = "stuck" /\ job["hitl"].msg = <<"stuck", session.q>>
BY DEF JobFollows, Types, SessionTypes, NoSession, Asked

LEMMA SendHeard ==
    ASSUME Types, JobFollows, Heard, NEW t \in Task, SendNext(t)
    PROVE  JobFollows' /\ Heard'
<1>0. PICK j : j = job[t]
    OBVIOUS
<1> DEFINE m == j.msg
<1>1. /\ UNCHANGED <<conns, session, popup, dialogs, up, faults>>
      /\ job \in [Task -> {Idle} \cup Broadcast] /\ conns \in Seq(Client) /\ IsInjective(conns)
      /\ inbox \in Seq(Message)
    BY DEF SendNext, screenVars, Types, WireTypes
<1>2. j \in Broadcast /\ m \in Message /\ j.at \in DOMAIN conns
    BY <1>0, <1>1 DEF SendNext, Broadcast
<1>3. \/ /\ conns[j.at] \in up /\ job' = [job EXCEPT ![t].at = @ + 1]
         /\ inbox' = IF conns[j.at] = "hmi" THEN Append(inbox, m) ELSE inbox
      \/ /\ conns[j.at] \notin up /\ inbox' = inbox
         /\ job' = [job EXCEPT ![t].at = @ + 1, ![t].dead = @ \cup {conns[j.at]}]
    BY <1>0 DEF SendNext
<1>4. /\ job'[t].msg = m /\ job'[t].at = j.at + 1 /\ job'[t] # Idle
      /\ conns[j.at] \in up => job'[t].dead = j.dead
      /\ \A u \in Task \ {t} : job'[u] = job[u]
    <2> DEFINE a == [j EXCEPT !.at = @ + 1]
               b == [a EXCEPT !.dead = @ \cup {conns[j.at]}]
    <2>1. a.msg = m /\ a.at = j.at + 1 /\ a.dead = j.dead /\ a \in Broadcast
        BY <1>2 DEF Broadcast
    <2>2. b.msg = a.msg /\ b.at = a.at
        BY <2>1 DEF Broadcast
    <2>3. /\ \/ job'[t] = a
             \/ conns[j.at] \notin up /\ job'[t] = b
          /\ \A u \in Task \ {t} : job'[u] = job[u]
        BY <1>0, <1>1, <1>3
    <2>4. j.at + 1 # 0
        BY <1>2 DEF Broadcast
    <2> HIDE DEF a, b
    <2> QED
        BY <2>1, <2>2, <2>3, <2>4 DEF Idle
<1>5. JobFollows'
    <2>1. CASE t = "hitl"
        <3>1. job["hitl"] # Idle /\ job["hitl"].msg = m /\ job'["hitl"].msg = m
            BY <1>0, <1>2, <1>4, <2>1 DEF Idle, Broadcast
        <3>2. job'["consumer"] = job["consumer"]
            BY <1>4, <2>1 DEF Task
        <3> QED
            BY <1>1, <3>1, <3>2, JobIs DEF JobFollows
    <2>2. CASE t # "hitl"
        <3>1. t = "consumer" /\ job["consumer"] # Idle /\ job["consumer"].msg = m
            BY <1>0, <1>2, <2>2 DEF Task, Idle, Broadcast
        <3>2. job'["consumer"].msg = m /\ job'["hitl"] = job["hitl"]
            BY <1>4, <3>1 DEF Task
        <3> QED
            BY <1>1, <3>1, <3>2 DEF JobFollows
    <2> QED
        BY <2>1, <2>2
<1>6. CASE ~Calm
    BY <1>1, <1>5, <1>6 DEF Heard, Calm
<1>7. CASE Calm
    <2>1. Wired /\ conns[j.at] \in up
        BY <1>1, <1>2, <1>7 DEF Heard, Wired
    <2>2. inbox' = IF conns[j.at] = "hmi" THEN Append(inbox, m) ELSE inbox
        BY <1>3, <2>1
    <2>3. \A u \in Task : job'[u].dead = {}
        BY <1>0, <1>4, <2>1 DEF Wired
    <2>4. ASSUME NEW q \in 1..MaxUses, Current(q)
          PROVE  Current(q)' \/ (m \in Ends(q) /\ inbox' = Append(inbox, m))
        <3>1. CASE t = "hitl" /\ conns[j.at] = "hmi" /\ session.st = "ending"
            <4>1. m \in Ends(q)
                BY <1>0, <2>4, <3>1 DEF JobFollows, Current
            <4> QED
                BY <2>2, <3>1, <4>1
        <3>2. CASE session.st # "ending"
            BY <1>1, <2>4, <3>2 DEF Current, Told
        <3>3. CASE t # "hitl"
            <4>1. job'["hitl"] = job["hitl"]
                BY <1>4, <3>3 DEF Task
            <4> QED
                BY <1>1, <2>4, <4>1 DEF Current, Told
        <3>4. CASE t = "hitl" /\ conns[j.at] # "hmi"
            <4>1. \A h \in DOMAIN conns : conns[h] = "hmi" /\ h < job'[t].at => h < j.at
                BY <1>1, <1>2, <1>4, <3>4 DEF Broadcast
            <4> QED
                BY <1>0, <1>1, <2>4, <3>4, <4>1 DEF Current, Told
        <3> QED
            BY <3>1, <3>2, <3>3, <3>4
    <2>5. ASSUME m[1] = "ask" PROVE Current(m[2])'
        <3>1. t = "hitl"
            BY <1>0, <1>2, <2>5 DEF JobFollows, Task, Text, Idle, Broadcast
        <3>2. session.st = "asking" /\ m = <<"ask", session.q>>
            <4>1. job["hitl"] # Idle
                BY <1>0, <1>2, <3>1 DEF Idle, Broadcast
            <4> QED
                BY <1>0, <2>5, <3>1, <4>1, JobIs DEF Ends
        <3>3. m[2] = session.q
            BY <3>2
        <3> QED
            BY <1>1, <3>2, <3>3 DEF Current, Told
    <2> HIDE DEF m
    <2>6. inbox' = inbox \/ inbox' = Append(inbox, m)
        BY <2>2
    <2>7. Heard'
        BY <1>1, <1>2, <2>3, <2>4, <2>5, <2>6, ToldHeard
    <2> QED
        BY <1>5, <2>7
<1> QED
    BY <1>6, <1>7

(* The end of a broadcast: nobody was gone *)
LEMMA DoneHears ==
    ASSUME Types, Heard, NEW t \in Task, UNCHANGED <<inbox, popup, dialogs, up, faults>>,
           conns' = Without(conns, job[t].dead), job'[t] = Idle,
           \A u \in Task \ {t} : job'[u] = job[u],
           \A q \in 1..MaxUses : Wired /\ Current(q) /\ conns' = conns => Current(q)'
    PROVE  Heard'
<1>1. CASE ~Calm
    BY <1>1 DEF Heard, Calm
<1>2. CASE Calm
    <2>1. Wired
        BY <1>2 DEF Heard
    <2>2. conns' = conns
        <3>1. job[t].dead = {} /\ conns \in Seq(Client)
            BY <2>1 DEF Wired, Types, WireTypes
        <3> QED
            BY <3>1, WithoutNone
    <2>3. \A u \in Task : job'[u].dead = {}
        <3>1. Idle.dead = {}
            BY DEF Idle
        <3> QED
            BY <2>1, <3>1 DEF Wired
    <2>4. \E m : m \in Message
        <3>1. <<"stop", 0>> \in Message
            BY DEF Message, Text
        <3> QED
            BY <3>1
    <2> QED
        BY <2>1, <2>2, <2>3, <2>4, ToldHeard
<1> QED
    BY <1>1, <1>2

LEMMA DoneHeard ==
    ASSUME Types, JobFollows, Heard, NEW t \in Task, SendDone(t)
    PROVE  JobFollows' /\ Heard'
<1> DEFINE j == job[t]
<1>1. /\ UNCHANGED <<inbox, popup, dialogs, up, faults>>
      /\ j # Idle /\ j.at > Len(conns) /\ conns' = Without(conns, j.dead)
      /\ job' = [job EXCEPT ![t] = Idle]
      /\ session' = IF t = "consumer" THEN session
                    ELSE CASE session.st = "asking" -> [session EXCEPT !.st = "open"]
                           [] session.st = "ending" -> NoSession
                           [] OTHER -> session
      /\ job \in [Task -> {Idle} \cup Broadcast] /\ conns \in Seq(Client)
      /\ session \in {NoSession} \cup Asked
    BY DEF SendDone, screenVars, Types, WireTypes, SessionTypes
<1>2. job'[t] = Idle /\ \A u \in Task \ {t} : job'[u] = job[u]
    BY <1>1
<1>3. CASE t = "consumer"
    <2>1. session' = session /\ job'["hitl"] = job["hitl"]
        BY <1>1, <1>2, <1>3 DEF Task
    <2>2. JobFollows'
        BY <1>2, <1>3, <2>1 DEF JobFollows
    <2>3. \A q \in 1..MaxUses : Current(q) /\ conns' = conns => Current(q)'
        BY <2>1 DEF Current, Told
    <2> QED
        BY <1>1, <1>2, <2>2, <2>3, DoneHears
<1>4. CASE t = "hitl"
    <2>1. job'["consumer"] = job["consumer"]
        BY <1>2, <1>4 DEF Task
    <2>2. \/ session.st = "asking" /\ session' = [session EXCEPT !.st = "open"]
          \/ session.st = "ending" /\ session' = NoSession
          \/ session.st = "stuck" /\ session' = session
        BY <1>1, <1>4, JobIs
    <2>3. \/ session.st = "asking" /\ session'.q = session.q /\ session'.st = "open"
          \/ session.st = "ending" /\ session'.st = "none"
          \/ session.st = "stuck" /\ session' = session
        BY <1>1, <2>2 DEF Asked, NoSession
    <2>4. JobFollows'
        BY <1>2, <1>4, <2>1, <2>3 DEF JobFollows
    <2>5. \A q \in 1..MaxUses : Wired /\ Current(q) /\ conns' = conns => Current(q)'
        <3>1. Wired /\ session.st = "ending" => Told
            <4>1. \A h \in DOMAIN conns : h < j.at
                BY <1>1 DEF Broadcast
            <4> QED
                BY <1>4, <4>1 DEF Wired, Told
        <3> QED
            BY <2>3, <3>1 DEF Current, Told
    <2> QED
        BY <1>1, <1>2, <2>4, <2>5, DoneHears
<1> QED
    BY <1>3, <1>4 DEF Task

(* The question is answered or open again *)
LEMMA SessionHeard ==
    ASSUME Types, JobFollows, Heard, UNCHANGED <<conns, job, inbox, up, popup, dialogs>>,
           faults \subseteq faults', session'.q = session.q,
           session.st \in {"open", "answered"}, session'.st \in {"open", "answered"}
    PROVE  JobFollows' /\ Heard'
<1>1. JobFollows'
    BY DEF JobFollows
<1>2. \A q \in 1..MaxUses : Current(q) => Current(q)'
    BY DEF Current, Told
<1>3. Wired => \A t \in Task : job'[t].dead = {}
    BY DEF Wired
<1>4. <<"stop", 0>> \in Message
    BY DEF Message, Text
<1>5. \E m : m \in Message
    BY <1>4
<1> QED
    BY <1>1, <1>2, <1>3, <1>5, ToldHeard

(* No socket is taken for dead when the screen comes back. *)
LEMMA ReconnectFollows == ASSUME Types, JobFollows, Reconnect PROVE JobFollows'
<1>1. /\ session' = session /\ job \in [Task -> {Idle} \cup Broadcast]
      /\ \A t \in Task : job'[t] = [job[t] EXCEPT !.dead = @ \ {"hmi"}]
    BY DEF Reconnect, Types, WireTypes
<1>2. ASSUME NEW t \in Task
      PROVE  job'[t].msg = job[t].msg /\ (job[t] = Idle => job'[t] = Idle)
    <2>1. CASE job[t] = Idle
        BY <1>1, <2>1, IdleStays
    <2>2. CASE job[t] # Idle
        <3>1. job[t] \in Broadcast
            BY <1>1, <2>2
        <3> QED
            BY <1>1, <2>2, <3>1 DEF Broadcast
    <2> QED
        BY <2>1, <2>2
<1> QED
    BY <1>1, <1>2 DEF JobFollows, Task

(* The session's own steps.  The screen still has to hear of the end of a  *)
(* question when its broadcast starts.                                     *)
LEMMA QuestionHeard ==
    ASSUME Types, JobFollows, Heard, Question
    PROVE  JobFollows' /\ Heard'
<1>1. /\ UNCHANGED <<conns, up, popup, dialogs, inbox>> /\ faults \subseteq faults'
      /\ job \in [Task -> {Idle} \cup Broadcast] /\ conns \in Seq(Client)
      /\ session \in {NoSession} \cup Asked
    BY DEF Question, Ask, VoiceAnswer, Conclude, Reset, Goes, screenVars, Types, WireTypes,
           SessionTypes
<1>2. \E m : m \in Message
    <2>1. <<"stop", 0>> \in Message
        BY DEF Message, Text
    <2> QED
        BY <2>1
<1>3. ASSUME NEW msg, Start("hitl", msg)
      PROVE  /\ job'["hitl"].msg = msg /\ job'["hitl"].at = 1
             /\ job'["consumer"] = job["consumer"]
             /\ Wired => \A t \in Task : job'[t].dead = {}
    BY <1>1, <1>3 DEF Start, Task, Wired
<1>4. CASE Ask
    <2>1. /\ session = NoSession /\ session' = [q |-> count'.uses, st |-> "asking"]
          /\ Start("hitl", <<"ask", count'.uses>>)
        BY <1>4 DEF Ask
    <2>2. JobFollows'
        BY <1>3, <2>1 DEF JobFollows
    <2>3. \A q \in 1..MaxUses : ~Current(q)
        BY <2>1 DEF Current, NoSession
    <2> QED
        BY <1>1, <1>2, <1>3, <2>1, <2>2, <2>3, ToldHeard
<1>5. CASE UNCHANGED job /\ session.st # "ending" /\ session' \in Asked
           /\ session'.q = session.q /\ session'.st \in {"open", "answered"}
           /\ session.st \in {"open", "answered"}
    BY <1>5, SessionHeard, <1>1
<1>6. CASE VoiceAnswer
    <2>1. session \in Asked /\ session' = [session EXCEPT !.st = "answered"]
          /\ session.st = "open" /\ UNCHANGED job
        BY <1>1, <1>6 DEF VoiceAnswer, NoSession
    <2> QED
        BY <1>5, <2>1 DEF Asked
<1>7. CASE Conclude
    <2>1. session \in Asked /\ session.st = "answered"
        BY <1>1, <1>7 DEF Conclude, NoSession
    <2>2. CASE session' = [session EXCEPT !.st = "open"] /\ UNCHANGED job
        BY <1>5, <2>1, <2>2 DEF Asked
    <2>3. ASSUME NEW end \in {"resolved", "skipped"},
                 session' = [session EXCEPT !.st = "ending"], Start("hitl", <<end, session.q>>)
          PROVE  JobFollows' /\ Heard'
        <3>1. session'.q = session.q /\ session'.st = "ending"
            BY <2>1, <2>3 DEF Asked
        <3>2. JobFollows'
            BY <1>3, <2>3, <3>1 DEF JobFollows, Ends
        <3>3. ~Told'
            <4>1. \A h \in DOMAIN conns : ~(h < 1)
                BY <1>1
            <4> QED
                BY <1>1, <1>3, <2>3, <4>1 DEF Told
        <3>4. \A q \in 1..MaxUses : Current(q) => Current(q)'
            BY <3>1, <3>3 DEF Current
        <3> QED
            BY <1>1, <1>2, <1>3, <2>3, <3>2, <3>4, ToldHeard
    <2>4. CASE session' = [session EXCEPT !.st = "stuck"] /\ Start("hitl", <<"stuck", session.q>>)
        <3>1. session'.q = session.q /\ session'.st = "stuck"
            BY <2>1, <2>4 DEF Asked
        <3>2. JobFollows'
            BY <1>3, <2>4, <3>1 DEF JobFollows
        <3>3. \A q \in 1..MaxUses : Current(q) => Current(q)'
            BY <3>1 DEF Current, Told
        <3> QED
            BY <1>1, <1>2, <1>3, <2>4, <3>2, <3>3, ToldHeard
    <2> QED
        BY <1>7, <2>2, <2>3, <2>4 DEF Conclude
<1>8. CASE Reset
    <2>1. job' = job /\ job["hitl"] = Idle /\ session' = NoSession /\ "reset" \in faults'
        BY <1>8 DEF Reset, Goes
    <2>2. JobFollows'
        BY <2>1 DEF JobFollows, NoSession
    <2> QED
        BY <2>1, <2>2 DEF Heard, Calm
<1> QED
    BY <1>4, <1>6, <1>7, <1>8 DEF Question

LEMMA PollHeard == ASSUME Types, JobFollows, Heard, Poll PROVE JobFollows' /\ Heard'
<1>0. PICK m : m = Head(inbox)
    OBVIOUS
<1> DEFINE n == Len(inbox)
<1>1. /\ UNCHANGED <<conns, job, session, up, faults>>
      /\ inbox # <<>> /\ inbox \in Seq(Message) /\ inbox' = Tail(inbox)
      /\ "resolved" \notin dialogs
    BY DEF Poll, backendVars, Types, WireTypes
<1>2. /\ n \in Nat \ {0} /\ DOMAIN inbox = 1..n /\ inbox[1] = m /\ m \in Message
      /\ DOMAIN inbox' = 1..(n - 1) /\ \A i \in 1..(n - 1) : inbox'[i] = inbox[i + 1]
    BY <1>0, <1>1
<1> HIDE DEF n
<1>3. JobFollows'
    BY <1>1 DEF JobFollows
<1> SUFFICES ASSUME Calm' PROVE (Wired /\ AsksEnd /\ PopupEnds)'
    BY <1>3 DEF Heard
<1>4. Calm /\ Wired /\ AsksEnd /\ PopupEnds
    BY <1>1 DEF Calm, Heard
<1>5. Wired' /\ (Told' <=> Told)
    BY <1>1, <1>4 DEF Wired, Told
<1>6. ASSUME NEW q, NEW i \in 0..(n - 1), EndsAfter(q, i + 1)
      PROVE  EndsAfter(q, i)'
    <2>1. PICK j \in 1..n : i + 1 < j /\ inbox[j] \in Ends(q)
        BY <1>2, <1>6 DEF EndsAfter
    <2>2. j - 1 \in 1..(n - 1) /\ i < j - 1 /\ inbox'[j - 1] = inbox[j]
        <3>1. j - 1 \in 1..(n - 1) /\ i < j - 1 /\ (j - 1) + 1 = j
            BY <1>2, <2>1
        <3> QED
            BY <1>2, <3>1
    <2> QED
        BY <1>2, <2>1, <2>2 DEF EndsAfter
<1>7. ASSUME NEW q, EndsAfter(q, 0), m \notin Ends(q) PROVE EndsAfter(q, 0)'
    <2>1. PICK j \in 1..n : 0 < j /\ inbox[j] \in Ends(q)
        BY <1>2, <1>7 DEF EndsAfter
    <2>2. j # 1
        BY <1>2, <1>7, <2>1
    <2>3. EndsAfter(q, 1)
        BY <1>2, <2>1, <2>2 DEF EndsAfter
    <2>4. 0 \in 0..(n - 1) /\ 0 + 1 = 1
        BY <1>2
    <2> QED
        BY <1>6, <2>3, <2>4
<1>8. AsksEnd'
    <2> SUFFICES ASSUME NEW i \in DOMAIN inbox', inbox'[i][1] = "ask"
                 PROVE  (Current(inbox[i][2]) \/ EndsAfter(inbox[i][2], i))'
        BY DEF AsksEnd
    <2>1. PICK q : q = inbox'[i][2]
        OBVIOUS
    <2>2. i \in 1..(n - 1) /\ i \in 0..(n - 1) /\ i + 1 \in DOMAIN inbox /\ inbox'[i] = inbox[i + 1]
        BY <1>2
    <2>3. Current(q) \/ EndsAfter(q, i + 1)
        BY <1>4, <2>1, <2>2 DEF AsksEnd
    <2>4. (Current(q) \/ EndsAfter(q, i))'
        BY <1>1, <1>5, <1>6, <2>2, <2>3 DEF Current
    <2> QED
        BY <2>1, <2>4 DEF Current, EndsAfter
<1>9. PopupEnds'
    <2>1. ASSUME NEW q, m \notin Ends(q), Current(q) \/ EndsAfter(q, 0)
          PROVE  Current(q)' \/ EndsAfter(q, 0)'
        BY <1>1, <1>5, <1>7, <2>1 DEF Current
    <2>2. popup # 0 => Current(popup) \/ EndsAfter(popup, 0)
        BY <1>1, <1>4 DEF PopupEnds
    <2>3. CASE popup' = popup /\ m[1] \notin {"resolved", "skipped"}
        <3>1. PICK q : q = popup
            OBVIOUS
        <3>2. m \notin Ends(q)
            BY <2>3 DEF Ends
        <3>3. popup # 0 => Current(q)' \/ EndsAfter(q, 0)'
            BY <2>1, <2>2, <3>1, <3>2
        <3> QED
            BY <2>3, <3>1, <3>3 DEF PopupEnds, Current, EndsAfter
    <2>4. CASE popup' = m[2] /\ m[1] = "ask"
        <3>1. PICK q : q = m[2]
            OBVIOUS
        <3>2. Current(q) \/ EndsAfter(q, 1)
            BY <1>2, <1>4, <2>4, <3>1 DEF AsksEnd
        <3>3. Current(q)' \/ EndsAfter(q, 0)'
            <4>1. 0 \in 0..(n - 1) /\ 0 + 1 = 1
                BY <1>2
            <4> QED
                BY <1>1, <1>5, <1>6, <3>2, <4>1 DEF Current
        <3> QED
            BY <2>4, <3>1, <3>3 DEF PopupEnds, Current, EndsAfter
    <2>5. CASE m[1] = "resolved"
        BY <2>5, <1>0 DEF Poll, HearEnd, PopupEnds
    <2>6. CASE m[1] = "skipped"
        BY <2>6, <1>0 DEF Poll, HearEnd, PopupEnds
    <2>7. \/ popup' = popup /\ m[1] \notin {"resolved", "skipped"}
          \/ popup' = m[2] /\ m[1] = "ask"
          \/ m[1] = "resolved"
          \/ m[1] = "skipped"
        <3>1. CASE m[1] \in {"stop", "wait", "blocked"}
            BY <1>0, <3>1 DEF Poll
        <3>2. CASE m[1] = "ask"
            BY <1>0, <3>2 DEF Poll, HearAsk
        <3>3. CASE m[1] = "stuck"
            BY <1>0, <3>3 DEF Poll, HearEnd
        <3> QED
            BY <1>2, <3>1, <3>2, <3>3, MessageIs
    <2> QED
        BY <2>3, <2>4, <2>5, <2>6, <2>7
<1> QED
    BY <1>5, <1>8, <1>9

LEMMA StepHeard ==
    ASSUME Types, JobFollows, Heard, [Next]_vars
    PROVE  JobFollows' /\ Heard'
<1>1. CASE UNCHANGED vars \/ Robot \/ Operator
    <2>1. /\ UNCHANGED <<conns, job, session, inbox, up, dialogs>> /\ popup' \in {popup, 0}
          /\ faults \subseteq faults'
        BY <1>1 DEF vars, backendVars, screenVars, Robot, RobotStops, Recovered, HwReset, VoiceStop,
                    VoicePause, Block, Goes, Operator, PressEstop, PressPause, PressManual,
                    PressResume, PressAnswer, ClosePopup
    <2> QED
        BY <2>1, AsideHeard
<1>2. CASE Sending
    <2>1. DOMAIN job = Task
        BY DEF Types, WireTypes
    <2> QED
        BY <1>2, <2>1, TakeHeard, SendHeard, DoneHeard DEF Sending
<1>3. CASE Question
    BY <1>3, QuestionHeard
<1>4. CASE Poll
    BY <1>4, PollHeard
<1>5. ASSUME NEW d, Dismiss(d) PROVE JobFollows' /\ Heard'
    <2>1. /\ UNCHANGED <<conns, job, session, inbox, up, faults>>
          /\ popup' = IF d = "resolved" THEN 0 ELSE popup
          /\ dialogs' = dialogs \ {d}
        BY <1>5 DEF Dismiss, backendVars
    <2> QED
        BY <2>1, AsideHeard
<1>6. ASSUME NEW c \in Call, Calling(c) PROVE JobFollows' /\ Heard'
    <2>1. /\ UNCHANGED <<conns, job, inbox, up, popup>> /\ dialogs \subseteq dialogs'
          /\ faults \subseteq faults'
        BY <1>6 DEF Calling, Handle, Refuse, Timeout, Succeed, Fail, Conflict, backendVars,
                    screenVars, Goes
    <2>2. CASE UNCHANGED session
        BY <2>1, <2>2, AsideHeard
    <2>3. CASE ~UNCHANGED session
        <3>1. c = "ANSWER" /\ Handle(c)
            BY <1>6, <2>3 DEF Calling, Handle, Refuse, Timeout, Succeed, Fail, Conflict, Effect,
                              backendVars
        <3>2. /\ session.st = "open" /\ session' = [session EXCEPT !.st = "answered"]
              /\ UNCHANGED dialogs
            BY <3>1 DEF Handle, Effect, screenVars
        <3>3. session \in Asked
            BY <3>2 DEF Types, SessionTypes, NoSession
        <3>4. session'.q = session.q /\ session'.st = "answered"
            BY <3>2, <3>3 DEF Asked
        <3> QED
            BY <2>1, <3>2, <3>4, SessionHeard
    <2> QED
        BY <2>2, <2>3
<1>7. ASSUME NEW c \in Client, Drop(c) PROVE JobFollows' /\ Heard'
    <2>1. /\ UNCHANGED <<conns, job, session, inbox, popup, dialogs>> /\ faults \subseteq faults'
          /\ "drop" \in faults' \/ "leave" \in faults'
        BY <1>7 DEF Drop, Goes, backendVars, screenVars
    <2> QED
        BY <2>1, AsideHeard DEF Calm
<1>8. CASE Reconnect \/ \E c \in Client : Disconnect(c)
    <2>1. up # Client /\ UNCHANGED <<session, faults>>
        BY <1>8 DEF Reconnect, Disconnect, Client
    <2>2. ~Calm'
        BY <2>1 DEF Heard, Wired, Calm
    <2>3. JobFollows'
        <3>1. CASE Reconnect
            BY <3>1, ReconnectFollows
        <3>2. CASE \E c \in Client : Disconnect(c)
            BY <3>2 DEF Disconnect, JobFollows
        <3> QED
            BY <1>8, <3>1, <3>2
    <2> QED
        BY <2>2, <2>3 DEF Heard
<1> QED
    BY <1>1, <1>2, <1>3, <1>4, <1>5, <1>6, <1>7, <1>8 DEF Next, Screen, Sockets

(* The popup is about the question that is open, or the end of its         *)
(* question is on its way to the screen, for any number of questions and   *)
(* any other clients, unless a client went or the session was reset        *)
(* (dashboard.py:272, hitl_state_machine.py:258).                          *)
THEOREM PopupAlwaysFollows == Spec => []PopupFollows
<1>1. Init => Types /\ JobFollows /\ Heard
    BY InitTypes, InitHeard
<1>2. Types /\ JobFollows /\ Heard /\ [Next]_vars => (Types /\ JobFollows /\ Heard)'
    BY StepTypes, StepHeard
<1>3. Heard => PopupFollows
    BY DEF Heard, Calm, PopupEnds, Current, EndsAfter, Ends, PopupFollows
<1> QED
    BY <1>1, <1>2, <1>3, PTL DEF Spec
=============================================================================
