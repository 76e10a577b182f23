------------------------ MODULE VisionPipelineProofs ------------------------
(* What holds of VisionPipeline for every number of apples and samples,    *)
(* every size of the queues and every number of faults.                    *)
(*                                                                         *)
(* A question is opened only by Act, at once in Consume or later in        *)
(* VlmAnswers; what the first has looked at must still be true in the      *)
(* second (HandIsFree).  A report thrown away leaves the duplicate filter  *)
(* with the session it was thrown away for, unless the administrator       *)
(* resets that one: force_reset forgets nothing.                           *)
(*                                                                         *)
(* The types hold because an answer on its way has a status, a majority of *)
(* samples is a sample's status with a place (MajorityIs), and the gripper *)
(* holds an apple of the tray (Types).                                     *)
EXTENDS VisionPipeline, RecursionProofs, TLAPS

(* While the consumer awaits the VLM no session is open: only the loop     *)
(* itself opens one (main.py:218).                                         *)
HandIsFree == hand # NoItem => session = NoSession

IsSession == session = [st |-> session.st, pos |-> session.pos]

AskInv == IsSession /\ HandIsFree

AskedInOrder == session = NoSession \/ session'.st # "open" \/ session' = session

USE DEF IsSession

(* Act leaves the session or opens one *)
LEMMA ActOpens ==
    ASSUME NEW item, NEW verdict, Act(item, verdict)
    PROVE  session' = session \/ session' = [st |-> "open", pos |-> item.pos]
BY DEF Act

LEMMA InitAsk == Init => AskInv
BY DEF Init, AskInv, HandIsFree, NoSession, NoItem

(* One step keeps HandIsFree, and opens a question only over none. *)
LEMMA StepAsk == AskInv /\ [Next]_vars => AskInv' /\ (AskedInOrder \/ session' = session)
<1> SUFFICES ASSUME AskInv, [Next]_vars
             PROVE  AskInv' /\ (AskedInOrder \/ session' = session)
    OBVIOUS
<1> USE DEF AskInv, HandIsFree, AskedInOrder
<1>same. ASSUME UNCHANGED <<session, hand>> PROVE AskInv' /\ session' = session
    BY <1>same
<1>closed. ASSUME session' = NoSession PROVE AskInv' /\ AskedInOrder
    BY <1>closed DEF NoSession
<1>1. CASE UNCHANGED vars
    BY <1>1, <1>same DEF vars, loopVars
<1>2. CASE PollOnce \/ OnResponse \/ Report \/ ProcessStateCallback \/ GripperStatusCallback
    BY <1>2, <1>same
       DEF PollOnce, OnResponse, Report, ProcessStateCallback, GripperStatusCallback, loopVars
<1>3. CASE Consume
    <2>1. CASE UNCHANGED <<session, hand>>
        BY <2>1, <1>same
    <2>2. CASE session = NoSession /\ UNCHANGED session
        BY <2>2 DEF NoSession
    <2>3. CASE /\ session = NoSession /\ UNCHANGED hand /\ hand = NoItem
               /\ \E v \in Verdicts : Act(Head(queue), v)
        <3>1. session' = session \/ session' = [st |-> "open", pos |-> Head(queue).pos]
            BY <2>3, ActOpens
        <3> QED
            BY <3>1, <2>3, <1>same
    <2> QED
        BY <1>3, <2>1, <2>2, <2>3 DEF Consume, Occupied
<1>4. CASE VlmAnswers
    <2>1. session = NoSession /\ hand' = NoItem
        BY <1>4 DEF VlmAnswers
    <2>2. session' = session \/ session' = [st |-> "open", pos |-> hand.pos]
        BY <1>4, ActOpens DEF VlmAnswers
    <2> QED
        BY <2>1, <2>2 DEF NoSession
<1>5. CASE SessionAnswered
    <2>1. session' = [st |-> "closing", pos |-> session.pos] /\ hand' = hand
        BY <1>5 DEF SessionAnswered
    <2>2. session # NoSession
        BY <1>5 DEF SessionAnswered, NoSession
    <2> QED
        BY <2>1, <2>2
<1>6. CASE SessionCleanup \/ AdminReset \/ VoicePolicy
    BY <1>6, <1>closed DEF SessionCleanup, AdminReset, VoicePolicy
<1>7. CASE Robot
    BY <1>7, <1>same DEF Robot, TakeDecision, Pick, Place, GiveUp, Stop, Recover, Pause, Unpause,
                         loopVars
<1>8. CASE VisionAnswers \/ VisionFails \/ FallBehind
    BY <1>8, <1>same DEF VisionAnswers, VisionFails, FallBehind, loopVars
<1> QED
    BY <1>1, <1>2, <1>3, <1>4, <1>5, <1>6, <1>7, <1>8 DEF Next, Backend, Operator

(* A question is never opened while another one is open, whatever decide() *)
(* waits for and whoever closes a session meanwhile (main.py:218).         *)
THEOREM NeverAskedOver == Spec => AsksOneAtATime
<1>1. AskInv /\ [Next]_vars
        => [session = NoSession \/ session'.st # "open" \/ session' = session]_vars
    BY StepAsk DEF AskedInOrder
<1> QED
    BY InitAsk, StepAsk, <1>1, PTL DEF Spec, AsksOneAtATime
---------------------------------------------------------------------------
(* The filter                                                              *)

LEMMA DroppedBefore == ASSUME Dropped(FALSE), dropped' PROVE dropped
BY DEF Dropped

(* What happened has happened. *)
LEMMA FaultsGrow == ASSUME [Next]_vars PROVE faults \subseteq faults'
<1> USE DEF Fault
<1>1. CASE Backend \/ UNCHANGED vars
    BY <1>1 DEF vars, Backend, PollOnce, OnResponse, Report, ProcessStateCallback,
                GripperStatusCallback, Consume, VlmAnswers, SessionCleanup
<1>2. CASE Operator
    BY <1>2 DEF Operator, SessionAnswered, AdminReset, VoicePolicy
<1>3. CASE Robot
    BY <1>3 DEF Robot, TakeDecision, Pick, Place, GiveUp, Stop, Recover, Pause, Unpause
<1>4. CASE VisionAnswers \/ VisionFails \/ FallBehind
    BY <1>4 DEF VisionAnswers, VisionFails, FallBehind
<1> QED
    BY <1>1, <1>2, <1>3, <1>4 DEF Next

(* Without an administrator's reset every way a session ends goes through  *)
(* force_redetect, and only Report fills the filter.                       *)
LEMMA StepForgotten ==
    ASSUME BusyReportsForgotten, [Next]_vars
    PROVE  BusyReportsForgotten'
<1> USE DEF BusyReportsForgotten
<1> SUFFICES ASSUME session' = NoSession, dropped', "reset" \notin faults'
             PROVE  cache' = NoCache
    OBVIOUS
<1>0. "reset" \notin faults
    BY FaultsGrow
<1>same. ASSUME session = NoSession, dropped, cache' = cache PROVE cache' = NoCache
    BY <1>0, <1>same
<1>1. CASE UNCHANGED vars
    BY <1>1, <1>same DEF vars, loopVars, bridgeVars
<1>2. CASE PollOnce \/ GripperStatusCallback \/ VisionAnswers \/ VisionFails \/ FallBehind \/ Robot
    BY <1>2, <1>same DEF PollOnce, GripperStatusCallback, VisionAnswers, VisionFails, FallBehind, Robot,
         TakeDecision, Pick, Place, GiveUp, Stop, Recover, Pause, Unpause, loopVars, bridgeVars
<1>3. CASE OnResponse
    BY <1>3, <1>same DEF OnResponse, loopVars
<1>4. CASE Report
    BY <1>4 DEF Report
<1>5. CASE ProcessStateCallback
    BY <1>5, <1>same DEF ProcessStateCallback, ForceRedetect, loopVars
<1>6. CASE Consume
    <2>1. cache' = cache /\ queue # <<>>
        BY <1>6 DEF Consume, bridgeVars
    <2>2. CASE Dropped(FALSE) /\ UNCHANGED session
        BY <2>1, <2>2, <1>same, DroppedBefore
    <2>3. CASE Occupied /\ UNCHANGED session
        BY <2>3 DEF Occupied
    <2>4. CASE ~Occupied /\ Dropped(FALSE)
        BY <2>1, <2>4, <1>same, DroppedBefore DEF Occupied
    <2> QED
        BY <1>6, <2>2, <2>3, <2>4 DEF Consume
<1>7. CASE VlmAnswers
    <2>1. session = NoSession
        BY <1>7, ActOpens DEF VlmAnswers, NoSession
    <2> QED
        BY <1>7, <2>1, <1>same DEF VlmAnswers, bridgeVars
<1>8. CASE SessionAnswered
    BY <1>8, <1>same DEF SessionAnswered, NoSession
<1>9. CASE SessionCleanup \/ VoicePolicy
    BY <1>9 DEF SessionCleanup, VoicePolicy, ForceRedetect
<1>10. CASE AdminReset
    BY <1>10 DEF AdminReset, Fault
<1> QED
    BY <1>1, <1>2, <1>3, <1>4, <1>5, <1>6, <1>7, <1>8, <1>9, <1>10 DEF Next, Backend, Operator

(* As long as the administrator resets no session, a detection thrown away *)
(* because of a session is out of the duplicate filter when the session is *)
(* over, however the threads interleave (hitl_state_machine.py:367).       *)
THEOREM AlwaysForgotten == Spec => []BusyReportsForgotten
<1>1. Init => BusyReportsForgotten
    BY DEF Init, BusyReportsForgotten
<1>2. BusyReportsForgotten /\ [Next]_vars => BusyReportsForgotten'
    BY StepForgotten
<1> QED
    BY <1>1, <1>2, PTL DEF Spec
---------------------------------------------------------------------------
(* Types                                                                   *)

(* The parts of TypeOK.  An answer has a status, and what the gripper holds *)
(* is one of the apples. *)
BridgeTypes ==
    /\ call \in [st : {"idle", "asked", "answered"}, avoid : Position,
                 status : {"none", "known", "unknown", "empty"}, pos : Position]
    /\ call.st = "answered" => call.status # "none"
    /\ cache \in [status : {"none", "known", "unknown"}, pos : Position]
    /\ streak \in 0..EmptyReset
    /\ samples \in Seq(Item) /\ Len(samples) < Confirm
    /\ confirmed \in Item \cup {NoItem}
    /\ skip \in Position
LoopTypes ==
    /\ queue \in Seq(Item) /\ Len(queue) <= QueueSize
    /\ hand \in Item \cup {NoItem}
    /\ session \in [st : {"none", "open", "closing"}, pos : Position]
    /\ decisions \in Seq(BOOLEAN) /\ Len(decisions) <= MaxDecisions
    /\ dropped \in BOOLEAN
RobotTypes ==
    /\ {seen, state} \subseteq {"IDLE", "READY", "MOVING", "ERROR", "PAUSED"}
    /\ graspSeen \in BOOLEAN /\ grasped \in BOOLEAN /\ unread \in BOOLEAN
    /\ carry \in Position /\ tray \subseteq Apple
    /\ grasped => carry \in Apple
Types == BridgeTypes /\ LoopTypes /\ RobotTypes /\ faults \subseteq Faults

(* Max takes one of its set *)
LEMMA MaxIn == ASSUME NEW n \in Nat, NEW S, S \subseteq 0..n, S # {}
               PROVE  Max(S) \in S
<1>1. PICK x \in S : \A y \in S : x >= y
    BY GreatestNat
<1> QED
    BY <1>1 DEF Max

(* What the detection node sees lies on the tray *)
LEMMA SightIs ==
    ASSUME tray \subseteq Apple, NEW avoid
    PROVE  /\ Sight(avoid).status \in {"known", "unknown", "empty"}
           /\ Sight(avoid).pos \in tray \cup {NoPos}
           /\ tray # {} => Sight(avoid).pos \in tray
<1>1. Apples \in Nat /\ tray \subseteq 0..Apples /\ NoPos = 0 /\ 0 \notin tray
    BY PipelineAssumption DEF Apple, NoPos
<1>2. BestBox(avoid) \in tray \cup {NoPos}
    <2> DEFINE pool == (tray \cap Known) \ {avoid}
    <2>1. pool \subseteq 0..Apples
        BY <1>1
    <2>2. CASE pool = {}
        BY <2>2 DEF BestBox
    <2>3. CASE pool # {}
        <3>1. Max(pool) \in pool
            BY <1>1, <2>1, <2>3, MaxIn
        <3> QED
            BY <2>3, <3>1 DEF BestBox
    <2> QED
        BY <2>2, <2>3
<1>3. IF tray = {} THEN LargestBlob = NoPos ELSE LargestBlob \in tray
    BY <1>1, MaxIn DEF LargestBlob
<1>4. LargestBlob # NoPos <=> tray # {}
    BY <1>1, <1>3
<1> QED
    BY <1>1, <1>2, <1>3, <1>4 DEF Sight

(* A majority of samples is an item *)
LEMMA MajorityIs ==
    ASSUME NEW s \in Seq(Item), s # <<>>
    PROVE  Majority(s) \in Item
<1> DEFINE n      == Len(s)
           Counts == {Count(s[i].status, s) : i \in DOMAIN s}
           most   == Max(Counts)
           Firsts == {i \in 1..n : Count(s[i].status, s) = most}
           first  == CHOOSE i \in DOMAIN s :
                        /\ Count(s[i].status, s) = most
                        /\ \A j \in 1..(i - 1) : Count(s[j].status, s) < most
           spots  == {s[i].pos : i \in {j \in DOMAIN s : s[j].status = s[first].status}} \ {NoPos}
<1>1. n \in Nat /\ n >= 1 /\ DOMAIN s = 1..n /\ \A i \in 1..n : s[i] \in Item
    OBVIOUS
<1>2. ASSUME NEW st PROVE Count(st, s) \in 0..n
    <2>1. IsFiniteSet(1..n) /\ Cardinality(1..n) = n
        BY <1>1, FS_Interval
    <2>2. {i \in DOMAIN s : s[i].status = st} \in SUBSET (1..n)
        BY <1>1
    <2>3. /\ IsFiniteSet({i \in DOMAIN s : s[i].status = st})
          /\ Cardinality({i \in DOMAIN s : s[i].status = st}) <= n
        BY <2>1, <2>2, FS_Subset
    <2>4. Cardinality({i \in DOMAIN s : s[i].status = st}) \in Nat
        BY <2>3, FS_CardinalityType
    <2> QED
        BY <1>1, <2>3, <2>4 DEF Count
<1>3. PICK k \in 1..n : Count(s[k].status, s) = most
    <2>1. Counts \subseteq 0..n /\ Counts # {}
        BY <1>1, <1>2
    <2>2. most \in Counts
        <3> HIDE DEF Counts
        <3> QED
            BY <1>1, <2>1, MaxIn
    <2> QED
        BY <1>1, <2>2
<1>4. \A i \in 1..n : Count(s[i].status, s) \in Nat /\ Count(s[i].status, s) <= most
    <2>1. Counts \subseteq 0..n /\ Counts # {}
        BY <1>1, <1>2
    <2>2. \A c \in Counts : most >= c
        <3> HIDE DEF Counts
        <3>1. PICK x \in Counts : \A y \in Counts : x >= y
            BY <1>1, <2>1, GreatestNat
        <3> QED
            BY <3>1 DEF Max
    <2>3. most \in Nat
        BY <1>2, <1>3
    <2> HIDE DEF most
    <2>4. ASSUME NEW i \in 1..n PROVE Count(s[i].status, s) \in Counts
        BY <1>1
    <2>5. ASSUME NEW i \in 1..n
          PROVE  Count(s[i].status, s) \in Nat /\ Count(s[i].status, s) <= most
        <3>1. Count(s[i].status, s) \in 0..n
            BY <1>2
        <3> QED
            BY <1>1, <2>2, <2>3, <2>4, <3>1
    <2> QED
        BY <2>5
<1>5. first \in 1..n
    <2>1. Firsts \subseteq Nat /\ Firsts # {}
        <3> HIDE DEF most
        <3>1. k \in Firsts
            BY <1>3
        <3>2. Firsts \subseteq 1..n /\ n \in Nat
            BY <1>1
        <3> HIDE DEF Firsts, n
        <3> QED
            BY <3>1, <3>2
    <2>2. PICK i \in Firsts : \A j \in Firsts : i <= j
        <3> HIDE DEF Firsts
        <3> QED
            BY <2>1, LeastNat
    <2>3. i \in 1..n /\ Count(s[i].status, s) = most
        BY <2>2
    <2>4. most \in Nat
        BY <1>2, <1>3
    <2>5. ASSUME NEW j \in 1..(i - 1) PROVE Count(s[j].status, s) < most
        <3>1. j \in 1..n /\ ~(i <= j)
            BY <1>1, <2>3
        <3>2. Count(s[j].status, s) # most
            <4>1. j \notin Firsts
                BY <2>2, <3>1
            <4> QED
                BY <3>1, <4>1
        <3> HIDE DEF most
        <3> QED
            BY <1>4, <2>4, <3>1, <3>2
    <2> HIDE DEF most
    <2> QED
        BY <1>1, <2>3, <2>5
<1>6. s[first] \in Item /\ spots \subseteq Position
    <2> HIDE DEF first
    <2> QED
        BY <1>1, <1>5 DEF Item
<1>7. ASSUME spots # {}, Cardinality(spots) = 1 PROVE Max(spots) \in Position
    <2> HIDE DEF spots
    <2>1. Apples + 1 \in Nat /\ Position = 0..(Apples + 1)
        BY PipelineAssumption DEF Position
    <2> QED
        BY <1>6, <1>7, <2>1, MaxIn
<1>8. NoPos \in Position /\ Elsewhere \in Position
    BY PipelineAssumption DEF NoPos, Elsewhere, Position
<1>9. Majority(s) = [status |-> s[first].status,
                     pos    |-> IF spots = {} THEN NoPos
                                ELSE IF Cardinality(spots) = 1 THEN Max(spots) ELSE Elsewhere]
    BY DEF Majority
<1> HIDE DEF first, spots
<1> QED
    BY <1>6, <1>7, <1>8, <1>9 DEF Item

LEMMA TypesGive == ASSUME Types PROVE TypeOK
    BY DEF Types, BridgeTypes, LoopTypes, RobotTypes, TypeOK

(* Places *)
LEMMA PlacesAre == /\ Apple \subseteq Position /\ NoPos \in Position /\ Elsewhere \in Position
                   /\ NoPos \notin Apple
    BY PipelineAssumption DEF Apple, Position, NoPos, Elsewhere

LEMMA InitTypes == ASSUME Init PROVE Types
<1> USE PlacesAre
<1>1. BridgeTypes
    <2>1. call \in [st : {"idle", "asked", "answered"}, avoid : Position,
                    status : {"none", "known", "unknown", "empty"}, pos : Position]
        BY DEF Init, Idle
    <2>2. call.st = "idle" /\ cache \in [status : {"none", "known", "unknown"}, pos : Position]
        BY DEF Init, Idle, NoCache
    <2>3. streak \in 0..EmptyReset /\ samples \in Seq(Item) /\ Len(samples) < Confirm
        BY PipelineAssumption DEF Init
    <2>4. confirmed \in Item \cup {NoItem} /\ skip \in Position
        BY DEF Init
    <2> QED
        BY <2>1, <2>2, <2>3, <2>4 DEF BridgeTypes
<1>2. LoopTypes
    <2>1. queue \in Seq(Item) /\ Len(queue) <= QueueSize
        BY PipelineAssumption DEF Init
    <2>2. decisions \in Seq(BOOLEAN) /\ Len(decisions) <= MaxDecisions
        BY PipelineAssumption DEF Init
    <2>3. hand = NoItem /\ dropped = FALSE
        BY DEF Init
    <2>4. session \in [st : {"none", "open", "closing"}, pos : Position]
        BY DEF Init, NoSession
    <2> QED
        BY <2>1, <2>2, <2>3, <2>4 DEF LoopTypes
<1>3. RobotTypes
    BY DEF Init, RobotTypes
<1>4. faults \subseteq Faults
    BY PipelineAssumption DEF Init
<1> QED
    BY <1>1, <1>2, <1>3, <1>4 DEF Types

(* Steps that leave a part alone *)
LEMMA SameBridge == ASSUME BridgeTypes, UNCHANGED bridgeVars PROVE BridgeTypes'
    BY DEF BridgeTypes, bridgeVars
LEMMA SameLoop == ASSUME LoopTypes, UNCHANGED <<loopVars, decisions, dropped>> PROVE LoopTypes'
    BY DEF LoopTypes, loopVars
LEMMA SameRobot == ASSUME RobotTypes, UNCHANGED <<seenVars, robotVars>> PROVE RobotTypes'
    BY DEF RobotTypes, seenVars, robotVars
LEMMA FaultIs ==
    ASSUME faults \subseteq Faults, UNCHANGED faults \/ \E kind : Fault(kind)
    PROVE  faults' \subseteq Faults
    BY PipelineAssumption DEF Fault

(* The detection node answers *)
LEMMA VisionTyped == ASSUME Types, VisionAnswers \/ VisionFails \/ FallBehind PROVE Types'
<1> USE PlacesAre
<1>1. /\ UNCHANGED <<cache, streak, samples, confirmed, skip, loopVars, seenVars, robotVars,
                     decisions, dropped>>
      /\ UNCHANGED faults \/ \E kind : Fault(kind)
    BY DEF VisionAnswers, VisionFails, FallBehind, bridgeVars
<1>2. call \in [st : {"idle", "asked", "answered"}, avoid : Position,
                status : {"none", "known", "unknown", "empty"}, pos : Position]
    BY DEF Types, BridgeTypes
<1> DEFINE Sights == [status : {"known", "unknown", "empty"}, pos : Position]
<1>3. Sight(call.avoid) \in Sights
    <2>1. tray \subseteq Apple
        BY DEF Types, RobotTypes
    <2>2. /\ Sight(call.avoid).status \in {"known", "unknown", "empty"}
          /\ Sight(call.avoid).pos \in Position
        BY <2>1, SightIs
    <2> QED
        BY <2>2 DEF Sight
<1>4. Misread(Sight(call.avoid)) \subseteq Sights
    <2>1. ASSUME NEW s \in Sights PROVE Misread(s) \subseteq Sights
        BY DEF Misread
    <2> HIDE DEF Sights
    <2> QED
        BY <1>3, <2>1
<1>5. /\ call' \in [st : {"idle", "asked", "answered"}, avoid : Position,
                    status : {"none", "known", "unknown", "empty"}, pos : Position]
      /\ call'.st = "answered" => call'.status # "none"
    <2>1. CASE VisionFails
        BY <2>1 DEF VisionFails, Idle
    <2>2. CASE VisionAnswers
        <3> DEFINE Answer(s) == call' = [Idle EXCEPT !.st = "answered", !.status = s.status,
                                                     !.pos = s.pos]
        <3>1. CASE Answer(Sight(call.avoid)) \/ \E s \in Misread(Sight(call.avoid)) : Answer(s)
            <4>1. PICK s \in Sights : Answer(s)
                BY <1>3, <1>4, <3>1
            <4> QED
                BY <4>1 DEF Idle
        <3>2. CASE call' \in {[Idle EXCEPT !.st = "answered", !.status = "empty", !.pos = NoPos],
                              [Idle EXCEPT !.st = "answered", !.status = "unknown", !.pos = Elsewhere]}
            BY <3>2 DEF Idle
        <3> QED
            BY <2>2, <3>1, <3>2 DEF VisionAnswers
    <2>3. CASE FallBehind
        BY <1>2, <2>3 DEF FallBehind, bridgeVars, Types, BridgeTypes
    <2> QED
        BY <2>1, <2>2, <2>3
<1> QED
    BY <1>1, <1>5, SameLoop, SameRobot, FaultIs DEF Types, BridgeTypes

(* The thread of the vision bridge *)
LEMMA BridgeTyped == ASSUME Types, PollOnce \/ OnResponse \/ Report PROVE Types'
<1> USE PlacesAre
<1>0. /\ streak \in 0..EmptyReset /\ samples \in Seq(Item) /\ Len(samples) < Confirm
      /\ call \in [st : {"idle", "asked", "answered"}, avoid : Position,
                   status : {"none", "known", "unknown", "empty"}, pos : Position]
      /\ call.st = "answered" => call.status # "none"
      /\ EmptyReset \in Nat /\ EmptyReset >= 1 /\ Confirm \in Nat /\ Confirm >= 1
      /\ QueueSize \in Nat /\ QueueSize >= 1
    BY PipelineAssumption DEF Types, BridgeTypes
<1>idle. ASSUME NEW a \in Position, NEW st \in {"idle", "asked"}
         PROVE  /\ [Idle EXCEPT !.st = st, !.avoid = a]
                    \in [st : {"idle", "asked", "answered"}, avoid : Position,
                         status : {"none", "known", "unknown", "empty"}, pos : Position]
                /\ [Idle EXCEPT !.st = st, !.avoid = a].st = st
    BY DEF Idle
<1>1. CASE PollOnce
    <2>1. /\ UNCHANGED <<cache, streak, samples, confirmed, loopVars, seenVars, robotVars,
                         decisions, dropped, faults>>
          /\ skip' \in {skip, NoPos} /\ call' = [Idle EXCEPT !.st = "asked", !.avoid = skip']
        BY <1>1 DEF PollOnce
    <2>2. skip' \in Position
        BY <2>1 DEF Types, BridgeTypes
    <2>3. /\ call' \in [st : {"idle", "asked", "answered"}, avoid : Position,
                        status : {"none", "known", "unknown", "empty"}, pos : Position]
          /\ call'.st = "asked"
        BY <1>idle, <2>1, <2>2
    <2> QED
        BY <2>1, <2>2, <2>3, SameLoop, SameRobot DEF Types, BridgeTypes
<1>2. CASE OnResponse
    <2> DEFINE sample == [status |-> call.status, pos |-> call.pos]
               taken  == Append(samples, sample)
    <2>1. /\ UNCHANGED <<skip, loopVars, seenVars, robotVars, decisions, dropped, faults>>
          /\ call.st = "answered" /\ call' = Idle
        BY <1>2 DEF OnResponse
    <2>2. /\ call' \in [st : {"idle", "asked", "answered"}, avoid : Position,
                        status : {"none", "known", "unknown", "empty"}, pos : Position]
          /\ call'.st = "idle"
        BY <2>1 DEF Idle
    <2>3. CASE call.status = "empty"
        <3>1. /\ streak' = IF streak < EmptyReset THEN streak + 1 ELSE streak
              /\ \/ cache' = NoCache /\ samples' = <<>>
                 \/ UNCHANGED <<cache, samples>>
              /\ UNCHANGED confirmed
            BY <1>2, <2>3 DEF OnResponse
        <3>2. streak' \in 0..EmptyReset
            BY <1>0, <3>1
        <3>3. cache' \in [status : {"none", "known", "unknown"}, pos : Position]
            BY <3>1 DEF Types, BridgeTypes, NoCache
        <3>4. samples' \in Seq(Item) /\ Len(samples') < Confirm
            <4>1. <<>> \in Seq(Item) /\ Len(<<>>) < Confirm
                BY <1>0
            <4> QED
                BY <1>0, <3>1, <4>1
        <3> QED
            BY <2>1, <2>2, <3>1, <3>2, <3>3, <3>4, SameLoop, SameRobot DEF Types, BridgeTypes
    <2>4. CASE call.status # "empty"
        <3>1. sample \in Item
            BY <1>0, <2>1, <2>4 DEF Item
        <3>2. taken \in Seq(Item) /\ Len(taken) = Len(samples) + 1 /\ taken # <<>>
            BY <1>0, <3>1
        <3>3. /\ streak' = 0 /\ UNCHANGED cache
              /\ \/ samples' = <<>> /\ confirmed' \in {NoItem, Majority(taken)}
                 \/ samples' = taken /\ UNCHANGED confirmed /\ ~Enough(taken)
            BY <1>2, <2>4 DEF OnResponse
        <3>4. Majority(taken) \in Item
            <4> HIDE DEF taken
            <4> QED
                BY <3>2, MajorityIs
        <3>5. samples' \in Seq(Item) /\ Len(samples') < Confirm
            <4> HIDE DEF taken
            <4>1. CASE samples' = <<>>
                BY <1>0, <4>1
            <4>2. CASE samples' = taken /\ ~Enough(taken)
                BY <1>0, <3>2, <4>2 DEF Enough
            <4> QED
                BY <3>3, <4>1, <4>2
        <3>6. confirmed' \in Item \cup {NoItem} /\ streak' \in 0..EmptyReset
            <4> HIDE DEF taken
            <4> QED
                BY <1>0, <3>3, <3>4 DEF Types, BridgeTypes
        <3> QED
            BY <2>1, <2>2, <3>3, <3>5, <3>6, SameLoop, SameRobot DEF Types, BridgeTypes
    <2> QED
        BY <2>3, <2>4
<1>3. CASE Report
    <2>1. /\ UNCHANGED <<call, streak, samples, skip, hand, session, seenVars, robotVars,
                         decisions, faults>>
          /\ confirmed \in Item /\ confirmed' = NoItem /\ dropped' = FALSE
          /\ cache' = [status |-> confirmed.status, pos |-> confirmed.pos]
          /\ queue' = Append(IF Len(queue) = QueueSize THEN Tail(queue) ELSE queue, confirmed)
        BY <1>3 DEF Report, Types, BridgeTypes
    <2>2. cache' \in [status : {"none", "known", "unknown"}, pos : Position]
        BY <2>1 DEF Item
    <2>3. queue' \in Seq(Item) /\ Len(queue') <= QueueSize
        <3>1. queue \in Seq(Item) /\ Len(queue) <= QueueSize
            BY DEF Types, LoopTypes
        <3>2. CASE Len(queue) = QueueSize
            <4>1. queue # <<>> /\ Tail(queue) \in Seq(Item) /\ Len(Tail(queue)) = QueueSize - 1
                BY <1>0, <3>1, <3>2
            <4> QED
                BY <1>0, <2>1, <3>2, <4>1
        <3>3. CASE Len(queue) # QueueSize
            <4>1. Len(queue) + 1 <= QueueSize
                BY <1>0, <3>1, <3>3
            <4> QED
                BY <1>0, <2>1, <3>1, <3>3, <4>1
        <3> QED
            BY <3>2, <3>3
    <2> QED
        BY <2>1, <2>2, <2>3, SameRobot DEF Types, BridgeTypes, LoopTypes
<1> QED
    BY <1>1, <1>2, <1>3

(* What the event loop and the operator do to the session and the decisions *)
LEMMA Published1 ==
    ASSUME LoopTypes, NEW pos \in Position, PublishDecision(pos)
    PROVE  decisions' \in Seq(BOOLEAN) /\ Len(decisions') <= MaxDecisions
BY PipelineAssumption DEF LoopTypes, PublishDecision

LEMMA ActTyped ==
    ASSUME LoopTypes, NEW item \in Item, NEW verdict, Act(item, verdict)
    PROVE  /\ session' \in [st : {"none", "open", "closing"}, pos : Position]
           /\ decisions' \in Seq(BOOLEAN) /\ Len(decisions') <= MaxDecisions
<1>1. item.pos \in Position
    BY DEF Item
<1>2. CASE PublishDecision(item.pos) /\ UNCHANGED session
    BY <1>1, <1>2, Published1 DEF LoopTypes
<1>3. CASE session' = [st |-> "open", pos |-> item.pos] /\ UNCHANGED decisions
    BY <1>1, <1>3 DEF LoopTypes
<1> QED
    BY <1>2, <1>3 DEF Act

LEMMA ForgetsTyped ==
    ASSUME BridgeTypes, UNCHANGED <<call, streak, confirmed, skip>>,
           ForceRedetect \/ UNCHANGED <<cache, samples>>
    PROVE  BridgeTypes'
<1>1. <<>> \in Seq(Item) /\ Len(<<>>) < Confirm
    BY PipelineAssumption
<1>2. NoCache \in [status : {"none", "known", "unknown"}, pos : Position]
    BY PlacesAre DEF NoCache
<1> QED
    BY <1>1, <1>2 DEF BridgeTypes, ForceRedetect

(* The thread of the robot bridge *)
LEMMA CallbackTyped ==
    ASSUME Types, ProcessStateCallback \/ GripperStatusCallback PROVE Types'
<1>1. CASE ProcessStateCallback
    <2>1. /\ UNCHANGED <<call, streak, confirmed, skip, loopVars, graspSeen, state, grasped, carry,
                         tray, decisions, dropped, faults>>
          /\ ForceRedetect \/ UNCHANGED <<cache, samples>>
          /\ unread' = FALSE /\ seen' = state
        BY <1>1 DEF ProcessStateCallback
    <2>2. BridgeTypes'
        BY <2>1, ForgetsTyped DEF Types
    <2>3. RobotTypes'
        BY <2>1 DEF Types, RobotTypes
    <2> QED
        BY <2>1, <2>2, <2>3, SameLoop DEF Types
<1>2. CASE GripperStatusCallback
    <2>1. UNCHANGED <<bridgeVars, loopVars, seen, robotVars, decisions, dropped, faults>>
        BY <1>2 DEF GripperStatusCallback
    <2>2. RobotTypes'
        BY <1>2, <2>1 DEF GripperStatusCallback, Types, RobotTypes, robotVars
    <2> QED
        BY <2>1, <2>2, SameBridge, SameLoop DEF Types
<1> QED
    BY <1>1, <1>2

(* The event loop *)
LEMMA LoopTyped == ASSUME Types, Consume \/ VlmAnswers \/ SessionCleanup PROVE Types'
<1>0. /\ LoopTypes /\ BridgeTypes /\ RobotTypes /\ faults \subseteq Faults
      /\ queue \in Seq(Item) /\ Len(queue) <= QueueSize /\ QueueSize \in Nat
    BY PipelineAssumption DEF Types, LoopTypes
<1>1. CASE Consume
    <2>1. /\ UNCHANGED <<bridgeVars, seenVars, robotVars, faults>>
          /\ queue # <<>> /\ queue' = Tail(queue)
          /\ \/ UNCHANGED <<hand, session, decisions>>
             \/ hand' = Head(queue) /\ UNCHANGED <<session, decisions>>
             \/ (\E v \in Verdicts : Act(Head(queue), v)) /\ UNCHANGED hand
          /\ dropped' \in {dropped, TRUE, FALSE}
        BY <1>1 DEF Consume, Dropped
    <2>2. /\ queue' \in Seq(Item) /\ Len(queue') <= QueueSize
          /\ Head(queue) \in Item
        BY <1>0, <2>1
    <2>3. /\ session' \in [st : {"none", "open", "closing"}, pos : Position]
          /\ decisions' \in Seq(BOOLEAN) /\ Len(decisions') <= MaxDecisions
        <3>1. CASE UNCHANGED <<session, decisions>>
            BY <1>0, <3>1 DEF LoopTypes
        <3>2. CASE \E v \in Verdicts : Act(Head(queue), v)
            BY <1>0, <2>2, <3>2, ActTyped
        <3> QED
            BY <2>1, <3>1, <3>2
    <2>4. hand' \in Item \cup {NoItem} /\ dropped' \in BOOLEAN
        BY <1>0, <2>1, <2>2 DEF LoopTypes
    <2> QED
        BY <1>0, <2>1, <2>2, <2>3, <2>4, SameBridge, SameRobot DEF Types, LoopTypes
<1>2. CASE VlmAnswers
    <2>1. /\ UNCHANGED <<bridgeVars, queue, seenVars, robotVars, dropped, faults>>
          /\ hand \in Item /\ hand' = NoItem /\ \E v \in Verdicts : Act(hand, v)
        BY <1>0, <1>2 DEF VlmAnswers, LoopTypes
    <2>2. /\ session' \in [st : {"none", "open", "closing"}, pos : Position]
          /\ decisions' \in Seq(BOOLEAN) /\ Len(decisions') <= MaxDecisions
        BY <1>0, <2>1, ActTyped
    <2> QED
        BY <1>0, <2>1, <2>2, SameBridge, SameRobot DEF Types, LoopTypes
<1>3. CASE SessionCleanup
    <2>1. /\ UNCHANGED <<call, streak, confirmed, skip, queue, hand, seenVars, robotVars, decisions,
                         dropped, faults>>
          /\ session' = NoSession /\ ForceRedetect
        BY <1>3 DEF SessionCleanup
    <2>2. NoSession \in [st : {"none", "open", "closing"}, pos : Position]
        BY PlacesAre DEF NoSession
    <2> QED
        BY <1>0, <2>1, <2>2, ForgetsTyped, SameRobot DEF Types, LoopTypes
<1> QED
    BY <1>1, <1>2, <1>3

(* The operator *)
LEMMA OperatorTyped == ASSUME Types, Operator PROVE Types'
<1>0. /\ LoopTypes /\ BridgeTypes /\ RobotTypes
      /\ session \in [st : {"none", "open", "closing"}, pos : Position]
      /\ session.pos \in Position
    BY DEF Types, LoopTypes
<1>1. /\ UNCHANGED <<call, streak, confirmed, queue, hand, seenVars, robotVars, dropped>>
      /\ ForceRedetect \/ UNCHANGED <<cache, samples>>
      /\ skip' \in {skip, session.pos}
      /\ PublishDecision(session.pos) \/ UNCHANGED decisions
      /\ session' = NoSession \/ session' = [session EXCEPT !.st = "closing"]
      /\ UNCHANGED faults \/ \E kind : Fault(kind)
    BY DEF Operator, SessionAnswered, AdminReset, VoicePolicy, bridgeVars
<1>2. session' \in [st : {"none", "open", "closing"}, pos : Position]
    BY <1>0, <1>1, PlacesAre DEF NoSession
<1>3. decisions' \in Seq(BOOLEAN) /\ Len(decisions') <= MaxDecisions
    BY <1>0, <1>1, Published1 DEF LoopTypes
<1>4. LoopTypes'
    BY <1>0, <1>1, <1>2, <1>3 DEF LoopTypes
<1>5. BridgeTypes'
    <2>1. skip' \in Position
        BY <1>0, <1>1 DEF BridgeTypes
    <2>2. cache' \in [status : {"none", "known", "unknown"}, pos : Position]
        BY <1>0, <1>1, PlacesAre DEF BridgeTypes, ForceRedetect, NoCache
    <2>3. samples' \in Seq(Item) /\ Len(samples') < Confirm
        <3>1. <<>> \in Seq(Item) /\ Len(<<>>) < Confirm
            BY PipelineAssumption
        <3> QED
            BY <1>0, <1>1, <3>1 DEF BridgeTypes, ForceRedetect
    <2> QED
        BY <1>0, <1>1, <2>1, <2>2, <2>3 DEF BridgeTypes
<1>6. faults' \subseteq Faults
    BY <1>1, FaultIs DEF Types
<1> QED
    BY <1>0, <1>1, <1>4, <1>5, <1>6, SameRobot DEF Types

(* The robot: only what it has seen on the tray comes into the gripper *)
LEMMA RobotIs ==
    ASSUME RobotTypes, UNCHANGED seenVars,
           \/ UNCHANGED <<state, unread>>
           \/ \E s \in {"READY", "MOVING", "ERROR", "PAUSED"} : Published(s),
           tray' \subseteq Apple,
           grasped' \in BOOLEAN /\ carry' \in Position /\ (grasped' => carry' \in Apple)
    PROVE  RobotTypes'
<1>1. seen' = seen /\ graspSeen' = graspSeen
    BY DEF seenVars
<1>2. state' \in {"IDLE", "READY", "MOVING", "ERROR", "PAUSED"} /\ unread' \in BOOLEAN
    <2>1. CASE UNCHANGED <<state, unread>>
        BY <2>1 DEF RobotTypes
    <2>2. CASE \E s \in {"READY", "MOVING", "ERROR", "PAUSED"} : Published(s)
        BY <2>2 DEF Published
    <2> QED
        BY <2>1, <2>2
<1> QED
    BY <1>1, <1>2 DEF RobotTypes

LEMMA RobotTyped == ASSUME Types, Robot PROVE Types'
<1>0. /\ LoopTypes /\ BridgeTypes /\ RobotTypes
      /\ tray \subseteq Apple /\ grasped \in BOOLEAN /\ carry \in Position
      /\ grasped => carry \in Apple
    BY DEF Types, RobotTypes
<1>1. /\ UNCHANGED <<bridgeVars, loopVars, seenVars, dropped>>
      /\ UNCHANGED faults \/ \E kind : Fault(kind)
    <2>1. CASE TakeDecision \/ Pick \/ Place \/ Recover \/ Unpause
        BY <2>1 DEF TakeDecision, Pick, Place, Recover, Unpause
    <2>2. CASE GiveUp \/ Stop \/ Pause
        BY <2>2 DEF GiveUp, Stop, Pause
    <2> QED
        BY <2>1, <2>2 DEF Robot
<1>2. RobotTypes'
    <2>1. CASE TakeDecision
        <3>1. /\ UNCHANGED <<grasped, tray>>
              /\ \/ UNCHANGED <<state, unread, carry>>
                 \/ tray # {} /\ carry' = Sight(NoPos).pos /\ Published("MOVING")
            BY <2>1 DEF TakeDecision
        <3>2. tray # {} => Sight(NoPos).pos \in Apple
            BY <1>0, SightIs
        <3> QED
            BY <1>0, <1>1, <3>1, <3>2, PlacesAre, RobotIs
    <2>2. CASE Pick
        <3>1. /\ UNCHANGED <<state, unread, carry>> /\ carry \in Apple
              /\ tray' = tray \ {carry} /\ grasped' = TRUE
            BY <1>0, <2>2 DEF Pick
        <3> QED
            BY <1>0, <1>1, <3>1, RobotIs
    <2>3. CASE Place \/ GiveUp
        <3>1. UNCHANGED tray /\ grasped' = FALSE /\ carry' = NoPos /\ Published("READY")
            BY <1>0, <2>3 DEF Place, GiveUp
        <3> QED
            BY <1>0, <1>1, <3>1, PlacesAre, RobotIs
    <2>4. CASE Stop
        <3>1. UNCHANGED <<grasped, carry, tray>> /\ Published("ERROR")
            BY <2>4 DEF Stop
        <3> QED
            BY <1>0, <1>1, <3>1, RobotIs
    <2>5. CASE Recover
        <3>1. /\ tray' = IF grasped THEN tray \cup {carry} ELSE tray
              /\ grasped' = FALSE /\ carry' = NoPos /\ Published("READY")
            BY <2>5 DEF Recover
        <3> QED
            BY <1>0, <1>1, <3>1, PlacesAre, RobotIs
    <2>6. CASE Pause \/ Unpause
        <3>1. UNCHANGED <<grasped, carry, tray>> /\ (Published("PAUSED") \/ Published("READY"))
            BY <2>6 DEF Pause, Unpause
        <3> QED
            BY <1>0, <1>1, <3>1, RobotIs
    <2> QED
        BY <2>1, <2>2, <2>3, <2>4, <2>5, <2>6 DEF Robot
<1>3. LoopTypes'
    <2>1. UNCHANGED decisions \/ (decisions # <<>> /\ decisions' = Tail(decisions))
        BY DEF Robot, TakeDecision, Pick, Place, GiveUp, Stop, Recover, Pause, Unpause
    <2>2. decisions \in Seq(BOOLEAN) /\ Len(decisions) <= MaxDecisions /\ MaxDecisions \in Nat
        BY <1>0, PipelineAssumption DEF LoopTypes
    <2>3. decisions' \in Seq(BOOLEAN) /\ Len(decisions') <= MaxDecisions
        <3>1. CASE UNCHANGED decisions
            BY <2>2, <3>1
        <3>2. CASE decisions # <<>> /\ decisions' = Tail(decisions)
            <4>1. Tail(decisions) \in Seq(BOOLEAN) /\ Len(Tail(decisions)) = Len(decisions) - 1
                BY <2>2, <3>2
            <4> QED
                BY <2>2, <3>2, <4>1
        <3> QED
            BY <2>1, <3>1, <3>2
    <2> QED
        BY <1>0, <1>1, <2>3 DEF LoopTypes, loopVars
<1>4. faults' \subseteq Faults
    BY <1>1, FaultIs DEF Types
<1> QED
    BY <1>1, <1>2, <1>3, <1>4, <1>0, SameBridge DEF Types

LEMMA StepTypes == ASSUME Types, [Next]_vars PROVE Types'
<1>1. CASE UNCHANGED vars
    BY <1>1, SameBridge, SameLoop, SameRobot DEF vars, Types
<1>2. CASE Backend
    BY <1>2, BridgeTyped, CallbackTyped, LoopTyped DEF Backend
<1> QED
    BY <1>1, <1>2, OperatorTyped, RobotTyped, VisionTyped DEF Next

(* Every variable keeps its type for any sizes: no queue grows over its    *)
(* bound, a majority of samples is an item, and nothing but an apple of    *)
(* the tray comes into the gripper or back (vision_bridge.py:381).         *)
THEOREM TypeCorrect == Spec => []TypeOK
<1>1. Init => Types
    BY InitTypes
<1>2. Types /\ [Next]_vars => Types'
    BY StepTypes
<1>3. Types => TypeOK
    BY TypesGive
<1> QED
    BY <1>1, <1>2, <1>3, PTL DEF Spec
=============================================================================
