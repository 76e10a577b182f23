--------------------------- MODULE VisionPipeline ---------------------------
(***************************************************************************)
(* From the camera to a decision: vision_bridge.py polls the detection     *)
(* node, confirms what it saw by majority and filters repetitions;         *)
(* main.py's _vla_consumer_loop takes the confirmed detections and decides *)
(* or opens a question; robot_bridge.py tells the loop what the robot is   *)
(* doing.  The detection node (detection.py, yolo.py) answers the polls.   *)
(*                                                                         *)
(* Three threads of the backend: the ROS thread of the vision bridge, the  *)
(* ROS thread of the robot bridge, and the event loop.  The robot and the  *)
(* question session are there with what they do to the backend; RobotCell  *)
(* and HitlSession are their models.                                       *)
(*                                                                         *)
(* An apple is a number and stands also for its place; the greater number  *)
(* is the larger in the picture.  Definitions named ..._Slip are no part   *)
(* of the model: each is the definition after it with a plausible mistake. *)
(***************************************************************************)
EXTENDS Naturals, Sequences, FiniteSetsExt

CONSTANTS
    Apples,       \* number of apples on the tray
    Known,        \* the apples YOLO is sure about; of the others depth shows a blob
    Confirm,      \* CONFIRM_SAMPLE_COUNT
    EmptyReset,   \* EMPTY_RESET_STREAK
    QueueSize,    \* bound and settings.vision_queue_maxsize
    MaxDecisions, \* bound: decisions under way to the robot
    Verdicts,     \* what decide() may answer: "execute", "ask"
    Faults,       \* what may happen besides, see FaultKind
    MaxFaults     \* bound: how many of them, each once

Apple     == 1..Apples
NoPos     == 0            \* no position: [] or None
Elsewhere == Apples + 1   \* a place where nothing lies
Position  == 0..(Apples + 1)

\* What may happen besides.  "handled": a stop, a spoken rule, a lost answer, a
\* wrong picture.  "unnoticed": a pause, an apple that cannot be picked.
\* "reset": by the administrator.  "away": things are seen while the arm is
\* not at CAMERA.  "late": the backend falls behind, see Settled.
FaultKind == {"handled", "unnoticed", "reset", "away", "late"}

ASSUME PipelineAssumption ==
    /\ Apples \in Nat \ {0} /\ Known \subseteq Apple
    /\ Confirm \in Nat \ {0} /\ EmptyReset \in Nat \ {0} /\ QueueSize \in Nat \ {0}
    /\ MaxDecisions \in Nat \ {0} /\ MaxFaults \in Nat
    /\ Verdicts \subseteq {"execute", "ask"} /\ Faults \subseteq FaultKind

VARIABLES
    (* the vision bridge *)
    call,        \* the pending request and its answer; "idle" is ~_pending_call
    cache,       \* _last_status, _last_position
    streak,      \* _empty_streak
    samples,     \* _samples
    confirmed,   \* the majority _on_response is about to report
    skip,        \* _skip_position
    (* the event loop *)
    queue,       \* vision_queue
    hand,        \* the item decide() awaits the VLM for
    session,     \* hitl_state_machine.current_session
    (* the robot bridge *)
    seen,        \* latest_process_state
    graspSeen,   \* gripper_grasped
    (* the robot *)
    state,       \* /robot/process_state
    unread,      \* its last message is not delivered yet
    grasped,     \* /gripper/status
    decisions,   \* /decision/result, on its way or in decision_queue: has it a position?
    carry,       \* the place it picks from
    tray,
    (* history *)
    dropped,     \* the latest reported detection was thrown away for a session
    faults       \* what did happen besides

bridgeVars == <<call, cache, streak, samples, confirmed, skip>>
loopVars   == <<queue, hand, session>>
seenVars   == <<seen, graspSeen>>
robotVars  == <<state, unread, grasped, carry, tray>>
vars == <<bridgeVars, loopVars, seenVars, robotVars, decisions, dropped, faults>>

Item   == [status : {"known", "unknown"}, pos : Position]
NoItem == [status |-> "none", pos |-> NoPos]
NoCache   == [status |-> "none", pos |-> NoPos]
NoSession == [st |-> "none", pos |-> NoPos]
Idle      == [st |-> "idle", avoid |-> NoPos, status |-> "none", pos |-> NoPos]

Init ==
    /\ call = Idle /\ cache = NoCache /\ streak = 0 /\ samples = <<>>
    /\ confirmed = NoItem /\ skip = NoPos
    /\ queue = <<>> /\ hand = NoItem /\ session = NoSession
    /\ seen \in {"READY", "IDLE"}
    /\ graspSeen = FALSE
    /\ state = "READY" /\ unread = (seen = "IDLE") /\ grasped = FALSE /\ carry = NoPos /\ tray = Apple
    /\ decisions = <<>>
    /\ dropped = FALSE /\ faults = {}

\* One of the things that may go wrong, or somebody does
Fault(kind) ==
    /\ kind \in Faults \ faults /\ Cardinality(faults) < MaxFaults
    /\ faults' = faults \cup {kind}
---------------------------------------------------------------------------
(* The detection node *)

\* get_best_detection: boxes of sure apples first, the excluded one taken
\* out afterwards, then the largest
BestBox(avoid) ==
    LET pool == (tray \cap Known) \ {avoid}
    IN IF pool = {} THEN NoPos ELSE Max(pool)

\* _find_unknown_blob: the largest thing that rises over the tray, whether
\* YOLO knows it or not, excluded or not
LargestBlob == IF tray = {} THEN NoPos ELSE Max(tray)

\* handle_get_status: a box, without one a blob, "empty" when there is none
Sight(avoid) ==
    IF BestBox(avoid) # NoPos THEN [status |-> "known", pos |-> BestBox(avoid)]
    ELSE IF LargestBlob # NoPos THEN [status |-> "unknown", pos |-> LargestBlob]
    ELSE [status |-> "empty", pos |-> NoPos]

\* A picture in which one apple is taken for something else, or whose depth
\* has a hole
Misread(s) ==
    {[s EXCEPT !.status = "known"], [s EXCEPT !.status = "unknown"],
     [s EXCEPT !.pos = NoPos], [status |-> "empty", pos |-> NoPos]} \ {s}

\* The camera is on the arm: away from CAMERA it sees nothing, or the gripper,
\* the boxes, the way
AtCamera == state \in {"READY", "PAUSED"}

\* A poll or a motion of the arm takes longer than the backend needs to read
\* what is published and to go through its queue, until it falls behind
Settled == \/ /\ ~unread /\ graspSeen = grasped
              /\ call.st # "answered" /\ confirmed = NoItem
              /\ (queue = <<>> \/ hand # NoItem)
           \/ "late" \in faults

\* From now on messages may be read late
FallBehind ==
    /\ Fault("late")
    /\ UNCHANGED <<bridgeVars, loopVars, seenVars, robotVars, decisions, dropped>>

VisionAnswers ==
    /\ call.st = "asked" /\ Settled
    /\ \/ /\ AtCamera
          /\ call' = [Idle EXCEPT !.st = "answered", !.status = Sight(call.avoid).status,
                                  !.pos = Sight(call.avoid).pos]
          /\ UNCHANGED faults
       \/ /\ AtCamera /\ tray # {} /\ Fault("handled")
          /\ \E s \in Misread(Sight(call.avoid)) :
                call' = [Idle EXCEPT !.st = "answered", !.status = s.status, !.pos = s.pos]
       \/ /\ ~AtCamera
          /\ call' = [Idle EXCEPT !.st = "answered", !.status = "empty", !.pos = NoPos]
          /\ UNCHANGED faults
       \/ /\ ~AtCamera
          /\ Fault("away") \/ ("away" \in faults /\ UNCHANGED faults)
          /\ call' = [Idle EXCEPT !.st = "answered", !.status = "unknown", !.pos = Elsewhere]
    /\ UNCHANGED <<cache, streak, samples, confirmed, skip, loopVars, seenVars, robotVars,
                   decisions, dropped>>

\* future.result() raises: the answer is lost
VisionFails ==
    /\ call.st = "asked" /\ Fault("handled")
    /\ call' = Idle
    /\ UNCHANGED <<cache, streak, samples, confirmed, skip, loopVars, seenVars, robotVars,
                   decisions, dropped>>
---------------------------------------------------------------------------
(* The ROS thread of the vision bridge *)

\* _poll_once.  The exclusion may have lasted SKIP_EXCLUDE_COOLDOWN_SEC.
PollOnce ==
    /\ call.st = "idle" /\ confirmed = NoItem
    /\ \E over \in {FALSE, skip # NoPos} :
          /\ skip' = IF over THEN NoPos ELSE skip
          /\ call' = [Idle EXCEPT !.st = "asked", !.avoid = skip']
    /\ UNCHANGED <<cache, streak, samples, confirmed, loopVars, seenVars, robotVars, decisions,
                   dropped, faults>>

Count(status, s) == Cardinality({i \in DOMAIN s : s[i].status = status})

\* _resolve_majority: the most frequent status, the first seen of equals,
\* with the mean position of its samples
Majority(s) ==
    LET most  == Max({Count(s[i].status, s) : i \in DOMAIN s})
        first == CHOOSE i \in DOMAIN s :
                    /\ Count(s[i].status, s) = most
                    /\ \A j \in 1..(i - 1) : Count(s[j].status, s) < most
        spots == {s[i].pos : i \in {j \in DOMAIN s : s[j].status = s[first].status}} \ {NoPos}
    IN [status |-> s[first].status,
        pos    |-> IF spots = {} THEN NoPos
                   ELSE IF Cardinality(spots) = 1 THEN Max(spots) ELSE Elsewhere]

\* _is_duplicate: same status, and positions that are close.  Two readings
\* off the tray are not.
IsDuplicate(item) == cache = [status |-> item.status, pos |-> item.pos] /\ item.pos \in Apple

Enough_Slip(s) == Len(s) > Confirm
Enough(s) == Len(s) >= Confirm

\* _on_response up to the duplicate filter
OnResponse ==
    LET taken == Append(samples, [status |-> call.status, pos |-> call.pos])
        major == Majority(taken)
    IN
    /\ call.st = "answered"
    /\ call' = Idle
    /\ IF call.status = "empty"
       THEN /\ streak' = IF streak < EmptyReset THEN streak + 1 ELSE streak
            /\ IF streak' >= EmptyReset
               THEN cache' = NoCache /\ samples' = <<>>
               ELSE UNCHANGED <<cache, samples>>
            /\ UNCHANGED confirmed
       ELSE /\ streak' = 0
            /\ UNCHANGED cache
            /\ IF Enough(taken)
               THEN /\ samples' = <<>>
                    /\ confirmed' = IF IsDuplicate(major) THEN NoItem ELSE major
               ELSE samples' = taken /\ UNCHANGED confirmed
    /\ UNCHANGED <<skip, loopVars, seenVars, robotVars, decisions, dropped, faults>>

\* _on_response after it, and _enqueue: a full queue loses its oldest item
Report ==
    /\ confirmed # NoItem
    /\ cache' = [status |-> confirmed.status, pos |-> confirmed.pos]
    /\ queue' = Append(IF Len(queue) = QueueSize THEN Tail(queue) ELSE queue, confirmed)
    /\ confirmed' = NoItem
    /\ dropped' = FALSE
    /\ UNCHANGED <<call, streak, samples, skip, hand, session, seenVars, robotVars, decisions,
                   faults>>

\* force_redetect, called from the event loop or the robot bridge's thread
ForceRedetect_Slip == samples' = <<>> /\ UNCHANGED cache
ForceRedetect == cache' = NoCache /\ samples' = <<>>
---------------------------------------------------------------------------
(* The ROS thread of the robot bridge *)

\* A stop has just ended
Recovered_Slip == seen # "ERROR" /\ state = "ERROR"
Recovered == seen = "ERROR" /\ state = "READY"

\* _process_state_callback.  Depth 1: of two messages only the latter may be
\* there to read.
ProcessStateCallback ==
    /\ unread
    /\ unread' = FALSE
    /\ seen' = state
    /\ IF Recovered
       THEN ForceRedetect
       ELSE UNCHANGED <<cache, samples>>
    /\ UNCHANGED <<call, streak, confirmed, skip, loopVars, graspSeen, state, grasped, carry,
                   tray, decisions, dropped, faults>>

GripperStatusCallback ==
    /\ graspSeen # grasped
    /\ graspSeen' = grasped
    /\ UNCHANGED <<bridgeVars, loopVars, seen, robotVars, decisions, dropped, faults>>
---------------------------------------------------------------------------
(* The event loop *)

PublishDecision(pos) ==
    /\ Len(decisions) < MaxDecisions
    /\ decisions' = Append(decisions, pos # NoPos)

\* What the loop does with the answer of decide(): nothing is looked at again
Act(item, verdict) ==
    \/ /\ verdict = "execute"
       /\ PublishDecision(item.pos)
       /\ UNCHANGED session
    \/ /\ verdict = "ask"
       /\ session' = [st |-> "open", pos |-> item.pos]
       /\ UNCHANGED decisions

\* The detection reported last is the last of the queue
Dropped(forSession) == dropped' = IF Len(queue) = 1 THEN forSession ELSE dropped

\* A session, even one that is being closed
Occupied_Slip == session.st = "open"
Occupied == session # NoSession

\* _vla_consumer_loop: one item, up to the end of decide() or the await of
\* the VLM in it
Consume ==
    /\ queue # <<>> /\ hand = NoItem
    /\ queue' = Tail(queue)
    /\ IF graspSeen \/ seen # "READY"
       THEN Dropped(FALSE) /\ UNCHANGED <<hand, session, decisions>>
       ELSE IF Occupied
       THEN Dropped(TRUE) /\ UNCHANGED <<hand, session, decisions>>
       ELSE IF Head(queue).status = "unknown"
       THEN hand' = Head(queue) /\ Dropped(FALSE) /\ UNCHANGED <<session, decisions>>
       ELSE /\ \E v \in Verdicts : Act(Head(queue), v)
            /\ Dropped(FALSE) /\ UNCHANGED hand
    /\ UNCHANGED <<bridgeVars, seenVars, robotVars, faults>>

\* decide() comes back from capture_frame and the VLM, or their time-outs
VlmAnswers ==
    /\ hand # NoItem
    /\ \E v \in Verdicts : Act(hand, v)
    /\ hand' = NoItem
    /\ UNCHANGED <<bridgeVars, queue, seenVars, robotVars, dropped, faults>>

\* The operator's answer: a destination, or "skip"
SessionAnswered ==
    /\ session.st = "open"
    /\ session' = [session EXCEPT !.st = "closing"]
    /\ \/ PublishDecision(session.pos) /\ UNCHANGED skip
       \/ skip' = session.pos /\ UNCHANGED decisions
    /\ UNCHANGED <<call, cache, streak, samples, confirmed, queue, hand, seenVars, robotVars,
                   dropped, faults>>

\* The end of _run_session
SessionCleanup ==
    /\ session.st = "closing"
    /\ session' = NoSession
    /\ ForceRedetect
    /\ UNCHANGED <<call, streak, confirmed, skip, queue, hand, seenVars, robotVars, decisions,
                   dropped, faults>>

\* force_reset by the administrator, with a destination or without
AdminReset ==
    /\ session # NoSession /\ Fault("reset")
    /\ session' = NoSession
    /\ PublishDecision(session.pos) \/ UNCHANGED decisions
    /\ UNCHANGED <<bridgeVars, queue, hand, seenVars, robotVars, dropped>>

\* _apply_to_current_apple after a spoken rule
VoicePolicy ==
    /\ Fault("handled")
    /\ session' = NoSession
    /\ IF session # NoSession THEN PublishDecision(session.pos) ELSE UNCHANGED decisions
    /\ ForceRedetect
    /\ UNCHANGED <<call, streak, confirmed, skip, queue, hand, seenVars, robotVars, dropped>>
---------------------------------------------------------------------------
(* The robot, as far as the backend can tell.  It answers a stop only after *)
(* the operator's RESUME: by then ERROR has been read.                     *)

Published(s) == state' = s /\ unread' = TRUE

\* A decision without a position, or for which nothing is seen any more, is
\* passed over, and nothing is published.
TakeDecision ==
    /\ state = "READY" /\ decisions # <<>>
    /\ decisions' = Tail(decisions)
    /\ IF ~Head(decisions) \/ tray = {}
       THEN UNCHANGED <<state, unread, carry>>
       ELSE carry' = Sight(NoPos).pos /\ Published("MOVING")
    /\ UNCHANGED <<bridgeVars, loopVars, seenVars, grasped, tray, dropped, faults>>

Pick ==
    /\ state = "MOVING" /\ carry \in tray /\ Settled
    /\ tray' = tray \ {carry} /\ grasped' = TRUE
    /\ UNCHANGED <<bridgeVars, loopVars, seenVars, state, unread, carry, decisions, dropped, faults>>

Place ==
    /\ state = "MOVING" /\ grasped /\ Settled
    /\ grasped' = FALSE /\ carry' = NoPos /\ Published("READY")
    /\ UNCHANGED <<bridgeVars, loopVars, seenVars, tray, decisions, dropped, faults>>

GiveUp ==
    /\ state = "MOVING" /\ ~grasped /\ Settled /\ Fault("unnoticed")
    /\ carry' = NoPos /\ Published("READY")
    /\ UNCHANGED <<bridgeVars, loopVars, seenVars, grasped, tray, decisions, dropped>>

Stop ==
    /\ state # "ERROR" /\ Fault("handled")
    /\ Published("ERROR")
    /\ UNCHANGED <<bridgeVars, loopVars, seenVars, grasped, carry, tray, decisions, dropped>>

\* An apple in the gripper goes back to where it was.
Recover ==
    /\ state = "ERROR" /\ ~unread /\ Settled
    /\ tray' = IF grasped THEN tray \cup {carry} ELSE tray
    /\ grasped' = FALSE /\ carry' = NoPos /\ Published("READY")
    /\ UNCHANGED <<bridgeVars, loopVars, seenVars, decisions, dropped, faults>>

Pause ==
    /\ state = "READY" /\ Fault("unnoticed")
    /\ Published("PAUSED")
    /\ UNCHANGED <<bridgeVars, loopVars, seenVars, grasped, carry, tray, decisions, dropped>>

Unpause ==
    /\ state = "PAUSED" /\ ~unread
    /\ Published("READY")
    /\ UNCHANGED <<bridgeVars, loopVars, seenVars, grasped, carry, tray, decisions, dropped, faults>>
---------------------------------------------------------------------------
Backend == \/ PollOnce \/ OnResponse \/ Report
           \/ ProcessStateCallback \/ GripperStatusCallback
           \/ Consume \/ VlmAnswers \/ SessionCleanup
Operator == SessionAnswered \/ AdminReset \/ VoicePolicy
Robot == TakeDecision \/ Pick \/ Place \/ GiveUp \/ Stop \/ Recover \/ Pause \/ Unpause

Next == Backend \/ Operator \/ Robot \/ VisionAnswers \/ VisionFails \/ FallBehind

(* Each thread keeps running: that of the vision bridge, the detection     *)
(* node, that of the robot bridge, the event loop, and the robot, which    *)
(* finishes what it began and is released after a stop or a pause.  Nobody *)
(* has to answer a question.                                               *)
Fairness ==
    /\ WF_vars(PollOnce \/ OnResponse \/ Report) /\ WF_vars(VisionAnswers)
    /\ WF_vars(ProcessStateCallback \/ GripperStatusCallback)
    /\ WF_vars(Consume \/ VlmAnswers \/ SessionCleanup)
    /\ WF_vars(TakeDecision \/ Pick \/ Place \/ Recover \/ Unpause)

Spec == Init /\ [][Next]_vars /\ Fairness
---------------------------------------------------------------------------
TypeOK ==
    /\ call \in [st : {"idle", "asked", "answered"}, avoid : Position,
                 status : {"none", "known", "unknown", "empty"}, pos : Position]
    /\ cache \in [status : {"none", "known", "unknown"}, pos : Position]
    /\ streak \in 0..EmptyReset
    /\ samples \in Seq(Item) /\ Len(samples) < Confirm
    /\ confirmed \in Item \cup {NoItem} /\ hand \in Item \cup {NoItem}
    /\ skip \in Position
    /\ queue \in Seq(Item) /\ Len(queue) <= QueueSize
    /\ session \in [st : {"none", "open", "closing"}, pos : Position]
    /\ {seen, state} \subseteq {"IDLE", "READY", "MOVING", "ERROR", "PAUSED"}
    /\ graspSeen \in BOOLEAN /\ grasped \in BOOLEAN /\ unread \in BOOLEAN
    /\ carry \in Position /\ tray \subseteq Apple
    /\ decisions \in Seq(BOOLEAN) /\ Len(decisions) <= MaxDecisions
    /\ dropped \in BOOLEAN
    /\ faults \subseteq Faults

(* A question is never opened while another one is open: whatever decide() *)
(* waited for, its verdict reaches handle_ask_human with no current        *)
(* session, so that _pending stays empty (main.py:218, the reason its      *)
(* comment gives for skipping detections during a session).                *)
AsksOneAtATime ==
    [][session = NoSession \/ session'.st # "open" \/ session' = session]_vars

(* A detection thrown away because a session was open does not stay in the *)
(* duplicate filter once there is none: it can be reported again, unless   *)
(* the administrator reset one (hitl_state_machine.py:367,                 *)
(* "force_redetect()").                                                    *)
BusyReportsForgotten ==
    session = NoSession /\ dropped /\ "reset" \notin faults => cache = NoCache

(* The cell does not come to rest with apples in view: never READY for     *)
(* good, with no question, no decision and apples on the tray, whatever    *)
(* stop, spoken rule, lost answer, wrong picture or sight on the way came  *)
(* before (robot_bridge.py:386, hitl_state_machine.py:367).                *)
Stranded == /\ state = "READY" /\ tray # {}
            /\ session = NoSession /\ decisions = <<>>
NeverStranded == ~<>[](Stranded /\ faults \subseteq {"handled", "away"})
=============================================================================
