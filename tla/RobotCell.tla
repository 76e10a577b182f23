----------------------------- MODULE RobotCell -----------------------------
(***************************************************************************)
(* The robot process (box_sequence_test.py) with its emergency stop:       *)
(* safe_motion.py watches the moves, estop_handler.py recovers.            *)
(*                                                                         *)
(* Two threads.  The main thread goes through the sorting cycle; an action *)
(* of it is the code up to the next point where the state the other thread *)
(* sets can make a difference.  The thread of comm_node runs the           *)
(* subscription callbacks, each at any moment between two actions of the   *)
(* main thread.  Around them: the operator, the backend (which sends       *)
(* decisions whenever it likes), and the robot controller, which may stop  *)
(* the arm on its own ("hardware safety stop": fence, pendant button).     *)
(*                                                                         *)
(* An apple stands also for its spot on the tray.  `at' is where the arm   *)
(* really is, which the program does not know.                             *)
(*                                                                         *)
(* Definitions named ..._Slip are no part of the model: each is the        *)
(* definition after it with one plausible mistake.                         *)
(***************************************************************************)
EXTENDS Naturals, Sequences

CONSTANTS
    Apple,
    NoApple,          \* Python's None
    MaxPickAttempts,  \* MAX_PICK_ATTEMPTS
    MaxDecisions,     \* bound: decisions waiting in decision_queue
    MaxManual,        \* bound: commands waiting in manual_command_queue; 0: none are given
    HwStops,          \* hardware stops: "never", "work" (not while recovering) or "any"
    Faults            \* what may fail: "gripper" (opening), "sensor" (grasp verdict), "arm"
                      \* (lift), "query" (of the controller's state)

Stations == {"boot", "home", "camera", "way", "box", "lifted", "manual", "astray"}

ASSUME CellAssumption ==
    /\ NoApple \notin Apple
    /\ Apple \cap Stations = {} /\ NoApple \notin Stations
    /\ MaxPickAttempts \in Nat \ {0}
    /\ MaxDecisions \in Nat /\ MaxManual \in Nat
    /\ HwStops \in {"never", "work", "any"}
    /\ Faults \subseteq {"gripper", "sensor", "arm", "query"}

VARIABLES
    (* the main thread *)
    pc,            \* where it is
    back,          \* where the manual drain goes on
    ret,           \* where check_and_recover returns to
    item,          \* the apple of the decision at work
    attempt,
    wasPaused,     \* was_paused
    plan,          \* RecoveryPlan.action
    confirmed,     \* already_confirmed_by_operator
    (* EstopRecoveryTracker *)
    holding,       \* holding_apple
    origin,        \* apple_origin_pos
    (* shared with the callbacks *)
    started,
    estop,         \* emergency_stop
    resume,        \* resume_requested
    pause,         \* pause_requested
    decisions,     \* decision_queue; NoApple is a decision that cannot be used
    manual,        \* manual_command_queue
    (* what the backend was told *)
    state,         \* /robot/process_state
    grasped,       \* /gripper/status
    (* the world *)
    at,            \* where the arm is
    grip,          \* the gripper: "open" or "closed"
    held,          \* the apple in the gripper
    tray,          \* the apples on their spots on the tray
    hw,            \* the controller: "ok", "soft" (can be reset), "button" (pressed)
    (* history *)
    unseen,        \* the program missed a stop of the controller since this attempt began
    unanswered     \* the operator pressed EMERGENCY_STOP and no RESUME since

controlVars == <<pc, back, ret, item, attempt, wasPaused, plan, confirmed>>
trackerVars == <<holding, origin>>
eventVars   == <<started, estop, resume, pause>>
queueVars   == <<decisions, manual>>
toldVars    == <<state, grasped>>
gripVars    == <<grip, held, tray>>
hwVars      == <<hw, unseen>>
vars == <<controlVars, trackerVars, eventVars, queueVars, toldVars, at, gripVars, hwVars,
          unanswered>>

MaybeApple == Apple \cup {NoApple}
Place      == Apple \cup Stations

(* The moves the program watches for a stop, each with the place it goes   *)
(* to ("spot": pick_pos) and what follows.  A hover point on the way to    *)
(* the tray, and the lift after a release, belong to the move they precede.*)
Leg ==
    [init_home     |-> [to |-> "home",   next |-> "init_camera"],
     init_camera   |-> [to |-> "camera", next |-> "ready0"],
     manual_move   |-> [to |-> "manual", next |-> "drain"],
     descend       |-> [to |-> "spot",   next |-> "close"],
     retry_camera  |-> [to |-> "camera", next |-> "refresh"],
     giveup_camera |-> [to |-> "camera", next |-> "cycle_done"],
     carry_camera  |-> [to |-> "camera", next |-> "place_home"],
     place_home    |-> [to |-> "home",   next |-> "place_way"],
     place_way     |-> [to |-> "way",    next |-> "place_start"],
     place_start   |-> [to |-> "box",    next |-> "box_force"],
     back_way      |-> [to |-> "way",    next |-> "back_camera"],
     back_camera   |-> [to |-> "camera", next |-> "cycle_done"],
     miss_way      |-> [to |-> "way",    next |-> "miss_camera"],
     miss_camera   |-> [to |-> "camera", next |-> "tray_start"],
     tray_start    |-> [to |-> "spot",   next |-> "tray_force"],
     tray_camera   |-> [to |-> "camera", next |-> "cycle_done"]]

WorkLegs == DOMAIN Leg
Target(l) == IF Leg[l].to = "spot" THEN item ELSE Leg[l].to

\* The moves of execute_recovery after the lift, which nothing watches.
RecoveryMoves == {"rec_home", "rec_origin", "rec_camera"}
Recovery == {"rec_check", "hw_prompted", "hw_wait", "hw_reset", "rec_lift", "rec_open",
             "rec_done", "rec_prompted", "rec_wait"} \cup RecoveryMoves

PCs == WorkLegs \cup Recovery \cup
       {"boot", "await_start", "ready0", "top", "top2", "drain", "pause_check", "get",
        "confirm", "close", "grasp", "regrip", "refresh", "box_force", "release",
        "tray_force", "tray_release", "cycle_done", "dead"}

Init ==
    /\ pc = "boot" /\ back = "await_start" /\ ret = "top"
    /\ item = NoApple /\ attempt = 0
    /\ wasPaused = FALSE
    /\ plan = "RESUME_AT_CAMERA" /\ confirmed = FALSE
    /\ holding = FALSE /\ origin = NoApple
    /\ started = FALSE /\ estop = FALSE /\ resume = FALSE /\ pause = FALSE
    /\ decisions = <<>> /\ manual = <<>>
    /\ state = "INIT" /\ grasped = FALSE
    /\ at = "boot" /\ grip = "closed" /\ held = NoApple /\ tray = Apple
    /\ hw = "ok" /\ unseen = FALSE
    /\ unanswered = FALSE
---------------------------------------------------------------------------
(* The callbacks, and what they are told *)

\* robot_command_callback
StartCommand ==
    /\ started' = TRUE
    /\ UNCHANGED <<controlVars, trackerVars, estop, resume, pause, queueVars, toldVars, at,
                   gripVars, hwVars, unanswered>>

EmergencyStop ==
    /\ estop' = TRUE
    /\ unanswered' = TRUE
    /\ UNCHANGED <<controlVars, trackerVars, started, resume, pause, queueVars, toldVars, at,
                   gripVars, hwVars>>

\* RESUME releases a pause as well
Resume ==
    /\ resume' = TRUE
    /\ pause' = FALSE
    /\ unanswered' = FALSE
    /\ UNCHANGED <<controlVars, trackerVars, started, estop, queueVars, toldVars, at,
                   gripVars, hwVars>>

ManualPause ==
    /\ pause' = TRUE
    /\ UNCHANGED <<controlVars, trackerVars, started, estop, resume, queueVars, toldVars, at,
                   gripVars, hwVars, unanswered>>

\* GRIPPER (OPEN, CLOSE) and MOVE_JOINT wait for the main thread
ManualCommand(command) ==
    /\ Len(manual) < MaxManual
    /\ manual' = Append(manual, command)
    /\ UNCHANGED <<controlVars, trackerVars, eventVars, decisions, toldVars, at, gripVars,
                   hwVars, unanswered>>

\* decision_result_callback; NoApple: no pose, an unknown destination, ...
Decision(d) ==
    /\ Len(decisions) < MaxDecisions
    /\ decisions' = Append(decisions, d)
    /\ UNCHANGED <<controlVars, trackerVars, eventVars, manual, toldVars, at, gripVars, hwVars,
                   unanswered>>

(* The controller stops the arm; somebody releases the button, and resets  *)
(* the stop on the pendant.  That takes longer than the half second the    *)
(* program needs to notice a stop, if its queries are answered.            *)
HwStop ==
    /\ hw = "ok"
    /\ \/ HwStops = "any"
       \/ HwStops = "work" /\ pc \notin Recovery
    /\ hw' \in {"soft", "button"}
    /\ UNCHANGED <<controlVars, trackerVars, eventVars, queueVars, toldVars, at, gripVars,
                   unseen, unanswered>>

HwRelease ==
    /\ hw # "ok" /\ (estop \/ "query" \in Faults)
    /\ hw' = IF hw = "button" THEN "soft" ELSE "ok"
    /\ unseen' = (unseen \/ ~estop)
    /\ UNCHANGED <<controlVars, trackerVars, eventVars, queueVars, toldVars, at, gripVars,
                   unanswered>>
---------------------------------------------------------------------------
(* Shared pieces of the main thread *)

\* gripper_open: an apple let go over its spot is on the tray again.
Opened ==
    /\ grip' = "open"
    /\ held' = NoApple
    /\ tray' = IF held # NoApple /\ at = held THEN tray \cup {held} ELSE tray

OpenFailed == "gripper" \in Faults /\ UNCHANGED gripVars

(* is_controller_in_hardware_safety_stop says whether it sees a stop: a    *)
(* query that is not answered, or fails, passes for no stop.               *)
HwQuery(sees) ==
    /\ sees = (hw # "ok") \/ (sees = FALSE /\ "query" \in Faults)
    /\ unseen' = (unseen \/ (hw # "ok" /\ sees = FALSE))

\* check_hw_safety_stop is not handed to what watches the force
Unstopped_Slip == ~estop /\ UNCHANGED unseen

\* raise_if_emergency_stop and hw_safety_watch let the work go on
Unstopped == ~estop /\ HwQuery(FALSE)

\* mark_placed and mark_pick_failed
NothingHeld == holding' = FALSE /\ origin' = NoApple

\* where the handler that calls check_and_recover goes on
ReturnPoint(p) ==
    CASE p \in {"init_home", "init_camera"} -> "ready0"
      [] p = "manual_move" -> "drain"
      [] OTHER -> "top"

\* EmergencyStopError reaches its handler, which recovers; with a hardware
\* stop the event is set here.
Raise ==
    /\ estop' = TRUE
    /\ pc' = "rec_check"
    /\ ret' = ReturnPoint(pc)
    /\ UNCHANGED <<back, item, attempt, wasPaused, plan, confirmed, trackerVars, started,
                   resume, pause, queueVars, toldVars, gripVars, hwVars, unanswered>>

Goto(p) == pc' = p /\ UNCHANGED <<back, ret, item, attempt, wasPaused, plan, confirmed>>
---------------------------------------------------------------------------
(* Watched moves *)

(* safe_movel / safe_movej come to their end.  The event is looked at only *)
(* while check_motion() reports a motion: not when the arm is there        *)
(* already, and not when the controller holds the arm, in which case it    *)
(* stays where it is and the program takes it for arrived.                 *)
LegDone(l) ==
    /\ pc = l
    /\ estop => at = Target(l) \/ hw # "ok"
    /\ at' = IF at = Target(l) \/ hw = "ok" THEN Target(l) ELSE "astray"
    /\ Goto(Leg[l].next)
    /\ UNCHANGED <<trackerVars, eventVars, queueVars, toldVars, gripVars, hwVars, unanswered>>

\* raise_if_emergency_stop or hw_safety_watch ends the move
LegStopped(l) ==
    /\ pc = l
    /\ estop \/ hw # "ok"
    /\ at # Target(l)
    /\ at' = "astray"
    /\ Raise
---------------------------------------------------------------------------
(* Start-up *)

Boot ==
    /\ pc = "boot"
    /\ Opened \/ OpenFailed
    /\ state' = "READY"
    /\ Goto("await_start")
    /\ UNCHANGED <<trackerVars, eventVars, queueVars, grasped, at, hwVars, unanswered>>

\* The loop that waits for START and meanwhile serves manual commands
AwaitStart ==
    /\ pc = "await_start"
    /\ IF started
       THEN /\ state' = "MOVING"
            /\ Goto("init_home")
       ELSE /\ manual # <<>>
            /\ pc' = "drain" /\ back' = "await_start"
            /\ UNCHANGED <<state, ret, item, attempt, wasPaused, plan, confirmed>>
    /\ UNCHANGED <<trackerVars, eventVars, queueVars, grasped, at, gripVars, hwVars, unanswered>>

\* whatever became of the moves before, or of their recovery
Ready0 ==
    /\ pc = "ready0"
    /\ state' = "READY"
    /\ Goto("top")
    /\ UNCHANGED <<trackerVars, eventVars, queueVars, grasped, at, gripVars, hwVars, unanswered>>
---------------------------------------------------------------------------
(* The main loop between two apples *)

\* the loop recovers only from stops that end a move
LoopTop_Slip ==
    /\ pc = "top"
    /\ \E sees \in BOOLEAN : HwQuery(sees) /\ estop' = (estop \/ sees)
    /\ Goto("top2")
    /\ UNCHANGED <<trackerVars, started, resume, pause, queueVars, toldVars, at, gripVars, hw,
                   unanswered>>

\* is there a stop to recover from, of the program or of the controller?
LoopTop ==
    /\ pc = "top"
    /\ \E sees \in BOOLEAN : HwQuery(sees) /\ estop' = (estop \/ sees)
    /\ IF estop'
       THEN /\ pc' = "rec_check" /\ ret' = "top"
            /\ UNCHANGED <<back, item, attempt, wasPaused, plan, confirmed>>
       ELSE Goto("top2")
    /\ UNCHANGED <<trackerVars, started, resume, pause, queueVars, toldVars, at, gripVars, hw,
                   unanswered>>

\* a stop that came after that look: the manual commands are thrown away
BeforeDrain ==
    /\ pc = "top2"
    /\ back' = "pause_check"
    /\ manual' = IF estop THEN <<>> ELSE manual
    /\ pc' = IF estop THEN "pause_check" ELSE "drain"
    /\ UNCHANGED <<ret, item, attempt, wasPaused, plan, confirmed, trackerVars, eventVars,
                   decisions, toldVars, at, gripVars, hwVars, unanswered>>

\* _handle_manual_command
ManualGripper ==
    /\ pc = "drain" /\ manual # <<>> /\ Head(manual) # "MOVE_JOINT"
    /\ manual' = Tail(manual)
    /\ IF Head(manual) = "OPEN"
       THEN Opened \/ OpenFailed
       ELSE grip' = "closed" /\ UNCHANGED <<held, tray>>
    /\ grasped' = (Head(manual) = "CLOSE")
    /\ UNCHANGED <<controlVars, trackerVars, eventVars, decisions, state, at, hwVars, unanswered>>

ManualMove ==
    /\ pc = "drain" /\ manual # <<>> /\ Head(manual) = "MOVE_JOINT"
    /\ manual' = Tail(manual)
    /\ Goto("manual_move")
    /\ UNCHANGED <<trackerVars, eventVars, decisions, toldVars, at, gripVars, hwVars, unanswered>>

DrainEnds ==
    /\ pc = "drain" /\ manual = <<>>
    /\ Goto(back)
    /\ UNCHANGED <<trackerVars, eventVars, queueVars, toldVars, at, gripVars, hwVars, unanswered>>

PauseCheck ==
    /\ pc = "pause_check"
    /\ wasPaused' = pause
    /\ state' = CASE pause -> "PAUSED" [] wasPaused /\ ~pause -> "READY" [] OTHER -> state
    /\ pc' = IF pause THEN "top" ELSE "get"
    /\ UNCHANGED <<back, ret, item, attempt, plan, confirmed, trackerVars, eventVars,
                   queueVars, grasped, at, gripVars, hwVars, unanswered>>

GetDecision ==
    /\ pc = "get" /\ decisions # <<>>
    /\ decisions' = Tail(decisions)
    /\ item' = Head(decisions)
    /\ pc' = IF Head(decisions) = NoApple THEN "top" ELSE "confirm"
    /\ UNCHANGED <<back, ret, attempt, wasPaused, plan, confirmed, trackerVars, eventVars,
                   manual, toldVars, at, gripVars, hwVars, unanswered>>

\* one second without a decision
GetTimesOut ==
    /\ pc = "get" /\ decisions = <<>>
    /\ Goto("top")
    /\ UNCHANGED <<trackerVars, eventVars, queueVars, toldVars, at, gripVars, hwVars, unanswered>>
---------------------------------------------------------------------------
(* Picking *)

\* begin_pick_attempt is left to the first attempt
BeginAttempt_Slip(n) ==
    /\ attempt' = n
    /\ IF n = 1 THEN holding' = TRUE /\ origin' = item ELSE UNCHANGED trackerVars
    /\ state' = "MOVING"
    /\ pc' = "descend"
    /\ unseen' = FALSE
    /\ UNCHANGED <<back, ret, item, wasPaused, plan, confirmed>>

\* an attempt starts: MOVING, begin_pick_attempt, down to the apple
BeginAttempt(n) ==
    /\ attempt' = n
    /\ holding' = TRUE /\ origin' = item
    /\ state' = "MOVING"
    /\ pc' = "descend"
    /\ unseen' = FALSE
    /\ UNCHANGED <<back, ret, item, wasPaused, plan, confirmed>>

\* confirm_apple_present_before_pick has its answer: go
Confirmed ==
    /\ pc = "confirm"
    /\ BeginAttempt(1)
    /\ UNCHANGED <<eventVars, queueVars, grasped, at, gripVars, hw, unanswered>>

\* out of the tray's bounds, or "empty"
Unconfirmed ==
    /\ pc = "confirm"
    /\ Goto("top")
    /\ UNCHANGED <<trackerVars, eventVars, queueVars, toldVars, at, gripVars, hwVars, unanswered>>

\* the last attempt is counted one too late
PickFailed_Slip ==
    /\ grasped' = FALSE
    /\ NothingHeld
    /\ Goto(IF attempt > MaxPickAttempts THEN "giveup_camera" ELSE "regrip")
    /\ UNCHANGED <<eventVars, queueVars, state, hw, unanswered>>

\* pick_apple returned False
PickFailed ==
    /\ grasped' = FALSE
    /\ NothingHeld
    /\ Goto(IF attempt = MaxPickAttempts THEN "giveup_camera" ELSE "regrip")
    /\ UNCHANGED <<eventVars, queueVars, state, hw, unanswered>>

\* descend_to_pick_with_reaction_guard pushed against something each time
DescentRefused ==
    /\ pc = "descend" /\ Unstopped
    /\ at' = "astray"
    /\ PickFailed
    /\ UNCHANGED gripVars

\* The gripper closes, on the apple if there is one and it was open.
Close ==
    /\ pc = "close"
    /\ grip' = "closed"
    /\ \/ /\ grip = "open" /\ held = NoApple /\ at = item /\ item \in tray
          /\ held' = item /\ tray' = tray \ {item}
       \/ UNCHANGED <<held, tray>>
    /\ Goto("grasp")
    /\ UNCHANGED <<trackerVars, eventVars, queueVars, toldVars, at, hwVars, unanswered>>

\* the force says whether there is an apple in the gripper
Verdicts == {held # NoApple} \cup (IF "sensor" \in Faults THEN BOOLEAN ELSE {})

Grasped ==
    /\ pc = "grasp" /\ Unstopped
    /\ TRUE \in Verdicts
    /\ grasped' = TRUE
    /\ Goto("carry_camera")
    /\ UNCHANGED <<trackerVars, eventVars, queueVars, state, at, gripVars, hw, unanswered>>

NotGrasped ==
    /\ pc = "grasp" /\ Unstopped
    /\ FALSE \in Verdicts
    /\ PickFailed
    /\ UNCHANGED <<at, gripVars>>

\* every step of the grasp looks at the event and at the controller
GraspStopped ==
    /\ pc = "grasp" /\ (estop \/ hw # "ok")
    /\ Raise
    /\ UNCHANGED at

\* the next attempt looks from where the last one ended
Regrip_Slip ==
    /\ pc = "regrip"
    /\ Opened \/ OpenFailed
    /\ Goto("refresh")
    /\ UNCHANGED <<trackerVars, eventVars, queueVars, toldVars, at, hwVars, unanswered>>

Regrip ==
    /\ pc = "regrip"
    /\ Opened \/ OpenFailed
    /\ Goto("retry_camera")
    /\ UNCHANGED <<trackerVars, eventVars, queueVars, toldVars, at, hwVars, unanswered>>

\* refresh_pick_pos: look again, try again
Refresh ==
    /\ pc = "refresh"
    /\ BeginAttempt(attempt + 1)
    /\ UNCHANGED <<eventVars, queueVars, grasped, at, gripVars, hw, unanswered>>
---------------------------------------------------------------------------
(* Placing *)

(* force_controlled_place feels the box below the arm: a change of force,  *)
(* looked at before the event; or z has not moved for STALL_TIME_SEC, be   *)
(* it that the controller holds the arm.  That takes four looks at the     *)
(* event and the controller, and none may end the descent.                 *)
BoxContact ==
    /\ pc = "box_force"
    /\ \/ at = "box" /\ UNCHANGED unseen
       \/ Unstopped
    /\ Goto("release")
    /\ UNCHANGED <<trackerVars, eventVars, queueVars, toldVars, at, gripVars, hw, unanswered>>

\* or feels nothing before its time is over
BoxMissed ==
    /\ pc = "box_force" /\ Unstopped
    /\ Goto("miss_way")
    /\ UNCHANGED <<trackerVars, eventVars, queueVars, toldVars, at, gripVars, hw, unanswered>>

\* over the tray the gripper opens with contact or without
TrayForce ==
    /\ pc = "tray_force"
    /\ \/ at = item /\ UNCHANGED unseen
       \/ Unstopped
    /\ Goto("tray_release")
    /\ UNCHANGED <<trackerVars, eventVars, queueVars, toldVars, at, gripVars, hw, unanswered>>

ForceStopped ==
    /\ pc \in {"box_force", "tray_force"} /\ (estop \/ hw # "ok")
    /\ Raise
    /\ UNCHANGED at

\* after an apple is put back the arm stays over the tray
Release_Slip ==
    /\ pc \in {"release", "tray_release"}
    /\ \/ Opened /\ NothingHeld /\ grasped' = FALSE
       \/ OpenFailed /\ UNCHANGED trackerVars /\ grasped' = TRUE
    /\ Goto(IF pc = "release" THEN "back_way" ELSE "cycle_done")
    /\ UNCHANGED <<eventVars, queueVars, state, at, hwVars, unanswered>>

\* the gripper opens, or ERR_DROP; the cycle goes on in either case
Release ==
    /\ pc \in {"release", "tray_release"}
    /\ \/ Opened /\ NothingHeld /\ grasped' = FALSE
       \/ OpenFailed /\ UNCHANGED trackerVars /\ grasped' = TRUE
    /\ Goto(IF pc = "release" THEN "back_way" ELSE "tray_camera")
    /\ UNCHANGED <<eventVars, queueVars, state, at, hwVars, unanswered>>

\* the end of a cycle, also of one given up
CycleDone ==
    /\ pc = "cycle_done"
    /\ state' = "READY"
    /\ Goto("top")
    /\ UNCHANGED <<trackerVars, eventVars, queueVars, grasped, at, gripVars, hwVars, unanswered>>
---------------------------------------------------------------------------
(* check_and_recover, reached only with the event set *)

\* get_recovery_plan forgets that something is held
Plan_Slip == "RESUME_AT_CAMERA"

\* get_recovery_plan
Plan == IF holding THEN "RETURN_TO_ORIGIN" ELSE "RESUME_AT_CAMERA"

BeginRecovery(byOperator) ==
    /\ state' = "ESTOP"
    /\ plan' = Plan
    /\ confirmed' = byOperator
    /\ pc' = "rec_lift"
    /\ UNCHANGED <<back, ret, item, attempt, wasPaused>>

\* a controller in a safety stop is first to be released with the operator
RecoveryCheck ==
    /\ pc = "rec_check"
    /\ \/ HwQuery(TRUE) /\ state' = "WAITING" /\ Goto("hw_prompted")
       \/ HwQuery(FALSE) /\ BeginRecovery(FALSE)
    /\ UNCHANGED <<trackerVars, eventVars, queueVars, grasped, at, gripVars, hw, unanswered>>

\* wait_for_resume_signal: forget the RESUMEs given so far
ForgetResume ==
    /\ pc \in {"hw_prompted", "rec_prompted"}
    /\ resume' = FALSE
    /\ Goto(IF pc = "hw_prompted" THEN "hw_wait" ELSE "rec_wait")
    /\ UNCHANGED <<trackerVars, started, estop, pause, queueVars, toldVars, at, gripVars, hwVars,
                   unanswered>>

HwResumed ==
    /\ pc = "hw_wait" /\ resume
    /\ resume' = FALSE
    /\ Goto("hw_reset")
    /\ UNCHANGED <<trackerVars, started, estop, pause, queueVars, toldVars, at, gripVars, hwVars,
                   unanswered>>

\* reset_controller_safety_stop brings the controller to STANDBY
HwReset ==
    /\ pc = "hw_reset" /\ hw = "soft"
    /\ hw' = "ok"
    /\ BeginRecovery(TRUE)
    /\ UNCHANGED <<trackerVars, eventVars, queueVars, grasped, at, gripVars, unseen, unanswered>>

(* or cannot: the button is pressed, a service fails, or there is nothing  *)
(* to reset any more.  The event stays set.                                *)
HwResetFails ==
    /\ pc = "hw_reset"
    /\ Goto(ret)
    /\ UNCHANGED <<trackerVars, eventVars, queueVars, toldVars, at, gripVars, hwVars, unanswered>>

\* execute_recovery: "go where you are" replaces the old target; then lift
Lift ==
    /\ pc = "rec_lift" /\ hw = "ok"
    /\ at' = "lifted"
    /\ Goto("rec_home")
    /\ UNCHANGED <<trackerVars, eventVars, queueVars, toldVars, gripVars, hwVars, unanswered>>

\* LIFT_RETRY_COUNT times without an effect: RuntimeError ends the process
LiftFails ==
    /\ pc = "rec_lift" /\ (hw # "ok" \/ "arm" \in Faults)
    /\ Goto("dead")
    /\ UNCHANGED <<trackerVars, eventVars, queueVars, toldVars, at, gripVars, hwVars, unanswered>>

\* the apple is let go before the arm goes where it came from
RecoveryMove_Slip ==
    /\ pc \in RecoveryMoves
    /\ at' = IF pc = "rec_home" THEN "home" ELSE "camera"
    /\ Goto(CASE pc = "rec_home" /\ plan = "RETURN_TO_ORIGIN" -> "rec_open"
              [] pc = "rec_home" /\ plan # "RETURN_TO_ORIGIN" -> "rec_camera"
              [] OTHER -> "rec_done")
    /\ UNCHANGED <<trackerVars, eventVars, queueVars, toldVars, gripVars, hwVars, unanswered>>

(* HOME, then the place the apple came from, then CAMERA.  Nothing watches *)
(* these moves; a controller in a safety stop ignores them.                *)
RecoveryMove ==
    /\ pc \in RecoveryMoves
    /\ LET to == CASE pc = "rec_home"   -> "home"
                   [] pc = "rec_origin" -> origin
                   [] pc = "rec_camera" -> "camera"
       IN at' = IF hw = "ok" THEN to ELSE IF at = to THEN at ELSE "astray"
    /\ Goto(CASE pc = "rec_home" /\ plan = "RETURN_TO_ORIGIN" -> "rec_origin"
              [] pc = "rec_home" /\ plan # "RETURN_TO_ORIGIN" -> "rec_camera"
              [] pc = "rec_origin" -> "rec_open"
              [] pc = "rec_camera" -> "rec_done")
    /\ UNCHANGED <<trackerVars, eventVars, queueVars, toldVars, gripVars, hwVars, unanswered>>

\* a gripper that does not open is only logged
RecoveryOpen ==
    /\ pc = "rec_open"
    /\ Opened \/ OpenFailed
    /\ Goto("rec_camera")
    /\ UNCHANGED <<trackerVars, eventVars, queueVars, toldVars, at, hwVars, unanswered>>

\* wait_for_resume is never called
Recovered_Slip ==
    /\ pc = "rec_done"
    /\ IF plan = "RETURN_TO_ORIGIN" THEN NothingHeld ELSE UNCHANGED trackerVars
    /\ grasped' = FALSE
    /\ estop' = FALSE
    /\ state' = "READY"
    /\ Goto(ret)
    /\ UNCHANGED <<started, resume, pause, queueVars, at, gripVars, hwVars, unanswered>>

(* Tell the backend, clear the event, and ask for the RESUME unless the    *)
(* operator already gave one.                                              *)
Recovered ==
    /\ pc = "rec_done"
    /\ IF plan = "RETURN_TO_ORIGIN" THEN NothingHeld ELSE UNCHANGED trackerVars
    /\ grasped' = FALSE
    /\ estop' = FALSE
    /\ state' = IF confirmed THEN "READY" ELSE "WAITING"
    /\ Goto(IF confirmed THEN ret ELSE "rec_prompted")
    /\ UNCHANGED <<started, resume, pause, queueVars, at, gripVars, hwVars, unanswered>>

Resumed ==
    /\ pc = "rec_wait" /\ resume
    /\ resume' = FALSE
    /\ state' = "READY"
    /\ Goto(ret)
    /\ UNCHANGED <<trackerVars, started, estop, pause, queueVars, grasped, at, gripVars, hwVars,
                   unanswered>>
---------------------------------------------------------------------------
Between == LoopTop \/ BeforeDrain \/ ManualGripper \/ ManualMove \/ DrainEnds
             \/ PauseCheck \/ GetDecision \/ GetTimesOut

Pick == Confirmed \/ Unconfirmed \/ DescentRefused \/ Close \/ Grasped \/ NotGrasped
          \/ GraspStopped \/ Regrip \/ Refresh

PlaceApple == BoxContact \/ BoxMissed \/ TrayForce \/ ForceStopped \/ Release \/ CycleDone

Recover == RecoveryCheck \/ ForgetResume \/ HwResumed \/ HwReset \/ HwResetFails \/ Lift
             \/ LiftFails \/ RecoveryMove \/ RecoveryOpen \/ Recovered \/ Resumed

MainThread ==
    \/ Boot \/ AwaitStart \/ Ready0
    \/ \E l \in WorkLegs : LegDone(l) \/ LegStopped(l)
    \/ Between \/ Pick \/ PlaceApple \/ Recover

Callback ==
    \/ StartCommand \/ EmergencyStop \/ Resume \/ ManualPause
    \/ \E command \in {"OPEN", "CLOSE", "MOVE_JOINT"} : ManualCommand(command)
    \/ \E d \in MaybeApple : Decision(d)

Next == MainThread \/ Callback \/ HwStop \/ HwRelease

Spec == Init /\ [][Next]_vars

(* The main thread runs on; moves, services and gripper commands come to   *)
(* an end.  Nothing is assumed of the operator or the controller.          *)
FairSpec == Spec /\ WF_vars(MainThread)
---------------------------------------------------------------------------
(* Properties *)

\* Every variable has its type.
TypeOK ==
    /\ pc \in PCs
    /\ back \in {"await_start", "pause_check"}
    /\ ret \in {"top", "ready0", "drain"}
    /\ item \in MaybeApple
    /\ attempt \in 0 .. MaxPickAttempts
    /\ wasPaused \in BOOLEAN
    /\ plan \in {"RETURN_TO_ORIGIN", "RESUME_AT_CAMERA"}
    /\ confirmed \in BOOLEAN
    /\ holding \in BOOLEAN /\ origin \in MaybeApple
    /\ started \in BOOLEAN /\ estop \in BOOLEAN /\ resume \in BOOLEAN /\ pause \in BOOLEAN
    /\ decisions \in Seq(MaybeApple)
    /\ manual \in Seq({"OPEN", "CLOSE", "MOVE_JOINT"})
    /\ state \in {"INIT", "READY", "MOVING", "PAUSED", "ESTOP", "WAITING"}
    /\ grasped \in BOOLEAN
    /\ at \in Place
    /\ grip \in {"open", "closed"} /\ held \in MaybeApple /\ tray \in SUBSET Apple
    /\ hw \in {"ok", "soft", "button"}
    /\ unseen \in BOOLEAN /\ unanswered \in BOOLEAN

\* Whenever an apple is in the gripper the tracker knows it and where it
\* came from, so that a stop at any moment takes the apple back there.
HeldIsTracked == held # NoApple => holding /\ origin = held

\* Between two apples the gripper is empty and the backend was told so.
HandsEmpty == pc \in {"pause_check", "get", "confirm"} => held = NoApple /\ ~grasped

\* An apple is let go only over the box or over the spot it came from, even
\* if the controller froze the arm on the way, unless the program's queries of
\* that stop were not answered: then a frozen arm is taken for a contact.
ReleasedInPlace ==
    [][ held # NoApple /\ held' # held => at \in {"box", held} \/ unseen ]_vars

\* After an EMERGENCY_STOP the arm goes on with its work only when the
\* operator has pressed RESUME since.
NoWorkBeforeResume ==
    [][ (pc \in WorkLegs /\ at' # at /\ at' # "astray") => (unanswered = FALSE) ]_vars

\* A position seen by the camera on the hand is turned into robot
\* coordinates while the arm stands at CAMERA, where it was seen from.
MeasuredAtCamera == pc \in {"confirm", "refresh"} => at = "camera"

\* Once at work, READY is told to the backend only when the arm stands at
\* CAMERA.
ReadyAtCamera ==
    [][ started /\ pc # "boot" /\ state # "READY" /\ state' = "READY" => at = "camera" ]_vars

\* A stop that comes while the arm works, wherever the main thread is, leads
\* to the point where the operator is asked for RESUME (or to the failed lift).
StopAnswered ==
    estop /\ started /\ pc \notin Recovery ~> pc \in {"hw_wait", "rec_wait", "dead"}

\* An apple once taken is put down, be it in the box or back on the tray,
\* unless the program waits for the operator to free the controller or died.
PutDown == held # NoApple ~> held = NoApple \/ pc \in {"hw_wait", "dead"}
=============================================================================
