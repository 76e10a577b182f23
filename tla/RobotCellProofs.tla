-------------------------- MODULE RobotCellProofs --------------------------
(* What holds of RobotCell for every set of apples, number of attempts and *)
(* bound on the queues.                                                    *)
(*                                                                         *)
(* Types come first (WellFormed), for all faults and stops of the          *)
(* controller.  Then, where the apple may be at each point of the main     *)
(* thread (Tracking), as long as the gripper opens when told and the force *)
(* tells an apple from none.  Then what the backend was told of it         *)
(* (Telling), when no manual commands are given, and where the arm is when *)
(* the gripper opens (Placing), when the controller does not stop the arm  *)
(* during a recovery.  Last, when the controller does not stop the arm at  *)
(* all, that work waits for the operator (Asking), and where the arm       *)
(* stands when the program looks or says READY (Standing).                 *)
EXTENDS RobotCell, SequenceTheorems, TLAPS

(* The main thread has an apple to work on. *)
AtWork == {"confirm", "descend", "close", "grasp", "regrip", "retry_camera", "refresh",
           "giveup_camera", "carry_camera", "place_home", "place_way", "place_start",
           "box_force", "release", "back_way", "back_camera", "miss_way", "miss_camera",
           "tray_start", "tray_force", "tray_release", "tray_camera", "cycle_done"}

ItemAtWork   == pc \in AtWork => item \in Apple
OriginKnown  == holding => origin \in Apple
AttemptsLeft == pc \in {"regrip", "retry_camera", "refresh"} => attempt < MaxPickAttempts
PlanHolds ==
    /\ pc \in {"rec_lift", "rec_home"} /\ plan = "RETURN_TO_ORIGIN" => holding
    /\ pc \in {"rec_origin", "rec_open"} => holding

WellFormed == TypeOK /\ ItemAtWork /\ OriginKnown /\ AttemptsLeft /\ PlanHolds

(* The gripper has nothing in it. *)
Empty == {"boot", "await_start", "init_home", "init_camera", "ready0", "drain", "manual_move",
          "top2", "pause_check", "get", "confirm", "descend", "close", "regrip",
          "retry_camera", "refresh", "giveup_camera", "back_way", "back_camera",
          "tray_camera", "cycle_done", "rec_camera", "rec_done", "rec_prompted", "rec_wait"}

NothingIn == pc \in Empty => held = NoApple
\* a reset that failed leaves the stop set, and the loop recovers again
AtTop     == pc = "top" => held = NoApple \/ estop
\* a stop outside the cycle finds the gripper empty
Outside   == pc \in Recovery /\ ret # "top" => held = NoApple
Begun     == pc \in {"descend", "close"} => holding /\ origin = item
PlanSays  == pc \in {"rec_lift", "rec_home"} => (plan = "RETURN_TO_ORIGIN" <=> holding)

\* a recovery keeps the event set until it is over
StopSet   == pc \in Recovery \ {"rec_prompted", "rec_wait"} => estop

Tracking ==
    HeldIsTracked /\ NothingIn /\ AtTop /\ Outside /\ Begun /\ PlanSays /\ StopSet

Told == Empty \ {"rec_camera", "rec_done"}

TellsEmpty   == pc \in Told => grasped = FALSE
TellsTop     == pc = "top" => (grasped = FALSE) \/ estop
TellsOutside == pc \in Recovery /\ ret # "top" => grasped = FALSE

Telling == manual = <<>> /\ TellsEmpty /\ TellsTop /\ TellsOutside

(* Between the first attempt and the release the apple's place is known. *)
Carrying == {"descend", "close", "grasp", "carry_camera", "place_home", "place_way",
             "place_start", "box_force", "release", "miss_way", "miss_camera", "tray_start",
             "tray_force", "tray_release"}

SamePlace  == pc \in Carrying => origin = item
OverBox ==
    /\ pc = "box_force" => at = "box" \/ estop \/ hw # "ok" \/ unseen
    /\ pc = "release" => at = "box" \/ unseen
OverSpot ==
    /\ pc = "tray_force" => at = item \/ estop \/ hw # "ok" \/ unseen
    /\ pc = "tray_release" => at = item \/ unseen
OverOrigin == pc = "rec_open" => at = origin
\* the controller is released before the arm has lifted
Freed ==
    pc \in Recovery \ {"rec_check", "hw_prompted", "hw_wait", "hw_reset", "rec_lift"} => hw = "ok"

Placing == SamePlace /\ OverBox /\ OverSpot /\ OverOrigin /\ Freed

(* The operator pressed EMERGENCY_STOP, gave no RESUME since, and the event *)
(* is not set any more: then the program is on its way to ask for one.     *)
NeverHw == hw = "ok" /\ confirmed = FALSE /\ pc \notin {"hw_prompted", "hw_wait", "hw_reset"}

AsksFor ==
    unanswered /\ ~estop => pc = "rec_prompted" \/ (pc = "rec_wait" /\ resume = FALSE)

Asking == NeverHw /\ AsksFor
---------------------------------------------------------------------------
(* Types *)

\* What the proofs need of the table of watched moves.
LEMMA Legs ==
    /\ WorkLegs = {"init_home", "init_camera", "manual_move", "descend", "retry_camera",
                   "giveup_camera", "carry_camera", "place_home", "place_way", "place_start",
                   "back_way", "back_camera", "miss_way", "miss_camera", "tray_start",
                   "tray_camera"}
    /\ \A l \in WorkLegs :
          /\ Leg[l].to \in Stations \cup {"spot"} /\ (Leg[l].to = "spot" => l \in AtWork)
          /\ Leg[l].next \in PCs \ (Recovery \cup {"top", "regrip", "retry_camera", "descend"})
          /\ Leg[l].next \in AtWork => l \in AtWork
          /\ Leg[l].next = "refresh" => l = "retry_camera"
          /\ Leg[l].next \in Empty => l \in Empty
          /\ Leg[l].next = "close" => l = "descend"
<1>1. WorkLegs = {"init_home", "init_camera", "manual_move", "descend", "retry_camera",
                  "giveup_camera", "carry_camera", "place_home", "place_way", "place_start",
                  "back_way", "back_camera", "miss_way", "miss_camera", "tray_start",
                  "tray_camera"}
  BY DEF WorkLegs, Leg
<1>2. ASSUME NEW l \in WorkLegs
      PROVE  /\ Leg[l].to \in Stations \cup {"spot"} /\ (Leg[l].to = "spot" => l \in AtWork)
             /\ Leg[l].next \in PCs
             /\ Leg[l].next \in AtWork => l \in AtWork
  BY <1>1 DEF Leg, Stations, AtWork, PCs
<1>3. ASSUME NEW l \in WorkLegs
      PROVE  Leg[l].next \notin Recovery \cup {"top", "regrip", "retry_camera", "descend"}
  BY <1>1 DEF Leg, Recovery, RecoveryMoves
<1>4. ASSUME NEW l \in WorkLegs
      PROVE  /\ Leg[l].next = "refresh" => l = "retry_camera"
             /\ Leg[l].next \in Empty => l \in Empty
             /\ Leg[l].next = "close" => l = "descend"
  BY <1>1 DEF Leg, Empty
<1> QED
  BY <1>1, <1>2, <1>3, <1>4

\* The program starts with its variables well-formed.
LEMMA InitWellFormed == Init => WellFormed
<1> SUFFICES ASSUME Init PROVE WellFormed
  OBVIOUS
<1>1. /\ wasPaused \in BOOLEAN /\ confirmed \in BOOLEAN /\ holding \in BOOLEAN
      /\ started \in BOOLEAN /\ estop \in BOOLEAN /\ resume \in BOOLEAN /\ pause \in BOOLEAN
      /\ grasped \in BOOLEAN /\ unseen \in BOOLEAN /\ unanswered \in BOOLEAN
  BY Zenon DEF Init
<1>2. decisions \in Seq(MaybeApple) /\ manual \in Seq({"OPEN", "CLOSE", "MOVE_JOINT"})
  BY DEF Init
<1>3. /\ pc \in PCs /\ item \in MaybeApple /\ origin \in MaybeApple /\ at \in Place
      /\ back \in {"await_start", "pause_check"} /\ ret \in {"top", "ready0", "drain"}
      /\ plan \in {"RETURN_TO_ORIGIN", "RESUME_AT_CAMERA"}
      /\ state \in {"INIT", "READY", "MOVING", "PAUSED", "ESTOP", "WAITING"}
      /\ grip \in {"open", "closed"} /\ held \in MaybeApple /\ tray \in SUBSET Apple
      /\ hw \in {"ok", "soft", "button"}
  BY DEF Init, PCs, MaybeApple, Place, Stations
<1>4. attempt \in 0 .. MaxPickAttempts
  BY CellAssumption DEF Init
<1>5. ItemAtWork /\ AttemptsLeft /\ PlanHolds /\ OriginKnown
  BY DEF Init, ItemAtWork, AttemptsLeft, PlanHolds, OriginKnown, AtWork
<1> QED
  BY <1>1, <1>2, <1>3, <1>4, <1>5 DEF WellFormed, TypeOK

\* What the callbacks set, and the controller.
LEMMA OutsideWellFormed ==
    ASSUME WellFormed, Callback \/ HwStop \/ HwRelease
    PROVE  WellFormed'
<1> USE DEF WellFormed, TypeOK, ItemAtWork, OriginKnown, AttemptsLeft, PlanHolds,
        controlVars, trackerVars, eventVars, queueVars, toldVars, gripVars, hwVars
<1>1. CASE StartCommand
  BY <1>1 DEF StartCommand
<1>2. CASE EmergencyStop
  BY <1>2 DEF EmergencyStop
<1>3. CASE Resume
  <2>1. resume' \in BOOLEAN /\ pause' \in BOOLEAN /\ unanswered' \in BOOLEAN
    BY <1>3, Zenon DEF Resume
  <2> QED
    BY <1>3, <2>1 DEF Resume
<1>4. CASE ManualPause
  BY <1>4 DEF ManualPause
<1>5. CASE HwStop
  BY <1>5 DEF HwStop
<1>6. CASE HwRelease
  BY <1>6 DEF HwRelease
<1>7. ASSUME NEW command \in {"OPEN", "CLOSE", "MOVE_JOINT"}, ManualCommand(command)
      PROVE  WellFormed'
  BY <1>7 DEF ManualCommand
<1>8. ASSUME NEW d \in MaybeApple, Decision(d)
      PROVE  WellFormed'
  BY <1>8 DEF Decision
<1> QED
  BY <1>1, <1>2, <1>3, <1>4, <1>5, <1>6, <1>7, <1>8 DEF Callback

\* A watched move, arrived or stopped.
LEMMA LegWellFormed ==
    ASSUME WellFormed, NEW l \in WorkLegs, LegDone(l) \/ LegStopped(l)
    PROVE  WellFormed'
<1> USE CellAssumption DEF WellFormed, TypeOK, ItemAtWork, OriginKnown, AttemptsLeft,
        PlanHolds, controlVars, trackerVars, eventVars, queueVars, toldVars, gripVars, hwVars,
        AtWork, MaybeApple, Place, Stations
<1>1. CASE LegDone(l)
  BY <1>1, Legs DEF LegDone, Target, Goto, Recovery, RecoveryMoves
<1>2. CASE LegStopped(l)
  BY <1>2, Legs DEF LegStopped, Raise, ReturnPoint, PCs, Recovery, RecoveryMoves
<1> QED
  BY <1>1, <1>2

\* Start-up and the loop between two apples.
LEMMA BetweenWellFormed ==
    ASSUME WellFormed, Boot \/ AwaitStart \/ Ready0 \/ Between
    PROVE  WellFormed'
<1> USE CellAssumption DEF WellFormed, TypeOK, ItemAtWork, OriginKnown, AttemptsLeft,
        PlanHolds, controlVars, trackerVars, eventVars, queueVars, toldVars, gripVars, hwVars,
        AtWork, Goto, MaybeApple
<1>1. CASE Boot
  BY <1>1 DEF Boot, Opened, OpenFailed, PCs
<1>2. CASE AwaitStart
  BY <1>2 DEF AwaitStart, PCs, WorkLegs, Leg, Recovery, RecoveryMoves
<1>3. CASE Ready0
  BY <1>3 DEF Ready0, PCs, WorkLegs, Leg, Recovery, RecoveryMoves
<1>4. CASE LoopTop
  BY <1>4 DEF LoopTop, HwQuery, PCs, WorkLegs, Leg, Recovery, RecoveryMoves
<1>5. CASE BeforeDrain
  BY <1>5 DEF BeforeDrain, PCs, WorkLegs, Leg, Recovery, RecoveryMoves
<1>6. CASE ManualGripper
  BY <1>6 DEF ManualGripper, Opened, OpenFailed
<1>7. CASE ManualMove
  BY <1>7 DEF ManualMove, PCs, WorkLegs, Leg, Recovery, RecoveryMoves
<1>8. CASE DrainEnds
  BY <1>8 DEF DrainEnds, PCs, WorkLegs, Leg, Recovery, RecoveryMoves
<1>9. CASE PauseCheck
  BY <1>9 DEF PauseCheck, PCs, WorkLegs, Leg, Recovery, RecoveryMoves
<1>10. CASE GetDecision
  BY <1>10 DEF GetDecision, PCs, WorkLegs, Leg, Recovery, RecoveryMoves, MaybeApple
<1>11. CASE GetTimesOut
  BY <1>11 DEF GetTimesOut, PCs, WorkLegs, Leg, Recovery, RecoveryMoves
<1> QED
  BY <1>1, <1>2, <1>3, <1>4, <1>5, <1>6, <1>7, <1>8, <1>9, <1>10, <1>11 DEF Between

\* Picking.
LEMMA PickWellFormed ==
    ASSUME WellFormed, Pick
    PROVE  WellFormed'
<1> USE CellAssumption DEF WellFormed, TypeOK, ItemAtWork, OriginKnown, AttemptsLeft,
        PlanHolds, controlVars, trackerVars, eventVars, queueVars, toldVars, gripVars, hwVars,
        AtWork, Goto, MaybeApple
<1>1. CASE Confirmed
  <2>1. unseen' \in BOOLEAN
    BY <1>1, Zenon DEF Confirmed, BeginAttempt
  <2> QED
    BY <1>1, <2>1 DEF Confirmed, BeginAttempt, PCs, WorkLegs, Leg, Recovery, RecoveryMoves
<1>2. CASE Unconfirmed
  BY <1>2 DEF Unconfirmed, PCs, WorkLegs, Leg, Recovery, RecoveryMoves
<1>3. CASE DescentRefused
  <2>1. grasped' \in BOOLEAN /\ holding' \in BOOLEAN
    BY <1>3, Zenon DEF DescentRefused, Unstopped, HwQuery, PickFailed, NothingHeld
  <2> QED
    BY <1>3, <2>1 DEF DescentRefused, Unstopped, HwQuery, PickFailed, NothingHeld, Place, Stations, PCs,
       WorkLegs, Leg, Recovery, RecoveryMoves
<1>4. CASE Close
  BY <1>4 DEF Close, PCs, WorkLegs, Leg, Recovery, RecoveryMoves
<1>5. CASE Grasped
  BY <1>5 DEF Grasped, Unstopped, HwQuery, PCs, WorkLegs, Leg, Recovery, RecoveryMoves
<1>6. CASE NotGrasped
  <2>1. grasped' \in BOOLEAN /\ holding' \in BOOLEAN
    BY <1>6, Zenon DEF NotGrasped, Unstopped, HwQuery, PickFailed, NothingHeld
  <2> QED
    BY <1>6, <2>1 DEF NotGrasped, Unstopped, HwQuery, PickFailed, NothingHeld, PCs, WorkLegs, Leg, Recovery,
       RecoveryMoves
<1>7. CASE GraspStopped
  BY <1>7 DEF GraspStopped, Raise, ReturnPoint, PCs, WorkLegs, Leg, Recovery, RecoveryMoves
<1>8. CASE Regrip
  BY <1>8 DEF Regrip, Opened, OpenFailed, PCs, WorkLegs, Leg, Recovery, RecoveryMoves
<1>9. CASE Refresh
  <2>1. unseen' \in BOOLEAN
    BY <1>9, Zenon DEF Refresh, BeginAttempt
  <2> QED
    BY <1>9, <2>1 DEF Refresh, BeginAttempt, PCs, WorkLegs, Leg, Recovery, RecoveryMoves
<1> QED
  BY <1>1, <1>2, <1>3, <1>4, <1>5, <1>6, <1>7, <1>8, <1>9 DEF Pick

\* Placing.
LEMMA PlaceWellFormed ==
    ASSUME WellFormed, PlaceApple
    PROVE  WellFormed'
<1> USE CellAssumption DEF WellFormed, TypeOK, ItemAtWork, OriginKnown, AttemptsLeft,
        PlanHolds, controlVars, trackerVars, eventVars, queueVars, toldVars, gripVars, hwVars,
        AtWork, Goto, MaybeApple
<1>1. CASE BoxContact
  <2>1. unseen' \in BOOLEAN
    BY <1>1, Zenon DEF BoxContact, Unstopped, HwQuery
  <2> QED
    BY <1>1, <2>1 DEF BoxContact, Unstopped, HwQuery, PCs, WorkLegs, Leg, Recovery, RecoveryMoves
<1>2. CASE BoxMissed
  <2>1. unseen' \in BOOLEAN
    BY <1>2, Zenon DEF BoxMissed, Unstopped, HwQuery
  <2> QED
    BY <1>2, <2>1 DEF BoxMissed, Unstopped, HwQuery, PCs, WorkLegs, Leg, Recovery, RecoveryMoves
<1>3. CASE TrayForce
  <2>1. unseen' \in BOOLEAN
    BY <1>3, Zenon DEF TrayForce, Unstopped, HwQuery
  <2> QED
    BY <1>3, <2>1 DEF TrayForce, Unstopped, HwQuery, PCs, WorkLegs, Leg, Recovery, RecoveryMoves
<1>4. CASE ForceStopped
  BY <1>4 DEF ForceStopped, Raise, ReturnPoint, PCs, WorkLegs, Leg, Recovery, RecoveryMoves
<1>5. CASE Release
  <2>1. grasped' \in BOOLEAN /\ holding' \in BOOLEAN
    BY <1>5, Zenon DEF Release, NothingHeld, trackerVars
  <2> QED
    BY <1>5, <2>1 DEF Release, Opened, OpenFailed, NothingHeld, PCs, WorkLegs, Leg,
       Recovery, RecoveryMoves
<1>6. CASE CycleDone
  BY <1>6 DEF CycleDone, PCs, WorkLegs, Leg, Recovery, RecoveryMoves
<1> QED
  BY <1>1, <1>2, <1>3, <1>4, <1>5, <1>6 DEF PlaceApple

\* Recovering from a stop.
LEMMA RecoverWellFormed ==
    ASSUME WellFormed, Recover
    PROVE  WellFormed'
<1> USE CellAssumption DEF WellFormed, TypeOK, ItemAtWork, OriginKnown, AttemptsLeft,
        PlanHolds, controlVars, trackerVars, eventVars, queueVars, toldVars, gripVars, hwVars,
        AtWork, Goto, MaybeApple
<1>1. CASE RecoveryCheck
  <2>1. confirmed' \in BOOLEAN /\ unseen' \in BOOLEAN
    BY <1>1, Zenon DEF RecoveryCheck, HwQuery, BeginRecovery, Goto
  <2> QED
    BY <1>1, <2>1 DEF RecoveryCheck, HwQuery, BeginRecovery, Plan, PCs, WorkLegs, Leg, Recovery,
       RecoveryMoves
<1>2. CASE ForgetResume
  <2>1. resume' \in BOOLEAN
    BY <1>2, Zenon DEF ForgetResume
  <2> QED
    BY <1>2, <2>1 DEF ForgetResume, PCs, WorkLegs, Leg, Recovery, RecoveryMoves
<1>3. CASE HwResumed
  <2>1. resume' \in BOOLEAN
    BY <1>3, Zenon DEF HwResumed
  <2> QED
    BY <1>3, <2>1 DEF HwResumed, PCs, WorkLegs, Leg, Recovery, RecoveryMoves
<1>4. CASE HwReset
  BY <1>4 DEF HwReset, BeginRecovery, Plan, PCs, WorkLegs, Leg, Recovery, RecoveryMoves
<1>5. CASE HwResetFails
  BY <1>5 DEF HwResetFails, PCs, WorkLegs, Leg, Recovery, RecoveryMoves
<1>6. CASE Lift
  BY <1>6 DEF Lift, Place, Stations, PCs, WorkLegs, Leg, Recovery, RecoveryMoves
<1>7. CASE LiftFails
  BY <1>7 DEF LiftFails, PCs, WorkLegs, Leg, Recovery, RecoveryMoves
<1>8. CASE RecoveryMove
  BY <1>8 DEF RecoveryMove, Place, Stations, PCs, WorkLegs, Leg, Recovery, RecoveryMoves
<1>9. CASE RecoveryOpen
  BY <1>9 DEF RecoveryOpen, Opened, OpenFailed, PCs, WorkLegs, Leg, Recovery, RecoveryMoves
<1>10. CASE Recovered
  <2>1. grasped' \in BOOLEAN /\ estop' \in BOOLEAN /\ holding' \in BOOLEAN
    BY <1>10, Zenon DEF Recovered, NothingHeld, trackerVars
  <2> QED
    BY <1>10, <2>1 DEF Recovered, NothingHeld, PCs, WorkLegs, Leg, Recovery, RecoveryMoves
<1>11. CASE Resumed
  <2>1. resume' \in BOOLEAN
    BY <1>11, Zenon DEF Resumed
  <2> QED
    BY <1>11, <2>1 DEF Resumed, PCs, WorkLegs, Leg, Recovery, RecoveryMoves
<1> QED
  BY <1>1, <1>2, <1>3, <1>4, <1>5, <1>6, <1>7, <1>8, <1>9, <1>10, <1>11 DEF Recover

\* Every step keeps the variables well-formed.
LEMMA NextWellFormed == WellFormed /\ [Next]_vars => WellFormed'
<1> SUFFICES ASSUME WellFormed, [Next]_vars
             PROVE  WellFormed'
  OBVIOUS
<1>1. CASE UNCHANGED vars
  BY <1>1 DEF vars, WellFormed, TypeOK, ItemAtWork, OriginKnown, AttemptsLeft, PlanHolds,
     controlVars, trackerVars, eventVars, queueVars, toldVars, gripVars, hwVars
<1>2. CASE Next
  BY <1>2, OutsideWellFormed, LegWellFormed, BetweenWellFormed, PickWellFormed,
     PlaceWellFormed, RecoverWellFormed DEF Next, MainThread
<1> QED
  BY <1>1, <1>2

\* TypeOK holds of the program with all its stops and faults: among the rest,
\* no attempt beyond MAX_PICK_ATTEMPTS, and a place to go for every recovery.
THEOREM TypeCorrect == Spec => []TypeOK
<1>1. WellFormed => TypeOK
  BY DEF WellFormed
<1> QED
  BY <1>1, InitWellFormed, NextWellFormed, PTL DEF Spec
---------------------------------------------------------------------------
(* Where the apple is *)

\* The gripper opens when told, and the force tells an apple from none.
Reliable == "gripper" \notin Faults /\ "sensor" \notin Faults

\* At the start the gripper is empty.
LEMMA InitTracking == Init => Tracking
BY DEF Init, Tracking, HeldIsTracked, NothingIn, AtTop, Outside, Begun, PlanSays, StopSet,
   Empty, Recovery, RecoveryMoves

\* What the callbacks set does not touch the apple.
LEMMA OutsideTracking ==
    ASSUME Reliable, WellFormed, Tracking, Callback \/ HwStop \/ HwRelease
    PROVE  Tracking'
<1> USE DEF Tracking, HeldIsTracked, NothingIn, AtTop, Outside, Begun, PlanSays, StopSet,
        Reliable, controlVars, trackerVars, eventVars, queueVars, toldVars, gripVars,
        hwVars, Goto,
        Empty, Recovery, RecoveryMoves
<1>1. CASE StartCommand
  BY <1>1 DEF StartCommand
<1>2. CASE EmergencyStop
  BY <1>2 DEF EmergencyStop
<1>3. CASE Resume
  BY <1>3 DEF Resume
<1>4. CASE ManualPause
  BY <1>4 DEF ManualPause
<1>5. CASE HwStop
  BY <1>5 DEF HwStop
<1>6. CASE HwRelease
  BY <1>6 DEF HwRelease
<1>7. ASSUME NEW command \in {"OPEN", "CLOSE", "MOVE_JOINT"}, ManualCommand(command)
      PROVE  Tracking'
  BY <1>7 DEF ManualCommand
<1>8. ASSUME NEW d \in MaybeApple, Decision(d)
      PROVE  Tracking'
  BY <1>8 DEF Decision
<1> QED
  BY <1>1, <1>2, <1>3, <1>4, <1>5, <1>6, <1>7, <1>8 DEF Callback

\* A watched move carries the apple, if there is one, as it is.
LEMMA LegTracking ==
    ASSUME Reliable, WellFormed, Tracking, NEW l \in WorkLegs, LegDone(l) \/ LegStopped(l)
    PROVE  Tracking'
<1> USE DEF Tracking, HeldIsTracked, NothingIn, AtTop, Outside, Begun, PlanSays, StopSet,
        Reliable, controlVars, trackerVars, eventVars, queueVars, toldVars, gripVars,
        hwVars, Goto,
        Empty, Recovery, RecoveryMoves
<1>1. CASE LegDone(l)
  BY <1>1, Legs DEF LegDone
<1>2. CASE LegStopped(l)
  BY <1>2, Legs DEF LegStopped, Raise, ReturnPoint
<1> QED
  BY <1>1, <1>2

\* Between two apples the gripper is empty, unless a stop is still set.
LEMMA BetweenTracking ==
    ASSUME Reliable, WellFormed, Tracking, Boot \/ AwaitStart \/ Ready0 \/ Between
    PROVE  Tracking'
<1> USE DEF Tracking, HeldIsTracked, NothingIn, AtTop, Outside, Begun, PlanSays, StopSet,
        Reliable, controlVars, trackerVars, eventVars, queueVars, toldVars, gripVars,
        hwVars, Goto,
        Empty, Recovery, RecoveryMoves
<1>1. CASE Boot
  BY <1>1 DEF Boot, Opened, OpenFailed
<1>2. CASE AwaitStart
  BY <1>2 DEF AwaitStart
<1>3. CASE Ready0
  BY <1>3 DEF Ready0
<1>4. CASE LoopTop
  BY <1>4 DEF LoopTop, HwQuery
<1>5. CASE BeforeDrain
  BY <1>5 DEF BeforeDrain
<1>6. CASE ManualGripper
  BY <1>6 DEF ManualGripper, Opened, OpenFailed
<1>7. CASE ManualMove
  BY <1>7 DEF ManualMove
<1>8. CASE DrainEnds
  BY <1>8 DEF DrainEnds, WellFormed, TypeOK
<1>9. CASE PauseCheck
  BY <1>9 DEF PauseCheck
<1>10. CASE GetDecision
  BY <1>10 DEF GetDecision
<1>11. CASE GetTimesOut
  BY <1>11 DEF GetTimesOut
<1> QED
  BY <1>1, <1>2, <1>3, <1>4, <1>5, <1>6, <1>7, <1>8, <1>9, <1>10, <1>11 DEF Between

\* The tracker knows of the apple before the gripper closes.
LEMMA PickTracking ==
    ASSUME Reliable, WellFormed, Tracking, Pick
    PROVE  Tracking'
<1> USE DEF Tracking, HeldIsTracked, NothingIn, AtTop, Outside, Begun, PlanSays, StopSet,
        Reliable, controlVars, trackerVars, eventVars, queueVars, toldVars, gripVars,
        hwVars, Goto,
        Empty, Recovery, RecoveryMoves
<1>1. CASE Confirmed
  BY <1>1 DEF Confirmed, BeginAttempt
<1>2. CASE Unconfirmed
  BY <1>2 DEF Unconfirmed
<1>3. CASE DescentRefused
  BY <1>3 DEF DescentRefused, Unstopped, HwQuery, PickFailed, NothingHeld
<1>4. CASE Close
  BY <1>4 DEF Close
<1>5. CASE Grasped
  BY <1>5 DEF Grasped, Unstopped, HwQuery
<1>6. CASE NotGrasped
  BY <1>6 DEF NotGrasped, Unstopped, HwQuery, Verdicts, PickFailed, NothingHeld
<1>7. CASE GraspStopped
  BY <1>7 DEF GraspStopped, Raise, ReturnPoint
<1>8. CASE Regrip
  BY <1>8 DEF Regrip, Opened, OpenFailed
<1>9. CASE Refresh
  BY <1>9 DEF Refresh, BeginAttempt
<1> QED
  BY <1>1, <1>2, <1>3, <1>4, <1>5, <1>6, <1>7, <1>8, <1>9 DEF Pick

\* It forgets the apple only when the gripper has opened.
LEMMA PlaceTracking ==
    ASSUME Reliable, WellFormed, Tracking, PlaceApple
    PROVE  Tracking'
<1> USE DEF Tracking, HeldIsTracked, NothingIn, AtTop, Outside, Begun, PlanSays, StopSet,
        Reliable, controlVars, trackerVars, eventVars, queueVars, toldVars, gripVars,
        hwVars, Goto,
        Empty, Recovery, RecoveryMoves
<1>1. CASE BoxContact
  BY <1>1 DEF BoxContact, Unstopped, HwQuery
<1>2. CASE BoxMissed
  BY <1>2 DEF BoxMissed, Unstopped, HwQuery
<1>3. CASE TrayForce
  BY <1>3 DEF TrayForce, Unstopped, HwQuery
<1>4. CASE ForceStopped
  BY <1>4 DEF ForceStopped, Raise, ReturnPoint
<1>5. CASE Release
  BY <1>5 DEF Release, Opened, OpenFailed, NothingHeld
<1>6. CASE CycleDone
  BY <1>6 DEF CycleDone
<1> QED
  BY <1>1, <1>2, <1>3, <1>4, <1>5, <1>6 DEF PlaceApple

\* A recovery takes back whatever is held.
LEMMA RecoverTracking ==
    ASSUME Reliable, WellFormed, Tracking, Recover
    PROVE  Tracking'
<1> USE DEF Tracking, HeldIsTracked, NothingIn, AtTop, Outside, Begun, PlanSays, StopSet,
        Reliable, controlVars, trackerVars, eventVars, queueVars, toldVars, gripVars,
        hwVars, Goto,
        Empty, Recovery, RecoveryMoves
<1>1. CASE RecoveryCheck
  BY <1>1 DEF RecoveryCheck, HwQuery, BeginRecovery, Plan
<1>2. CASE ForgetResume
  BY <1>2 DEF ForgetResume
<1>3. CASE HwResumed
  BY <1>3 DEF HwResumed
<1>4. CASE HwReset
  BY <1>4 DEF HwReset, BeginRecovery, Plan
<1>5. CASE HwResetFails
  BY <1>5 DEF HwResetFails, WellFormed, TypeOK
<1>6. CASE Lift
  BY <1>6 DEF Lift
<1>7. CASE LiftFails
  BY <1>7 DEF LiftFails
<1>8. CASE RecoveryMove
  BY <1>8 DEF RecoveryMove, WellFormed, PlanHolds
<1>9. CASE RecoveryOpen
  BY <1>9 DEF RecoveryOpen, Opened, OpenFailed
<1>10. CASE Recovered
  BY <1>10 DEF Recovered, NothingHeld, WellFormed, TypeOK
<1>11. CASE Resumed
  BY <1>11 DEF Resumed, WellFormed, TypeOK
<1> QED
  BY <1>1, <1>2, <1>3, <1>4, <1>5, <1>6, <1>7, <1>8, <1>9, <1>10, <1>11 DEF Recover

\* Every step keeps track of the apple.
LEMMA NextTracking ==
    ASSUME Reliable, WellFormed, Tracking, [Next]_vars
    PROVE  Tracking'
<1>1. CASE UNCHANGED vars
  BY <1>1 DEF vars, Tracking, HeldIsTracked, NothingIn, AtTop, Outside, Begun, PlanSays,
     StopSet, controlVars, trackerVars, eventVars, queueVars, toldVars, gripVars, hwVars
<1>2. CASE Next
  BY <1>2, OutsideTracking, LegTracking, BetweenTracking, PickTracking, PlaceTracking,
     RecoverTracking DEF Next, MainThread
<1> QED
  BY <1>1, <1>2

\* An apple in the gripper is known to the tracker, with the place it came
\* from, at every moment of every cycle and recovery: as long as the gripper
\* opens when told and the force tells an apple from none.
THEOREM AlwaysTracked ==
    ASSUME Reliable
    PROVE  Spec => []HeldIsTracked
<1>1. Init => WellFormed /\ Tracking
  BY InitWellFormed, InitTracking
<1>2. WellFormed /\ Tracking /\ [Next]_vars => (WellFormed /\ Tracking)'
  BY Reliable, NextWellFormed, NextTracking
<1>3. Tracking => HeldIsTracked
  BY DEF Tracking
<1> QED
  BY <1>1, <1>2, <1>3, PTL DEF Spec
---------------------------------------------------------------------------
(* What the backend is told of the gripper *)

\* No manual commands are given.
NoManual == MaxManual = 0

\* At the start it is told nothing is grasped.
LEMMA InitTelling == Init => Telling
BY DEF Init, Telling, TellsEmpty, TellsTop, TellsOutside, Told, Empty, Recovery,
   RecoveryMoves

\* No callback tells the backend anything, and no manual command waits.
LEMMA OutsideTelling ==
    ASSUME NoManual, WellFormed, Tracking, Telling, Callback \/ HwStop \/ HwRelease
    PROVE  Telling'
<1> USE DEF NoManual, Telling, TellsEmpty, TellsTop, TellsOutside, WellFormed, TypeOK,
        controlVars, trackerVars, eventVars, queueVars, toldVars, gripVars, hwVars, Goto, Told,
        Empty, Recovery, RecoveryMoves
<1>1. CASE StartCommand
  BY <1>1 DEF StartCommand
<1>2. CASE EmergencyStop
  BY <1>2 DEF EmergencyStop
<1>3. CASE Resume
  BY <1>3 DEF Resume
<1>4. CASE ManualPause
  BY <1>4 DEF ManualPause
<1>5. CASE HwStop
  BY <1>5 DEF HwStop
<1>6. CASE HwRelease
  BY <1>6 DEF HwRelease
<1>7. ASSUME NEW command \in {"OPEN", "CLOSE", "MOVE_JOINT"}, ManualCommand(command)
      PROVE  Telling'
  BY <1>7 DEF ManualCommand
<1>8. ASSUME NEW d \in MaybeApple, Decision(d)
      PROVE  Telling'
  BY <1>8 DEF Decision
<1> QED
  BY <1>1, <1>2, <1>3, <1>4, <1>5, <1>6, <1>7, <1>8 DEF Callback

\* Nor does a move.
LEMMA LegTelling ==
    ASSUME NoManual, WellFormed, Tracking, Telling,
           NEW l \in WorkLegs, LegDone(l) \/ LegStopped(l)
    PROVE  Telling'
<1> USE DEF NoManual, Telling, TellsEmpty, TellsTop, TellsOutside, WellFormed, TypeOK,
        controlVars, trackerVars, eventVars, queueVars, toldVars, gripVars, hwVars, Goto, Told,
        Empty, Recovery, RecoveryMoves
<1>1. CASE LegDone(l)
  BY <1>1, Legs DEF LegDone
<1>2. CASE LegStopped(l)
  BY <1>2, Legs DEF LegStopped, Raise, ReturnPoint
<1> QED
  BY <1>1, <1>2

\* The loop tells it only its state.
LEMMA BetweenTelling ==
    ASSUME NoManual, WellFormed, Tracking, Telling, Boot \/ AwaitStart \/ Ready0 \/ Between
    PROVE  Telling'
<1> USE DEF NoManual, Telling, TellsEmpty, TellsTop, TellsOutside, WellFormed, TypeOK,
        controlVars, trackerVars, eventVars, queueVars, toldVars, gripVars, hwVars, Goto, Told,
        Empty, Recovery, RecoveryMoves
<1>1. CASE Boot
  BY <1>1 DEF Boot
<1>2. CASE AwaitStart
  BY <1>2 DEF AwaitStart
<1>3. CASE Ready0
  BY <1>3 DEF Ready0
<1>4. CASE LoopTop
  BY <1>4 DEF LoopTop, HwQuery
<1>5. CASE BeforeDrain
  BY <1>5 DEF BeforeDrain
<1>6. CASE ManualGripper
  BY <1>6 DEF ManualGripper
<1>7. CASE ManualMove
  BY <1>7 DEF ManualMove
<1>8. CASE DrainEnds
  BY <1>8 DEF DrainEnds
<1>9. CASE PauseCheck
  BY <1>9 DEF PauseCheck
<1>10. CASE GetDecision
  BY <1>10 DEF GetDecision
<1>11. CASE GetTimesOut
  BY <1>11 DEF GetTimesOut
<1> QED
  BY <1>1, <1>2, <1>3, <1>4, <1>5, <1>6, <1>7, <1>8, <1>9, <1>10, <1>11 DEF Between

\* A verdict is told as it is, and a failed attempt as nothing grasped.
LEMMA PickTelling ==
    ASSUME NoManual, WellFormed, Tracking, Telling, Pick
    PROVE  Telling'
<1> USE DEF NoManual, Telling, TellsEmpty, TellsTop, TellsOutside, WellFormed, TypeOK,
        controlVars, trackerVars, eventVars, queueVars, toldVars, gripVars, hwVars, Goto, Told,
        Empty, Recovery, RecoveryMoves
<1>1. CASE Confirmed
  BY <1>1 DEF Confirmed, BeginAttempt
<1>2. CASE Unconfirmed
  BY <1>2 DEF Unconfirmed
<1>3. CASE DescentRefused
  BY <1>3 DEF DescentRefused, Unstopped, HwQuery, PickFailed
<1>4. CASE Close
  BY <1>4 DEF Close
<1>5. CASE Grasped
  BY <1>5 DEF Grasped, Unstopped, HwQuery
<1>6. CASE NotGrasped
  BY <1>6 DEF NotGrasped, Unstopped, HwQuery, PickFailed
<1>7. CASE GraspStopped
  BY <1>7 DEF GraspStopped, Raise, ReturnPoint
<1>8. CASE Regrip
  BY <1>8 DEF Regrip
<1>9. CASE Refresh
  BY <1>9 DEF Refresh, BeginAttempt
<1> QED
  BY <1>1, <1>2, <1>3, <1>4, <1>5, <1>6, <1>7, <1>8, <1>9 DEF Pick

\* So is a release that worked.
LEMMA PlaceTelling ==
    ASSUME Reliable, NoManual, WellFormed, Tracking, Telling, PlaceApple
    PROVE  Telling'
<1> USE DEF NoManual, Telling, TellsEmpty, TellsTop, TellsOutside, WellFormed, TypeOK,
        controlVars, trackerVars, eventVars, queueVars, toldVars, gripVars, hwVars, Goto, Told,
        Empty, Recovery, RecoveryMoves
<1>1. CASE BoxContact
  BY <1>1 DEF BoxContact, Unstopped, HwQuery
<1>2. CASE BoxMissed
  BY <1>2 DEF BoxMissed, Unstopped, HwQuery
<1>3. CASE TrayForce
  BY <1>3 DEF TrayForce, Unstopped, HwQuery
<1>4. CASE ForceStopped
  BY <1>4 DEF ForceStopped, Raise, ReturnPoint
<1>5. CASE Release
  BY <1>5 DEF Release, OpenFailed, Reliable
<1>6. CASE CycleDone
  BY <1>6 DEF CycleDone
<1> QED
  BY <1>1, <1>2, <1>3, <1>4, <1>5, <1>6 DEF PlaceApple

\* A recovery ends with nothing grasped.
LEMMA RecoverTelling ==
    ASSUME NoManual, WellFormed, Tracking, Telling, Recover
    PROVE  Telling'
<1> USE DEF NoManual, Telling, TellsEmpty, TellsTop, TellsOutside, WellFormed, TypeOK,
        controlVars, trackerVars, eventVars, queueVars, toldVars, gripVars, hwVars, Goto, Told,
        Empty, Recovery, RecoveryMoves
<1>1. CASE RecoveryCheck
  BY <1>1 DEF RecoveryCheck, HwQuery, BeginRecovery
<1>2. CASE ForgetResume
  BY <1>2 DEF ForgetResume
<1>3. CASE HwResumed
  BY <1>3 DEF HwResumed
<1>4. CASE HwReset
  BY <1>4 DEF HwReset, BeginRecovery
<1>5. CASE HwResetFails
  BY <1>5 DEF HwResetFails, Tracking, StopSet
<1>6. CASE Lift
  BY <1>6 DEF Lift
<1>7. CASE LiftFails
  BY <1>7 DEF LiftFails
<1>8. CASE RecoveryMove
  BY <1>8 DEF RecoveryMove
<1>9. CASE RecoveryOpen
  BY <1>9 DEF RecoveryOpen
<1>10. CASE Recovered
  BY <1>10 DEF Recovered
<1>11. CASE Resumed
  BY <1>11 DEF Resumed
<1> QED
  BY <1>1, <1>2, <1>3, <1>4, <1>5, <1>6, <1>7, <1>8, <1>9, <1>10, <1>11 DEF Recover

\* Every step leaves the backend with what is so.
LEMMA NextTelling ==
    ASSUME Reliable, NoManual, WellFormed, Tracking, Telling, [Next]_vars
    PROVE  Telling'
<1>1. CASE UNCHANGED vars
  BY <1>1 DEF vars, Telling, TellsEmpty, TellsTop, TellsOutside, controlVars, trackerVars,
     eventVars, queueVars, toldVars, gripVars, hwVars
<1>2. CASE Next
  BY <1>2, OutsideTelling, LegTelling, BetweenTelling, PickTelling, PlaceTelling,
     RecoverTelling DEF Next, MainThread
<1> QED
  BY <1>1, <1>2

\* Between two apples the gripper is empty and the backend was told so,
\* whatever stops and recoveries there were: as long as the gripper opens, the
\* force does not err, and nobody moves the gripper by hand.
THEOREM HandsAlwaysEmpty ==
    ASSUME Reliable, NoManual
    PROVE  Spec => []HandsEmpty
<1>1. Init => WellFormed /\ Tracking /\ Telling
  BY InitWellFormed, InitTracking, InitTelling
<1>2. WellFormed /\ Tracking /\ Telling /\ [Next]_vars => (WellFormed /\ Tracking /\ Telling)'
  BY Reliable, NoManual, NextWellFormed, NextTracking, NextTelling
<1>3. Tracking /\ Telling => HandsEmpty
  BY DEF Tracking, NothingIn, Telling, TellsEmpty, Told, Empty, HandsEmpty
<1> QED
  BY <1>1, <1>2, <1>3, PTL DEF Spec

---------------------------------------------------------------------------
(* Work waits for the operator *)

\* The controller does not stop the arm on its own.
HwNever == HwStops = "never"

\* At the start no stop is unanswered.
LEMMA InitAsking == Init => Asking
BY DEF Init, Asking, NeverHw, AsksFor

\* EMERGENCY_STOP sets the event, and RESUME answers it.
LEMMA OutsideAsking ==
    ASSUME HwNever, WellFormed, Asking, Callback \/ HwStop \/ HwRelease
    PROVE  Asking'
<1> USE DEF HwNever, Asking, NeverHw, AsksFor, WellFormed, TypeOK, controlVars,
        trackerVars, eventVars, queueVars, toldVars, gripVars, hwVars, Goto, Recovery,
        RecoveryMoves
<1>1. CASE StartCommand
  BY <1>1 DEF StartCommand
<1>2. CASE EmergencyStop
  BY <1>2 DEF EmergencyStop
<1>3. CASE Resume
  BY <1>3 DEF Resume
<1>4. CASE ManualPause
  BY <1>4 DEF ManualPause
<1>5. CASE HwStop
  BY <1>5 DEF HwStop
<1>6. CASE HwRelease
  BY <1>6 DEF HwRelease
<1>7. ASSUME NEW command \in {"OPEN", "CLOSE", "MOVE_JOINT"}, ManualCommand(command)
      PROVE  Asking'
  BY <1>7 DEF ManualCommand
<1>8. ASSUME NEW d \in MaybeApple, Decision(d)
      PROVE  Asking'
  BY <1>8 DEF Decision
<1> QED
  BY <1>1, <1>2, <1>3, <1>4, <1>5, <1>6, <1>7, <1>8 DEF Callback

\* A move leaves the event as it is, or sets it.
LEMMA LegAsking ==
    ASSUME HwNever, WellFormed, Asking, NEW l \in WorkLegs, LegDone(l) \/ LegStopped(l)
    PROVE  Asking'
<1> USE DEF HwNever, Asking, NeverHw, AsksFor, WellFormed, TypeOK, controlVars,
        trackerVars, eventVars, queueVars, toldVars, gripVars, hwVars, Goto, Recovery,
        RecoveryMoves
<1>1. CASE LegDone(l)
  BY <1>1, Legs DEF LegDone
<1>2. CASE LegStopped(l)
  BY <1>2, Legs DEF LegStopped, Raise, ReturnPoint
<1> QED
  BY <1>1, <1>2

\* So does the loop.
LEMMA BetweenAsking ==
    ASSUME HwNever, WellFormed, Asking, Boot \/ AwaitStart \/ Ready0 \/ Between
    PROVE  Asking'
<1> USE DEF HwNever, Asking, NeverHw, AsksFor, WellFormed, TypeOK, controlVars,
        trackerVars, eventVars, queueVars, toldVars, gripVars, hwVars, Goto, Recovery,
        RecoveryMoves
<1>1. CASE Boot
  BY <1>1 DEF Boot, Opened, OpenFailed
<1>2. CASE AwaitStart
  BY <1>2 DEF AwaitStart
<1>3. CASE Ready0
  BY <1>3 DEF Ready0
<1>4. CASE LoopTop
  BY <1>4 DEF LoopTop, HwQuery
<1>5. CASE BeforeDrain
  BY <1>5 DEF BeforeDrain
<1>6. CASE ManualGripper
  BY <1>6 DEF ManualGripper
<1>7. CASE ManualMove
  BY <1>7 DEF ManualMove
<1>8. CASE DrainEnds
  BY <1>8 DEF DrainEnds
<1>9. CASE PauseCheck
  BY <1>9 DEF PauseCheck
<1>10. CASE GetDecision
  BY <1>10 DEF GetDecision
<1>11. CASE GetTimesOut
  BY <1>11 DEF GetTimesOut
<1> QED
  BY <1>1, <1>2, <1>3, <1>4, <1>5, <1>6, <1>7, <1>8, <1>9, <1>10, <1>11 DEF Between

\* So does picking.
LEMMA PickAsking ==
    ASSUME HwNever, WellFormed, Asking, Pick
    PROVE  Asking'
<1> USE DEF HwNever, Asking, NeverHw, AsksFor, WellFormed, TypeOK, controlVars,
        trackerVars, eventVars, queueVars, toldVars, gripVars, hwVars, Goto, Recovery,
        RecoveryMoves
<1>1. CASE Confirmed
  BY <1>1 DEF Confirmed, BeginAttempt
<1>2. CASE Unconfirmed
  BY <1>2 DEF Unconfirmed
<1>3. CASE DescentRefused
  BY <1>3 DEF DescentRefused, Unstopped, HwQuery, PickFailed
<1>4. CASE Close
  BY <1>4 DEF Close
<1>5. CASE Grasped
  BY <1>5 DEF Grasped, Unstopped, HwQuery
<1>6. CASE NotGrasped
  BY <1>6 DEF NotGrasped, Unstopped, HwQuery, PickFailed
<1>7. CASE GraspStopped
  BY <1>7 DEF GraspStopped, Raise
<1>8. CASE Regrip
  BY <1>8 DEF Regrip
<1>9. CASE Refresh
  BY <1>9 DEF Refresh, BeginAttempt
<1> QED
  BY <1>1, <1>2, <1>3, <1>4, <1>5, <1>6, <1>7, <1>8, <1>9 DEF Pick

\* So does placing.
LEMMA PlaceAsking ==
    ASSUME HwNever, WellFormed, Asking, PlaceApple
    PROVE  Asking'
<1> USE DEF HwNever, Asking, NeverHw, AsksFor, WellFormed, TypeOK, controlVars,
        trackerVars, eventVars, queueVars, toldVars, gripVars, hwVars, Goto, Recovery,
        RecoveryMoves
<1>1. CASE BoxContact
  BY <1>1 DEF BoxContact, Unstopped, HwQuery
<1>2. CASE BoxMissed
  BY <1>2 DEF BoxMissed, Unstopped, HwQuery
<1>3. CASE TrayForce
  BY <1>3 DEF TrayForce, Unstopped, HwQuery
<1>4. CASE ForceStopped
  BY <1>4 DEF ForceStopped, Raise
<1>5. CASE Release
  BY <1>5 DEF Release
<1>6. CASE CycleDone
  BY <1>6 DEF CycleDone
<1> QED
  BY <1>1, <1>2, <1>3, <1>4, <1>5, <1>6 DEF PlaceApple

\* A recovery clears the event only to ask for RESUME, and forgets those given before.
LEMMA RecoverAsking ==
    ASSUME HwNever, WellFormed, Asking, Recover
    PROVE  Asking'
<1> USE DEF HwNever, Asking, NeverHw, AsksFor, WellFormed, TypeOK, controlVars,
        trackerVars, eventVars, queueVars, toldVars, gripVars, hwVars, Goto, Recovery,
        RecoveryMoves
<1>1. CASE RecoveryCheck
  BY <1>1 DEF RecoveryCheck, HwQuery, BeginRecovery
<1>2. CASE ForgetResume
  BY <1>2 DEF ForgetResume
<1>3. CASE HwResumed
  BY <1>3 DEF HwResumed
<1>4. CASE HwReset
  BY <1>4 DEF HwReset, BeginRecovery
<1>5. CASE HwResetFails
  BY <1>5 DEF HwResetFails
<1>6. CASE Lift
  BY <1>6 DEF Lift
<1>7. CASE LiftFails
  BY <1>7 DEF LiftFails
<1>8. CASE RecoveryMove
  BY <1>8 DEF RecoveryMove
<1>9. CASE RecoveryOpen
  BY <1>9 DEF RecoveryOpen
<1>10. CASE Recovered
  BY <1>10 DEF Recovered
<1>11. CASE Resumed
  BY <1>11 DEF Resumed
<1> QED
  BY <1>1, <1>2, <1>3, <1>4, <1>5, <1>6, <1>7, <1>8, <1>9, <1>10, <1>11 DEF Recover

\* Every step keeps an unanswered stop on its way to the operator.
LEMMA NextAsking ==
    ASSUME HwNever, WellFormed, Asking, [Next]_vars
    PROVE  Asking'
<1>1. CASE UNCHANGED vars
  BY <1>1 DEF vars, Asking, NeverHw, AsksFor, controlVars, trackerVars, eventVars,
     queueVars, toldVars, gripVars, hwVars
<1>2. CASE Next
  BY <1>2, OutsideAsking, LegAsking, BetweenAsking, PickAsking, PlaceAsking, RecoverAsking
     DEF Next, MainThread
<1> QED
  BY <1>1, <1>2

\* A step that takes the arm to a place of its work is not made while a stop
\* is unanswered: the event is set then, and a move ends by it unless the arm
\* is where it should go already.
LEMMA WorkAsks ==
    ASSUME HwNever, WellFormed, Asking, [Next]_vars,
           pc \in WorkLegs, at' # at, at' # "astray"
    PROVE  unanswered = FALSE
<1>1. pc \notin Recovery /\ hw = "ok"
  BY Legs DEF Recovery, RecoveryMoves, Asking, NeverHw
<1>2. unanswered => estop
  BY <1>1 DEF Asking, AsksFor, Recovery
<1>3. ASSUME NEW l \in WorkLegs, LegDone(l)
      PROVE  ~estop
  BY <1>1, <1>3 DEF LegDone
<1>4. ASSUME NEW l \in WorkLegs, LegStopped(l)
      PROVE  FALSE
  BY <1>4 DEF LegStopped
<1>5. ~(Callback \/ HwStop \/ HwRelease) /\ vars' # vars
  BY DEF Callback, StartCommand, EmergencyStop, Resume, ManualPause, ManualCommand, Decision,
     HwStop, HwRelease, vars
<1>6. ~(Boot \/ AwaitStart \/ Ready0 \/ Between)
  BY Legs DEF Boot, AwaitStart, Ready0, Between, LoopTop, BeforeDrain, ManualGripper,
     ManualMove, DrainEnds, PauseCheck, GetDecision, GetTimesOut
<1>7. ~(Pick \/ PlaceApple)
  BY Legs DEF Pick, Confirmed, Unconfirmed, DescentRefused, Close, Grasped, NotGrasped,
     GraspStopped, Regrip, Refresh, PlaceApple, BoxContact, BoxMissed, TrayForce,
     ForceStopped, Release, CycleDone
<1>8. ~Recover
  BY <1>1 DEF Recover, Recovery, RecoveryMoves, RecoveryCheck, ForgetResume, HwResumed,
     HwReset, HwResetFails, Lift, LiftFails, RecoveryMove, RecoveryOpen, Recovered, Resumed
<1>9. \E l \in WorkLegs : LegDone(l)
  BY <1>4, <1>5, <1>6, <1>7, <1>8 DEF Next, MainThread
<1> QED
  BY <1>2, <1>3, <1>9 DEF WellFormed, TypeOK

\* After an EMERGENCY_STOP the arm goes on with its work only when RESUME was
\* pressed since, with manual commands and whatever else fails: as long as
\* the controller does not stop the arm on its own.
THEOREM WorksOnlyWhenResumed ==
    ASSUME HwNever
    PROVE  Spec => NoWorkBeforeResume
<1>1. Init => WellFormed /\ Asking
  BY InitWellFormed, InitAsking
<1>2. WellFormed /\ Asking /\ [Next]_vars => (WellFormed /\ Asking)'
  BY HwNever, NextWellFormed, NextAsking
<1>3. WellFormed /\ Asking /\ [Next]_vars =>
        [(pc \in WorkLegs /\ at' # at /\ at' # "astray") => (unanswered = FALSE)]_vars
  BY HwNever, WorkAsks
<1> QED
  BY <1>1, <1>2, <1>3, PTL DEF Spec, NoWorkBeforeResume
---------------------------------------------------------------------------
(* Where the gripper opens *)

\* The controller does not stop the arm while it recovers.
NoHwInRecovery == HwStops # "any"

\* What these proofs need of the table of watched moves.
LEMMA PlacingLegs ==
    \A l \in WorkLegs :
        /\ Leg[l].next \in Carrying => l \in Carrying
        /\ Leg[l].next \notin {"release", "tray_release", "rec_open"}
        /\ Leg[l].next = "box_force" => Leg[l].to = "box"
        /\ Leg[l].next = "tray_force" => Leg[l].to = "spot"
BY Legs DEF Leg, Carrying

\* At the start nothing is carried.
LEMMA InitPlacing == Init => Placing
BY DEF Init, Placing, SamePlace, OverBox, OverSpot, OverOrigin, Freed, Carrying, Recovery,
   RecoveryMoves

\* The callbacks do not move the arm, and the controller does not stop a recovery.
LEMMA OutsidePlacing ==
    ASSUME NoHwInRecovery, WellFormed, Placing, Callback \/ HwStop \/ HwRelease
    PROVE  Placing'
<1> USE DEF NoHwInRecovery, Placing, SamePlace, OverBox, OverSpot, OverOrigin, Freed,
        WellFormed, TypeOK, controlVars, trackerVars, eventVars, queueVars, toldVars,
        gripVars, hwVars, Goto, Carrying, Recovery, RecoveryMoves
<1>1. CASE StartCommand
  BY <1>1 DEF StartCommand
<1>2. CASE EmergencyStop
  BY <1>2 DEF EmergencyStop
<1>3. CASE Resume
  BY <1>3 DEF Resume
<1>4. CASE ManualPause
  BY <1>4 DEF ManualPause
<1>5. CASE HwStop
  BY <1>5 DEF HwStop
<1>6. CASE HwRelease
  BY <1>6 DEF HwRelease
<1>7. ASSUME NEW command \in {"OPEN", "CLOSE", "MOVE_JOINT"}, ManualCommand(command)
      PROVE  Placing'
  BY <1>7 DEF ManualCommand
<1>8. ASSUME NEW d \in MaybeApple, Decision(d)
      PROVE  Placing'
  BY <1>8 DEF Decision
<1> QED
  BY <1>1, <1>2, <1>3, <1>4, <1>5, <1>6, <1>7, <1>8 DEF Callback

\* A move to the box or to the spot gets there, unless there is a stop.
LEMMA LegPlacing ==
    ASSUME NoHwInRecovery, WellFormed, Placing,
           NEW l \in WorkLegs, LegDone(l) \/ LegStopped(l)
    PROVE  Placing'
<1> USE DEF NoHwInRecovery, Placing, SamePlace, OverBox, OverSpot, OverOrigin, Freed,
        WellFormed, TypeOK, controlVars, trackerVars, eventVars, queueVars, toldVars,
        gripVars, hwVars, Goto, Carrying, Recovery, RecoveryMoves
<1>1. CASE LegDone(l)
  BY <1>1, Legs, PlacingLegs DEF LegDone, Target
<1>2. CASE LegStopped(l)
  BY <1>2, Legs DEF LegStopped, Raise, ReturnPoint
<1> QED
  BY <1>1, <1>2

\* The loop carries nothing.
LEMMA BetweenPlacing ==
    ASSUME NoHwInRecovery, WellFormed, Placing, Boot \/ AwaitStart \/ Ready0 \/ Between
    PROVE  Placing'
<1> USE DEF NoHwInRecovery, Placing, SamePlace, OverBox, OverSpot, OverOrigin, Freed,
        WellFormed, TypeOK, controlVars, trackerVars, eventVars, queueVars, toldVars,
        gripVars, hwVars, Goto, Carrying, Recovery, RecoveryMoves
<1>1. CASE Boot
  BY <1>1 DEF Boot
<1>2. CASE AwaitStart
  BY <1>2 DEF AwaitStart
<1>3. CASE Ready0
  BY <1>3 DEF Ready0
<1>4. CASE LoopTop
  BY <1>4 DEF LoopTop, HwQuery
<1>5. CASE BeforeDrain
  BY <1>5 DEF BeforeDrain
<1>6. CASE ManualGripper
  BY <1>6 DEF ManualGripper
<1>7. CASE ManualMove
  BY <1>7 DEF ManualMove
<1>8. CASE DrainEnds
  BY <1>8 DEF DrainEnds
<1>9. CASE PauseCheck
  BY <1>9 DEF PauseCheck
<1>10. CASE GetDecision
  BY <1>10 DEF GetDecision
<1>11. CASE GetTimesOut
  BY <1>11 DEF GetTimesOut
<1> QED
  BY <1>1, <1>2, <1>3, <1>4, <1>5, <1>6, <1>7, <1>8, <1>9, <1>10, <1>11 DEF Between

\* The first move of an attempt goes to where the apple is kept in mind.
LEMMA PickPlacing ==
    ASSUME NoHwInRecovery, WellFormed, Placing, Pick
    PROVE  Placing'
<1> USE DEF NoHwInRecovery, Placing, SamePlace, OverBox, OverSpot, OverOrigin, Freed,
        WellFormed, TypeOK, controlVars, trackerVars, eventVars, queueVars, toldVars,
        gripVars, hwVars, Goto, Carrying, Recovery, RecoveryMoves
<1>1. CASE Confirmed
  BY <1>1 DEF Confirmed, BeginAttempt
<1>2. CASE Unconfirmed
  BY <1>2 DEF Unconfirmed
<1>3. CASE DescentRefused
  BY <1>3 DEF DescentRefused, Unstopped, HwQuery, PickFailed
<1>4. CASE Close
  BY <1>4 DEF Close
<1>5. CASE Grasped
  BY <1>5 DEF Grasped, Unstopped, HwQuery
<1>6. CASE NotGrasped
  BY <1>6 DEF NotGrasped, Unstopped, HwQuery, PickFailed
<1>7. CASE GraspStopped
  BY <1>7 DEF GraspStopped, Raise, ReturnPoint
<1>8. CASE Regrip
  BY <1>8 DEF Regrip
<1>9. CASE Refresh
  BY <1>9 DEF Refresh, BeginAttempt
<1> QED
  BY <1>1, <1>2, <1>3, <1>4, <1>5, <1>6, <1>7, <1>8, <1>9 DEF Pick

\* The work goes on to the release on contact there, or with no stop seen.
LEMMA PlacePlacing ==
    ASSUME NoHwInRecovery, WellFormed, Placing, PlaceApple
    PROVE  Placing'
<1> USE DEF NoHwInRecovery, Placing, SamePlace, OverBox, OverSpot, OverOrigin, Freed,
        WellFormed, TypeOK, controlVars, trackerVars, eventVars, queueVars, toldVars,
        gripVars, hwVars, Goto, Carrying, Recovery, RecoveryMoves
<1>1. CASE BoxContact
  BY <1>1 DEF BoxContact, Unstopped, HwQuery
<1>2. CASE BoxMissed
  BY <1>2 DEF BoxMissed, Unstopped, HwQuery
<1>3. CASE TrayForce
  BY <1>3 DEF TrayForce, Unstopped, HwQuery
<1>4. CASE ForceStopped
  BY <1>4 DEF ForceStopped, Raise, ReturnPoint
<1>5. CASE Release
  BY <1>5 DEF Release
<1>6. CASE CycleDone
  BY <1>6 DEF CycleDone
<1> QED
  BY <1>1, <1>2, <1>3, <1>4, <1>5, <1>6 DEF PlaceApple

\* The arm recovers only when the controller is free.
LEMMA RecoverPlacing ==
    ASSUME NoHwInRecovery, WellFormed, Placing, Recover
    PROVE  Placing'
<1> USE DEF NoHwInRecovery, Placing, SamePlace, OverBox, OverSpot, OverOrigin, Freed,
        WellFormed, TypeOK, controlVars, trackerVars, eventVars, queueVars, toldVars,
        gripVars, hwVars, Goto, Carrying, Recovery, RecoveryMoves
<1>1. CASE RecoveryCheck
  BY <1>1 DEF RecoveryCheck, HwQuery, BeginRecovery
<1>2. CASE ForgetResume
  BY <1>2 DEF ForgetResume
<1>3. CASE HwResumed
  BY <1>3 DEF HwResumed
<1>4. CASE HwReset
  BY <1>4 DEF HwReset, BeginRecovery
<1>5. CASE HwResetFails
  BY <1>5 DEF HwResetFails
<1>6. CASE Lift
  BY <1>6 DEF Lift
<1>7. CASE LiftFails
  BY <1>7 DEF LiftFails
<1>8. CASE RecoveryMove
  BY <1>8 DEF RecoveryMove
<1>9. CASE RecoveryOpen
  BY <1>9 DEF RecoveryOpen
<1>10. CASE Recovered
  BY <1>10 DEF Recovered
<1>11. CASE Resumed
  BY <1>11 DEF Resumed
<1> QED
  BY <1>1, <1>2, <1>3, <1>4, <1>5, <1>6, <1>7, <1>8, <1>9, <1>10, <1>11 DEF Recover

\* Every step keeps in mind where the apple is to be let go.
LEMMA NextPlacing ==
    ASSUME NoHwInRecovery, WellFormed, Placing, [Next]_vars
    PROVE  Placing'
<1>1. CASE UNCHANGED vars
  BY <1>1 DEF vars, Placing, SamePlace, OverBox, OverSpot, OverOrigin, Freed, controlVars,
     trackerVars, eventVars, queueVars, toldVars, gripVars, hwVars
<1>2. CASE Next
  BY <1>2, OutsidePlacing, LegPlacing, BetweenPlacing, PickPlacing, PlacePlacing,
     RecoverPlacing DEF Next, MainThread
<1> QED
  BY <1>1, <1>2

\* The gripper lets an apple go only over the box or over its spot, or blind.
LEMMA LetGoInPlace ==
    ASSUME WellFormed, Tracking, Placing, [Next]_vars, held # NoApple, held' # held
    PROVE  at \in {"box", held} \/ unseen
<1> USE DEF Tracking, HeldIsTracked
<1>1. ~(Callback \/ HwStop \/ HwRelease) /\ vars' # vars
  BY DEF Callback, StartCommand, EmergencyStop, Resume, ManualPause, ManualCommand, Decision,
     HwStop, HwRelease, vars, gripVars, hwVars
<1>2. ~\E l \in WorkLegs : LegDone(l) \/ LegStopped(l)
  BY DEF LegDone, LegStopped, Raise, gripVars, hwVars
<1>3. ~(Boot \/ AwaitStart \/ Ready0 \/ Between)
  BY DEF Boot, AwaitStart, Ready0, Between, LoopTop, BeforeDrain, ManualGripper, ManualMove,
     DrainEnds, PauseCheck, GetDecision, GetTimesOut, gripVars, hwVars, NothingIn, Empty
<1>4. ~Pick
  BY DEF Pick, Confirmed, Unconfirmed, DescentRefused, Close, Grasped, NotGrasped,
     GraspStopped, Raise, Regrip, Refresh, gripVars, hwVars, NothingIn, Empty
<1>5. ASSUME PlaceApple
      PROVE  at \in {"box", held} \/ unseen
  BY <1>5 DEF PlaceApple, BoxContact, BoxMissed, TrayForce, ForceStopped, Raise, Release,
     CycleDone, gripVars, hwVars, Placing, SamePlace, Carrying, OverBox, OverSpot
<1>6. ASSUME Recover
      PROVE  at \in {"box", held} \/ unseen
  BY <1>6 DEF Recover, RecoveryCheck, ForgetResume, HwResumed, HwReset, HwResetFails, Lift,
     LiftFails, RecoveryMove, RecoveryOpen, Recovered, Resumed, gripVars, hwVars, Placing,
     OverOrigin
<1> QED
  BY <1>1, <1>2, <1>3, <1>4, <1>5, <1>6 DEF Next, MainThread

\* An apple is let go only over the box or over the spot it came from,
\* whatever stops of the program and of the working arm there were, unless a
\* stop of the controller went unseen because queries of its state were not
\* answered: as long as the gripper and the force can be relied on and the
\* controller does not stop the arm in the middle of a recovery.
THEOREM AlwaysReleasedInPlace ==
    ASSUME Reliable, NoHwInRecovery
    PROVE  Spec => ReleasedInPlace
<1>1. Init => WellFormed /\ Tracking /\ Placing
  BY InitWellFormed, InitTracking, InitPlacing
<1>2. WellFormed /\ Tracking /\ Placing /\ [Next]_vars => (WellFormed /\ Tracking /\ Placing)'
  BY Reliable, NoHwInRecovery, NextWellFormed, NextTracking, NextPlacing
<1>3. WellFormed /\ Tracking /\ Placing /\ [Next]_vars =>
        [held # NoApple /\ held' # held => at \in {"box", held} \/ unseen]_vars
  BY LetGoInPlace
<1> QED
  BY <1>1, <1>2, <1>3, PTL DEF Spec, ReleasedInPlace
---------------------------------------------------------------------------
(* Where the arm stands *)

\* Where the loop is between two moves, the arm stands at CAMERA.
Looking == {"ready0", "top", "top2", "drain", "pause_check", "get", "confirm", "refresh",
            "cycle_done", "rec_done", "rec_prompted", "rec_wait"}

\* Without manual commands the queue is drained only in the loop.
Unmanned ==
    /\ manual = <<>> /\ pc # "manual_move" /\ ret # "drain"
    /\ pc = "drain" => back = "pause_check"

InPlace == pc \in Looking => at = "camera"

Standing == NeverHw /\ Unmanned /\ InPlace

\* What these proofs need of the table of watched moves.
LEMMA StandingLegs ==
    \A l \in WorkLegs :
        /\ Leg[l].next \in Looking => l = "manual_move" \/ Leg[l].to = "camera"
        /\ Leg[l].next \notin {"manual_move", "hw_prompted", "hw_wait", "hw_reset"}
        /\ Leg[l].next = "drain" => l = "manual_move"
BY Legs DEF Leg, Looking

\* At the start the program has not looked at anything yet.
LEMMA InitStanding == Init => Standing
BY DEF Init, Standing, NeverHw, Unmanned, InPlace, Looking

\* The callbacks do not move the arm.
LEMMA OutsideStanding ==
    ASSUME HwNever, NoManual, WellFormed, Standing, Callback \/ HwStop \/ HwRelease
    PROVE  Standing'
<1> USE DEF HwNever, Standing, NeverHw, Unmanned, InPlace, Looking, WellFormed, TypeOK,
        controlVars, trackerVars, eventVars, queueVars, toldVars, gripVars, hwVars, Goto,
        RecoveryMoves
<1>1. CASE StartCommand
  BY <1>1 DEF StartCommand
<1>2. CASE EmergencyStop
  BY <1>2 DEF EmergencyStop
<1>3. CASE Resume
  BY <1>3 DEF Resume
<1>4. CASE ManualPause
  BY <1>4 DEF ManualPause
<1>5. CASE HwStop
  BY <1>5 DEF HwStop
<1>6. CASE HwRelease
  BY <1>6 DEF HwRelease
<1>7. ASSUME NEW command \in {"OPEN", "CLOSE", "MOVE_JOINT"}, ManualCommand(command)
      PROVE  Standing'
  BY <1>7 DEF ManualCommand, NoManual
<1>8. ASSUME NEW d \in MaybeApple, Decision(d)
      PROVE  Standing'
  BY <1>8 DEF Decision
<1> QED
  BY <1>1, <1>2, <1>3, <1>4, <1>5, <1>6, <1>7, <1>8 DEF Callback

\* A move ends where the table says, or is stopped.
LEMMA LegStanding ==
    ASSUME HwNever, NoManual, WellFormed, Standing, NEW l \in WorkLegs, LegDone(l) \/ LegStopped(l)
    PROVE  Standing'
<1> USE DEF HwNever, Standing, NeverHw, Unmanned, InPlace, Looking, WellFormed, TypeOK,
        controlVars, trackerVars, eventVars, queueVars, toldVars, gripVars, hwVars, Goto,
        RecoveryMoves
<1>1. CASE LegDone(l)
  BY <1>1, StandingLegs DEF LegDone, Target
<1>2. CASE LegStopped(l)
  BY <1>2, StandingLegs DEF LegStopped, Raise, ReturnPoint
<1> QED
  BY <1>1, <1>2

\* The loop does not move the arm.
LEMMA BetweenStanding ==
    ASSUME HwNever, NoManual, WellFormed, Standing, Boot \/ AwaitStart \/ Ready0 \/ Between
    PROVE  Standing'
<1> USE DEF HwNever, Standing, NeverHw, Unmanned, InPlace, Looking, WellFormed, TypeOK,
        controlVars, trackerVars, eventVars, queueVars, toldVars, gripVars, hwVars, Goto,
        RecoveryMoves
<1>1. CASE Boot
  BY <1>1 DEF Boot, Opened, OpenFailed
<1>2. CASE AwaitStart
  BY <1>2 DEF AwaitStart
<1>3. CASE Ready0
  BY <1>3 DEF Ready0
<1>4. CASE LoopTop
  BY <1>4 DEF LoopTop, HwQuery
<1>5. CASE BeforeDrain
  BY <1>5 DEF BeforeDrain
<1>6. CASE ManualGripper
  BY <1>6 DEF ManualGripper
<1>7. CASE ManualMove
  BY <1>7 DEF ManualMove
<1>8. CASE DrainEnds
  BY <1>8 DEF DrainEnds
<1>9. CASE PauseCheck
  BY <1>9 DEF PauseCheck
<1>10. CASE GetDecision
  BY <1>10 DEF GetDecision
<1>11. CASE GetTimesOut
  BY <1>11 DEF GetTimesOut
<1> QED
  BY <1>1, <1>2, <1>3, <1>4, <1>5, <1>6, <1>7, <1>8, <1>9, <1>10, <1>11 DEF Between

\* A look at the tray follows a move to CAMERA.
LEMMA PickStanding ==
    ASSUME HwNever, NoManual, WellFormed, Standing, Pick
    PROVE  Standing'
<1> USE DEF HwNever, Standing, NeverHw, Unmanned, InPlace, Looking, WellFormed, TypeOK,
        controlVars, trackerVars, eventVars, queueVars, toldVars, gripVars, hwVars, Goto,
        RecoveryMoves
<1>1. CASE Confirmed
  BY <1>1 DEF Confirmed, BeginAttempt
<1>2. CASE Unconfirmed
  BY <1>2 DEF Unconfirmed
<1>3. CASE DescentRefused
  BY <1>3 DEF DescentRefused, Unstopped, HwQuery, PickFailed
<1>4. CASE Close
  BY <1>4 DEF Close
<1>5. CASE Grasped
  BY <1>5 DEF Grasped, Unstopped, HwQuery
<1>6. CASE NotGrasped
  BY <1>6 DEF NotGrasped, Unstopped, HwQuery, PickFailed
<1>7. CASE GraspStopped
  BY <1>7 DEF GraspStopped, Raise, ReturnPoint
<1>8. CASE Regrip
  BY <1>8 DEF Regrip
<1>9. CASE Refresh
  BY <1>9 DEF Refresh, BeginAttempt
<1> QED
  BY <1>1, <1>2, <1>3, <1>4, <1>5, <1>6, <1>7, <1>8, <1>9 DEF Pick

\* So does the end of a cycle.
LEMMA PlaceStanding ==
    ASSUME HwNever, NoManual, WellFormed, Standing, PlaceApple
    PROVE  Standing'
<1> USE DEF HwNever, Standing, NeverHw, Unmanned, InPlace, Looking, WellFormed, TypeOK,
        controlVars, trackerVars, eventVars, queueVars, toldVars, gripVars, hwVars, Goto,
        RecoveryMoves
<1>1. CASE BoxContact
  BY <1>1 DEF BoxContact, Unstopped, HwQuery
<1>2. CASE BoxMissed
  BY <1>2 DEF BoxMissed, Unstopped, HwQuery
<1>3. CASE TrayForce
  BY <1>3 DEF TrayForce, Unstopped, HwQuery
<1>4. CASE ForceStopped
  BY <1>4 DEF ForceStopped, Raise, ReturnPoint
<1>5. CASE Release
  BY <1>5 DEF Release
<1>6. CASE CycleDone
  BY <1>6 DEF CycleDone
<1> QED
  BY <1>1, <1>2, <1>3, <1>4, <1>5, <1>6 DEF PlaceApple

\* A recovery ends at CAMERA.
LEMMA RecoverStanding ==
    ASSUME HwNever, NoManual, WellFormed, Standing, Recover
    PROVE  Standing'
<1> USE DEF HwNever, Standing, NeverHw, Unmanned, InPlace, Looking, WellFormed, TypeOK,
        controlVars, trackerVars, eventVars, queueVars, toldVars, gripVars, hwVars, Goto,
        RecoveryMoves
<1>1. CASE RecoveryCheck
  BY <1>1 DEF RecoveryCheck, HwQuery, BeginRecovery
<1>2. CASE ForgetResume
  BY <1>2 DEF ForgetResume
<1>3. CASE HwResumed
  BY <1>3 DEF HwResumed
<1>4. CASE HwReset
  BY <1>4 DEF HwReset, BeginRecovery
<1>5. CASE HwResetFails
  BY <1>5 DEF HwResetFails
<1>6. CASE Lift
  BY <1>6 DEF Lift
<1>7. CASE LiftFails
  BY <1>7 DEF LiftFails
<1>8. CASE RecoveryMove
  BY <1>8 DEF RecoveryMove
<1>9. CASE RecoveryOpen
  BY <1>9 DEF RecoveryOpen
<1>10. CASE Recovered
  BY <1>10 DEF Recovered
<1>11. CASE Resumed
  BY <1>11 DEF Resumed
<1> QED
  BY <1>1, <1>2, <1>3, <1>4, <1>5, <1>6, <1>7, <1>8, <1>9, <1>10, <1>11 DEF Recover

\* Every step keeps it.
LEMMA NextStanding ==
    ASSUME HwNever, NoManual, WellFormed, Standing, [Next]_vars
    PROVE  Standing'
<1>1. CASE UNCHANGED vars
  BY <1>1 DEF vars, Standing, NeverHw, Unmanned, InPlace, controlVars, trackerVars, eventVars,
     queueVars, toldVars, gripVars, hwVars
<1>2. CASE Next
  BY <1>2, OutsideStanding, LegStanding, BetweenStanding, PickStanding, PlaceStanding, RecoverStanding
     DEF Next, MainThread
<1> QED
  BY <1>1, <1>2

\* READY is told where the loop begins or goes on.
LEMMA ReadyStands ==
    ASSUME HwNever, NoManual, WellFormed, Standing, [Next]_vars,
           pc # "boot", state # "READY", state' = "READY"
    PROVE  at = "camera"
<1> SUFFICES ASSUME Next PROVE at = "camera"
  BY DEF vars, toldVars
<1> USE DEF Standing, NeverHw, Unmanned, InPlace, Looking, toldVars
<1>1. ~(Callback \/ HwStop \/ HwRelease)
  BY DEF Callback, StartCommand, EmergencyStop, Resume, ManualPause, ManualCommand, Decision,
     HwStop, HwRelease
<1>2. \A l \in WorkLegs : ~(LegDone(l) \/ LegStopped(l))
  BY DEF LegDone, LegStopped, Raise
<1>3. CASE Boot \/ AwaitStart \/ Ready0 \/ Between
  BY <1>3 DEF Boot, AwaitStart, Ready0, Between, LoopTop, BeforeDrain, ManualGripper,
     ManualMove, DrainEnds, PauseCheck, GetDecision, GetTimesOut
<1>4. ~Pick
  BY DEF Pick, Confirmed, Unconfirmed, DescentRefused, Close, Grasped, NotGrasped,
     GraspStopped, Regrip, Refresh, BeginAttempt, PickFailed, Raise
<1>5. CASE PlaceApple
  BY <1>5 DEF PlaceApple, BoxContact, BoxMissed, TrayForce, ForceStopped, Release, CycleDone,
     Raise
<1>6. CASE Recover
  BY <1>6 DEF Recover, RecoveryCheck, BeginRecovery, ForgetResume, HwResumed, HwReset,
     HwResetFails, Lift, LiftFails, RecoveryMove, RecoveryOpen, Recovered, Resumed
<1> QED
  BY <1>1, <1>2, <1>3, <1>4, <1>5, <1>6 DEF Next, MainThread

\* The invariant these two theorems rest on.
LEMMA AlwaysStanding ==
    ASSUME HwNever, NoManual
    PROVE  Spec => [](WellFormed /\ Standing)
<1>1. Init => WellFormed /\ Standing
  BY InitWellFormed, InitStanding
<1>2. WellFormed /\ Standing /\ [Next]_vars => (WellFormed /\ Standing)'
  BY HwNever, NoManual, NextWellFormed, NextStanding
<1> QED
  BY <1>1, <1>2, PTL DEF Spec

\* A position is taken from the picture only where the picture was made, with
\* stops at any moment and whatever fails but the controller.
THEOREM AlwaysMeasuredAtCamera ==
    ASSUME HwNever, NoManual
    PROVE  Spec => []MeasuredAtCamera
<1>1. WellFormed /\ Standing => MeasuredAtCamera
  BY DEF Standing, InPlace, Looking, MeasuredAtCamera
<1> QED
  BY <1>1, HwNever, NoManual, AlwaysStanding, PTL

\* READY means that the arm stands at CAMERA, where the next apple is seen from.
THEOREM ReadyMeansAtCamera ==
    ASSUME HwNever, NoManual
    PROVE  Spec => ReadyAtCamera
<1>1. WellFormed /\ Standing /\ [Next]_vars =>
        [started /\ pc # "boot" /\ state # "READY" /\ state' = "READY" => at = "camera"]_vars
  BY HwNever, NoManual, ReadyStands
<1> QED
  BY <1>1, HwNever, NoManual, AlwaysStanding, PTL DEF Spec, ReadyAtCamera
=============================================================================
