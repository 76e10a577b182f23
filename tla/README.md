# Apple sorting cell: models and proofs

TLA+ models of the program under `code/`: a backend (FastAPI, asyncio) that decides where each
apple goes, asks a human when it is not sure, and sends decisions over ROS to a robot process,
which picks and places; a vision node; an administrator GUI. The definitions are translated from
the source; `PROJECT.json` ("map") names the lines of each.

## 1. The system

    detection node --get_apple_status--> vision_bridge --queue--> main._vla_consumer_loop
                                              ^                        | decide()
                               force_redetect |                        v
    HMI <--WebSocket-- connection_manager     |        decision_planner + bayesian_policy
     |                                        |            | act            | ask_human
     | feedback, reset, skip                  |            v                v
     +------> routers -----------------> robot_bridge <--decision-- HITL state machine <-> STT/TTS, LLM
                                       /decision/result, /robot/command
                                              |  ^ /robot/process_state, /gripper/status
                                              v  |
                                   box_sequence_test (main thread + comm_node thread)
                                      safe_motion, estop_handler, grasp_force, force_place

| component | state it keeps | operations | talks to |
|---|---|---|---|
| HITL state machine (`state/hitl_state_machine.py`) | current session, its phase and attempts, the answer future, the queue of requests | ask_human, submit_answer, force_reset, the session's task (hold, announce, listen, interpret, finish) | consumer, routers, speech, LLM, robot bridge |
| VLA consumer (`main.py`) | none of its own | take a detection, gate on READY and on no open session, decide, execute or ask | vision bridge, planner, HITL, robot bridge |
| vision bridge (`vision_bridge.py`) | pending call, samples for the majority, duplicate cache, skip position, two bounded queues | poll, response, skip, force_redetect, capture | detection node (ROS thread), consumer (event loop) |
| robot bridge (`robot_bridge.py`) | last process state, gripper status | publish decisions and commands, state callback | robot process, HMI, vision bridge |
| basket bridge | occupancy of the boxes | poll, cache | basket camera |
| planner and policy (`services/`) | policies with their statistics, audit records | decide in stages, human-query gate, feedback update | consumer, HITL, voice policy |
| voice and speech (`services/voice_policy.py`, `stt_tts/`) | the microphone lock, recording | wake-up listening, recording, spoken policy | HITL, policy, vision bridge |
| connection manager | set of WebSockets | connect, disconnect, broadcast | HMI |
| robot main loop (`box_sequence_test.py`) | queues of decisions and manual commands, events for start, stop, resume, pause | the sorting cycle; callbacks | robot bridge, controller, gripper |
| emergency stop (`estop_handler.py`, `safe_motion.py`) | what is held and where from; the event | watch moves, stop, recover, wait for RESUME, reset the controller | main loop, operator |
| force loops, geometry (`grasp_force.py`, `force_place.py`, `wall_avoidance.py`) | none | close until it holds, lower until contact, way points | controller |
| detection (`vision_ws`) | camera frames | detect, depth, size class | vision bridge, main loop |

What is hard here: three kinds of concurrency (asyncio tasks that interleave at each await, ROS
callback threads next to the event loop and next to the main thread, and separate processes that
exchange messages); cancellation and time-outs of asyncio; an emergency stop that may come between
any two steps of a physical cycle; a controller that may stop on its own and then takes commands
without executing them; messages that are stale when used. `PROJECT.json` ("hazards") lists each
place, with the properties about it.

What makes each part correct: HITL - requests are settled once, in order, each answer goes to its
own question, and the robot is not held forever; robot cell - no stop loses or drops an apple, no
work before RESUME, READY means ready; pipeline - no question over another, no apple in view
forgotten; planner - the counts agree with the answers, the audit and the replay of the log;
microphone - one recording is waited for at a time, every user gets it and gives it back; screen -
it says what the robot and the question are, and a stopped robot can be resumed from it.

## 2. Modules

| module | what it is | instance | theorems |
|---|---|---|---|
| `HitlSession` | the HITL state machine with its asyncio tasks | `MCHitlSession` | `HitlSessionProofs` |
| `HitlPromise` | what it promises: one request at a time, in order, settled once | | |
| `RobotCell` | the robot process: cycle, callbacks, emergency stop, recovery, controller | `MCRobotCell` | `RobotCellProofs` |
| `VisionPipeline` | detection node, vision bridge, robot bridge and the consumer loop together | `MCVisionPipeline` | `VisionPipelineProofs` |
| `PolicyMemory` | planner, gate, policies, the log of decisions and its replay | `MCPolicyMemory` | `PolicyMemoryProofs` |
| `Microphone` | the lock of the microphone and all its users | `MCMicrophone` | `MicrophoneProofs` |
| `Console` | the operator's screen, the broadcasts to it and the calls from it | `MCConsole` | `ConsoleProofs` |
| `RecursionProofs` | lemmas on induction and recursion for the proof modules | | |

Each of `VisionPipeline`, `PolicyMemory`, `Microphone` and `Console` is a composition: it has the
components around it as far as its own can tell.
`VisionPipeline` has the robot as the states it publishes and the session as open or closing;
`Console` has the robot as the points at which it stops and waits; `RobotCell` has the backend as
decisions that may come at any time. What one module abstracts another one details.

Definitions named `..._Slip` are mistakes: each is the definition it is named after with one
plausible error. They are part of no specification and show that the properties can fail.

### HitlSession

A request becomes a session with a task. `phase` is `HITLSession.state`; `pc` of a task is the
await it is suspended at, and an action is the code from one await to the next, as asyncio runs it.
`queue`, `current` and `future` are `_pending`, `_current` and `_answer_future`; `future` says which
session's future is there, because a task left over from a reset session looks at it too.
The constants:

* `AskWhileBusy`: may a request come while a session is open? The class allows it (and has a queue
  for it), `main.py` does not.
* `ResetWhen`: which sessions are reset: none, those that are STUCK (what the reset is documented
  for), or any (what the HMI offers).

`TimeoutBeatsWakeUp` is the case of `asyncio.wait_for` in which the answer has come but the time-out
is delivered first. What the LLM makes of an answer is nondeterministic: a destination, a skip,
unclear, or an exception. Texts, prompts, broadcasts to the HMI and the HOLD message are left out;
the microphone is one of the ways an answer comes.

### HitlPromise

A queue of requests, one served at a time; each is decided, skipped, or given up and then closed by
the administrator. `KeepsPromise` is `HitlSession` under the refinement mapping at the end of that
module.

### RobotCell

`pc` is where the main thread is; the watched moves are listed in the table `Leg` with the place
each goes to and what follows. An action is the code up to the next point at which the callbacks'
events can make a difference. The callbacks (`StartCommand` ... `Decision`) and the controller
(`HwStop`, `HwRelease`) act at any time. `at`, `grip`, `held`, `tray` and `hw` are the world, which
the program knows only by what it measures; `unanswered` and `unseen` are there for properties.

* A move ends by arriving (`LegDone`) or by the stop (`LegStopped`). The program looks at the event
  only while `check_motion()` reports a motion, so an arm that is there already, or frozen by the
  controller, counts as arrived.
* `HwQuery` is `is_controller_in_hardware_safety_stop`, which fails open: no answer, or no service,
  passes for no stop (`safe_motion.py:142-172`, `186-194`). `Faults = {"query"}` lets it, and `unseen`
  records that it hid a stop.
* `force_controlled_place` takes a change of force for contact, or a z that has not moved for two
  seconds (`force_place.py:200-223`), wherever the arm is. `BoxContact` and `TrayForce` have both; the
  second takes four looks at the event and the controller, and with one answered query a frozen arm
  ends the descent.
* `state` is the process state the backend was told; its `ERROR` is split by its message into
  `ESTOP` and `WAITING`.
* A decision names an apple; the spot of the apple on the tray has its name too. A decision may be
  for an apple that is gone, and there may be two for the same (the backend and the camera are free).
* The look at the tray before a pick and before a second attempt is taken to be answered; the
  service call has no time limit in the code (see hazards).
* Several motions with nothing to decide between them (lift after release, hover points) are one.

Constants: `HwStops` says when the controller stops on its own, `Faults` what may fail, `MaxManual`
whether there are manual commands. They exist because the code behaves differently with each: the
properties that hold without a fault and fail with it are the findings.

### VisionPipeline

Three threads of the backend act on one state: the ROS thread of the vision bridge (`PollOnce`,
`OnResponse`, `Report`), that of the robot bridge (`ProcessStateCallback`, `GripperStatusCallback`)
and the event loop (`Consume`, `VlmAnswers`, the session's actions). `_on_response` is two actions,
because `force_redetect` may come between its duplicate filter and its writing of the cache.
`decide()` is one action unless it awaits the VLM (`hand`). An apple is a number that is also its
place; the larger one is the larger in the picture, so `Max` is what the detection node prefers.
`Sight` is the whole answer of `handle_get_status`: the boxes YOLO is sure of first, the skipped one
taken out afterwards, then the largest blob.

`Settled` is an assumption on time: a poll or a motion of the arm takes longer than the backend needs
to read what is published and to go through its queue. It holds until `FallBehind`.

`faults` records what happened besides, by what the program does about it: `"handled"` (a stop, a
spoken rule, a call without answer, a wrong picture), `"unnoticed"` (a pause, an apple that cannot be
picked: no redetection follows), `"reset"`, `"away"` (things seen while the arm is away from CAMERA)
and `"late"`. Each comes once in a behaviour, things seen on the way and lateness from then on, and the
properties name the ones they do not hold with. A decision on its way to the robot is kept as what the
robot looks at: whether it has a position.

### PolicyMemory

`memory` is `tb_policy_memory`. `tb_decision_audit` is append-only and is two sequences here: `log` has
its rows about decisions, `trail` those about what was learned (`prior_initialized`,
`stage3_human_resolved`, with the counts before and after). A row of `log` is never labelled by the
program; its field `answer` is history, what was answered to that question.

A Beta distribution is three integers (parameters over a common unit), which makes pooled priors
exact; a comparison of quotients is one of products. The stages of `decide()` are `Decide`
(confidence, then the policy of the first condition something is known about) and `BeginIdentify` with
`Identified` (the VLM is awaited between). `Stage3` is the gate. Its loss matrix is a constant: any
positive `Loss` for each condition and box, since a question costs nothing whenever the gate is asked
(`NoBacklog`) and only the sign of its value decides.

`Learned` is `record_human_feedback`, `Upserted` is `upsert_llm_policy`, `Filled` is `init_db` on an
empty table. An answer learns and writes the trail (`Answer`); `force_reset` learns too but writes no
row of the answer (`ForceReset`); a spoken rule is an `Order` and, when a question is open as it is
confirmed, a `ForceReset` after it. `mixed` and `erased` are history: which policies do not come from
answers alone, which were deleted. The answer a left-over task of a reset session still takes is in
`HitlSession` only.

`Simulated` runs `replay_session.py` over a log, row by row, with the box each row's label stands for;
labels are words of their own, converted by `Correct` (`CORRECT_DESTINATION_FOR_LABEL`), and a word
that is not in that table is no label. They are written by hand after a session, so the property about
the replay quantifies over the labellings (`Labelings`).

### Microphone

`holder` and `waiters` are the asyncio lock and its queue; a user is the wake-up word, the button, or
a question. A recording is a thread: when the task that awaits it is cancelled the lock is let go and
the thread is counted in `abandoned`. The listener (`ear`) looks at the lock without taking it.

### Console

`said` is the queue of `main.py` as far as the states in it go, `job` the broadcast each task is in
the middle of, over the live list `conns`, one `send_json` a step. `inbox` is the screen's own queue;
`Poll` takes one message, and a message box opened by it keeps it from the next. A call is `sent`,
`ok` (the router has acted) or `failed`, so that a late answer is one that failed after its effect.
`Quiet` is an assumption on time: a call on the same machine is faster than a recovery and than the
operator, except for a stop pressed on top of another call.

## 3. Runs

| run | instance | shows |
|---|---|---|
| `hitl_class` | 3 requests, 2 attempts, questions while busy, STUCK sessions reset | order, at most one decision, answers to their own session, nothing dropped; it implements `HitlPromise` |
| `hitl_app` | 2 requests, 2 attempts, the program's gate, any session reset, fair tasks | what the check in the finally clause does protect; no session holds the robot forever in silence, and tasks end |
| `cell_stop` | 2 apples, 2 picks, 2 waiting decisions; stop, resume, pause at any time | an apple held is tracked, the gripper is empty between apples, nothing is let go off its place, the pose is taken at CAMERA, READY is true |
| `cell_hw` | 1 apple, 2 picks; also the controller's stops outside a recovery, queries of its state that may fail, a lift that may fail; fair main thread | empty hands; release in place unless a stop went unseen; every stop is answered; a held apple is put down |
| `cell_any` | 1 apple, manual commands, gripper, grasp verdict and lift may fail | the types; no work before RESUME |
| `cell_erased` | 1 apple, controller stops at any time | violated: a second EMERGENCY_STOP during a recovery is erased |
| `vision` | 2 apples, one unknown to YOLO; one fault of any kind; fair threads | the types and bounds; no question over another; what a session made the loop throw away is reported again (unless a reset came); the cell does not come to rest with apples in view (with a fault that is `"handled"` or `"away"`) |
| `policy` | 1 fruit in 4 conditions and a blob, 3 decisions, 2 orders, deletions or restarts, pooling on and off | balanced counts, no backlog, a trail of every answer, the replay gives the stored counts |
| `policy_deleted` | the same | violated: a condition whose policy was deleted is not asked about |
| `policy_learned` | one condition, one box in every answer, 9 decisions | violated: a policy confirmed to nine tenths is still asked about |
| `mic` | 2 questions of 2 attempts, the word and the button once, a device that may fail to open | one recording awaited; a spoken rule ends; the listener listens again |
| `console` | 2 stops, 1 question or use of the panels, 1 fault of six kinds | the pause button, the popup and the overlay's button agree with robot and session |

Why the bounds are enough.

* HITL: two requests and two attempts are enough for a left-over task, its successor and a second
  question to meet; the third request makes a queue with an order.
* Cell: two apples make an apple, its successor and a decision for the wrong one; two picks make a
  first, a repeated and a given-up attempt (with one there is no retry, a third repeats the second). A
  decision queue of two holds a stale and a fresh one.
* Vision: two apples make a preferred and a hidden one, one that YOLO knows and one it does not; two
  samples make a majority and a tie; two decisions on the way make a second one for the same READY. A
  queue of one is the case in which an item is dropped.
* Policy: three decisions make an answer, one against it and a decision by the result; 2 orders make
  a rule and its deletion.
* Microphone: two questions (one cancelled, one in the queue behind it) with both kinds of command.
* Console: two stops make one that comes while another is answered. Checked besides, by hand: two
  questions with one stop, and another client of the socket with one stop.

Symmetry is used over apples (`cell_stop`) and requests (`hitl_class`), where no property names one.
Deadlock is checked in the cell runs: even when the process has died its callbacks' inputs may come.
In the others everything that is bounded may be used up, and then nothing is left to do.

Fairness. HITL: weak fairness of each task and of the steps whose ends the code bounds (time-outs,
speech, the LLM's answer), none of answers, requests or resets. Cell: weak fairness of the main
thread as a whole: moves, services and gripper commands end, the decision queue is left after a
second; nothing is assumed of the operator (RESUME may never come) or the controller. Vision: weak
fairness of each thread as a whole (the vision bridge's, the robot bridge's, the event loop, the
detection node, the robot, which is released after a stop or a pause); nobody has to answer a
question. Microphone: the event loop runs what is ready, threads and
services end, each by its time-out; nobody has to speak. Console: threads and calls end; the operator
dismisses message boxes, closes a popup he does not answer, and presses the overlay's button when it
can be pressed - `WaitingEnds` is about whether that is enough.

Each property has a mistake (`..._Slip`) under which its run finds it violated.

## 4. Proofs

All safety invariants and action properties of the passing runs are theorems, for every value of the
constants. Where a property needs an assumption on them, it is in the theorem's statement.

`HitlSessionProofs`, for any set of requests and number of attempts:

* `TypeCorrect`: `TypeOK`, the types and the bound on the attempts of a session, if `OnlyStuckReset` or
  `~AskWhileBusy`. The types alone hold for any use (`WellFormed`: what a task's state says of its
  session and the queue); the bound needs that a session is counted by its own task (`Counted`), and
  without either condition TLC shows two tasks of one session that use an attempt too many.
* `AlwaysServedInOrder`: on top of it, for any use, resets included.
* `EndedByOwnTask` (`EndedByItsTask`): from `WellFormed` too, for any use. This is what the check of
  `_current` in the finally clause is for.
* If only STUCK sessions are reset (`OnlyStuckReset`): each task that runs is the one of the current
  session (`SoleRunner`), which is what makes the future it finds its own. With it `DecidesOnce`,
  `AnswersItsSession` and `NothingDropped` are inductive, and `ImplementsPromise` shows that each step
  is a step of `HitlPromise` or changes nothing of it. Where any session is reset these are false (the
  divergences below).
* If only STUCK sessions are reset, or no question is asked while one is open (`~AskWhileBusy`, as in
  the program), whatever is reset: `AlwaysDriven` (`CurrentIsDriven`) and `StuckStays`
  (`StuckKeepsCurrent`). In the second case the queue stays empty and no session is ever taken up by
  another's task (`Owned`). One of the two is needed: with three requests, `AskWhileBusy` and any
  session reset, TLC shows two tasks that run one session; the first makes it STUCK, and the second, when
  it is cancelled, takes it from `_current`.

Assumed: that there is a value that is no request and at least one attempt (`HitlSession`'s ASSUME).

`RobotCellProofs`, for any set of apples, number of attempts and bounds on the queues:

| theorem | assumed | besides the runs it shows |
|---|---|---|
| `TypeCorrect` | nothing | the types with every stop of the controller and every fault |
| `AlwaysTracked` | `Reliable`: the gripper opens, the force does not err | a held apple is tracked, also when the controller stops a recovery and with manual commands |
| `HandsAlwaysEmpty` | `Reliable`, `NoManual` | so are the empty hands, with any stop of the controller |
| `AlwaysReleasedInPlace` | `Reliable`, `NoHwInRecovery` | no apple is let go off its place, with manual commands and queries that fail, unless a stop of the controller went unseen |
| `WorksOnlyWhenResumed` | `HwNever` | for any number of manual commands |
| `AlwaysMeasuredAtCamera`, `ReadyMeansAtCamera` | `HwNever`, `NoManual` | so do these two, with every other fault |

`NoHwInRecovery`, `NoManual` and `HwNever` are statements about the constants `HwStops` and
`MaxManual`. TLC has a counterexample where one is missing: `execute_recovery` only logs a gripper
that stays closed (`Reliable`), a recovery opens the gripper wherever the controller froze the arm
(`NoHwInRecovery`), the RESUME given for a hardware stop counts for an EMERGENCY_STOP that comes
later (`HwNever`, the run `cell_erased`), a frozen arm counts as arrived at CAMERA (`HwNever`), and the
operator may close the gripper or move the arm between two apples (`NoManual`).

None of the properties is inductive. Six invariants carry them, each a conjunction that says
something for each part of the cycle:

* `WellFormed`: the types; at work there is an apple, `holding` has an origin, an attempt is left
  where one begins, and a recovery that returns an apple still holds it.
* `Tracking`: where the gripper is empty (`NothingIn`); where `begin_pick_attempt` was just done
  (`Begun`); that the plan of a recovery says what is held (`PlanSays`). `AtTop` and `StopSet` are
  needed because a failed reset of the controller goes back to the loop with an apple in the gripper:
  the event is set, so the loop recovers before anything else.
* `Telling`: the same of what the backend was told.
* `Placing`: from the first attempt to the release the origin is the apple of the decision, and where
  the gripper is about to open the arm is over the box or the spot, unless a stop is seen first or one
  went unseen.
* `Asking`: an EMERGENCY_STOP that is not answered, and whose event is cleared, means that the
  program asks for a RESUME and has forgotten those given before.
* `Standing`: where the loop is between two moves, or a recovery at its end, the arm is at CAMERA.

Assumed of the constants: `CellAssumption` of `RobotCell` (an apple is no station, at least one
attempt).

`VisionPipelineProofs`, for any number of apples, samples, queue lengths and faults:

* `NeverAskedOver` (`AsksOneAtATime`), without an assumption. The invariant is that while the VLM is
  awaited (`hand`) no session is open: only the loop that waits opens one.
* `AlwaysForgotten` (`BusyReportsForgotten`), without an assumption: the property itself excepts a
  behaviour with a reset, since `force_reset` does not call `force_redetect` without a destination. It
  is inductive with `FaultsGrow`: what happened has happened.
* `TypeCorrect` (`TypeOK`), without an assumption. `Types` adds that an answer has a status and that
  what is grasped is one of the apples. `MajorityIs` (a majority of the samples is one of them) and
  `SightIs` (what the node answers lies on the tray) are the lemmas on the two computations.

`PolicyMemoryProofs`, for any fruits, costs, orders and number of decisions, with pooled priors or
without:

* `NeverBacklog` (`NoBacklog`).
* `TypeCorrect`, `AlwaysBalanced` (`Balanced`) and `OnlyOrdersExecuted` (what is executed without a
  question is what an order in force says; no run states it, since it is the reason why
  `LearnedIsExecuted` fails). Their invariant `Kept` adds to the types what the backlog is when the gate
  is asked (`Backlog`): with `n = tau = 0` a positive beta is enough for it to ask, so only orders,
  whose doubt is 0, are executed. A pooled prior is a sum over the policies of the other fruits: that
  it is positive and keeps the balance is proved by recursion over the set of these (`SetRecExists`).
* `AlwaysTrail` (`AuditTrail`), which is inductive as it stands: the rows of a key that learned from
  answers alone are a chain from its prior to the stored counts. The lemmas say what one row more does
  to the chain, of the same key and of another.
* `ReplayIsTrue` (`ReplayReproduces`), for a log of any length and every labelling that says of each
  question what was answered and nothing of the other rows: without pooled priors the replay has the
  stored policy of every key that learned from answers alone. `Agrees` says it of the log as it stands;
  a step adds a row, which the replay passes over until it has a label, or answers the last one;
  `Asked` says that the row of an open question is that one, so that its label is the last thing the
  replay sees.

`MicrophoneProofs`, for any finite set of questions, attempts and uses: `TypeCorrect` and
`OneIsAwaited` (`OneAwaited`). The invariant says of each user where it is: in the queue it waits and is
there once (`Queued`), the holder is in that part of its code that holds the lock (`Holding`), who
records is at the point where it does (`Recording`). Lemmas about `Append`, `Tail` and `RemoveFirst` on
queues without repetition keep the sequence out of the steps; the length of the queue follows from an
injection into the users.

`ConsoleProofs`, for any other clients, stops, uses and faults:

* `PauseAlwaysShown` (`PauseShown`). The invariant relates button and robot while the answer of a call
  is on its way (`Agreed`) and rests on there being one such call at a time (`OneCall`).
* `TypeCorrect` (`TypeOK`): among the types, that no client is in the list twice, so that taking one out
  leaves it out.
* `PopupAlwaysFollows` (`PopupFollows`). Each task that broadcasts sends what its state says
  (`JobFollows`); as long as no client went and no session was reset, all are in the list and none is
  dropped (`Wired`); and of every question in the screen's inbox or popup the end is either still to be
  told or further down the inbox (`Heard`). A broadcast reaches the screen at its place in the list,
  whoever else is in it, which is what the lemmas on the list are about.

`RecursionProofs` has what these need instead of the library's induction theorems, whose operator
parameters the provers cannot instantiate: a set of numbers has a least (and a bounded one a greatest)
element, a non-empty family of subsets of a finite set a least one, and a function defined by recursion
over numbers or over a finite set exists. A property is then shown by the least of its counterexamples.

Only model-checked: liveness (`HoldEnds`, `TasksEnd`, `StopAnswered`, `PutDown`, `NeverStranded`,
`CommandReturns`, `HearsAgain`, `WaitingEnds`), which needs `ENABLED` and is out of the prover's
reach. `ErasedIsAsked` and `LearnedIsExecuted` are expected to fail, and so is `NoWorkBeforeResume` when the
controller may stop.

## 5. Known divergences

Three have a run that finds them: a second EMERGENCY_STOP during a recovery is erased (`cell_erased`),
a deleted policy makes the one for "normal" apply (`policy_deleted`), and answers never lead to
automation (`policy_learned`). The others were seen in
counterexamples with the constants named, or met while reading, and say where the properties stop.

HITL (with `ResetWhen = "any"`, which the HMI offers):

* a session that was reset may still send a decision (`hitl_state_machine.py:504`);
* its left-over task takes the next session's future when its question has been spoken (428), and with
  it that session's answer, or cancels it by its time-out;
* `force_reset` publishes no RESUME, against its docstring (207), and without a destination calls no
  `force_redetect` (199-256); a STUCK session keeps the queue waiting, against lines 25-27.

Robot cell:

* a pause that comes during the wait for a decision does not stop the next pick
  (`box_sequence_test.py:912-923`, against 268-274 and the text at 470);
* the gripper stays closed after an apple is given up (1045-1053), against `grasp_force.py:16-17`;
* after a manual move the pose of the arm is not the one the picture was taken from (949-952);
* with `Faults = {"gripper"}`, `HandsEmpty` fails: `execute_recovery` only logs a gripper that does not
  open, and tracker and backend are told that it is empty, against `estop_handler.py:409-411`;
* with `Faults = {"query"}` the gripper may open off the box: a query of the controller that fails says
  that it does not stop (`safe_motion.py:192`), and a frozen arm whose z does not change is taken for
  contact after two seconds (`force_place.py:200-223`), against its docstring, by which the stop of
  the controller is noticed during the descent too (93-96). `ReleasedInPlace` excepts it (`unseen`);
* with `HwStops = "any"`, `ReadyAtCamera` fails: READY is published at `box_sequence_test.py:867`
  wherever a frozen arm stands, against the comment at 861-866.

Vision and consumer (`NeverStranded` fails with the fault named):

* an apple seen while PAUSED is thrown away and stays in the duplicate filter, and so does one that
  was given up (`"unnoticed"`), and one seen before the first READY was read (`"late"`);
* a reset without destination leaves the apple in the filter (`"reset"`);
* a call that is never answered ends the polling: `_pending_call` is reset by nobody else
  (`vision_bridge.py:288`);
* samples taken while the arm moves count for the majority at READY, against `main.py:186-189`; they
  are not thrown away when the object changes;
* an apple that was skipped is excluded from YOLO's boxes only and comes back as "unknown" by the
  search for blobs.

Policy:

* `bayesian_policy.py:17-18`, `decision_planner.py:58-61` and the repository's `README.md:5` say that
  consistent answers lead to automation. The consumer skips detections while a question is open, so the
  gate is always asked with `n = tau = 0`: the cost of a question is 0, the value of one is positive as
  long as beta is, and beta begins with the prior's 1. A policy learned from answers is always asked
  about (`policy_learned`); the ramp of the gate, and with it the case that
  `test_decision_planner_stage3.py:134-143` tests, never occurs (`NoBacklog`);
* the program's own log cannot be replayed as it is: an answer is a row of its own
  (`stage3_human_resolved`), which the replay does not read, and `actual_label` of the question's row
  stays NULL until somebody sets it by hand, in another vocabulary (`replay_session.py:84-90`);
* `force_reset` with a destination learns it as an answer and writes no `stage3_human_resolved` row
  (`hitl_state_machine.py:199-256`), against `decision_audit.py:21` and 357-361, by which every case a human
  settled has one; the decision it publishes has the destination of the policy after that, which may be
  another box than the one it was told;
* an answer that agrees with an operator's rule makes it a learned one, and so asked about again
  (`bayesian_policy.py:387-394`, against `database.py:75-77`);
* a spoken rule that names no box ("ask a human") while a question is open is recorded as its answer;
* the replay starts from the uniform prior and diverges from the cell with pooled priors;
* a bruised or small apple without a policy of its own is asked about, and learned, under the first
  condition of its list.

Microphone and speech:

* "one user at a time" (`mic_lock.py:4`) holds for who waits for a recording, not for the device: a
  cancelled recording goes on in its thread next to the following one (`abandoned`);
* a question is spoken without the lock, next to a recording of somebody else;
* an error while the listener reads the stream ends its task;
* a spoken rule is applied to the session that is open when it has been understood, not when it was
  spoken (`voice_policy.py:148`).

Screen:

* after a safety stop of the controller RESUME is confirmed before the recovery
  (`estop_handler.py:366-403`). The answer of the call closes the overlay, the message that the
  recovery begins opens it again, with its button disabled, and no message follows that enables it,
  against `dashboard.py:1063-1066`: `(button = "waiting") ~> (button # "waiting")` fails with
  `FaultKinds = {"block"}`. The robot works meanwhile; the screen stays locked;
* the same happens after an emergency stop whose call fails, and the answer to a RESUME may close the
  overlay of a second stop;
* `broadcast` goes over the live list: a client that leaves during it makes it pass over another one
  (`connection_manager.py:33`; `Others = {"other"}`, `"leave"`);
* a screen that connects again is not told what it has missed; a question that comes under the overlay
  is not shown afterwards; a popup stays after `force_reset` and keeps the next question away;
* the popup takes all input (`grab_set`), the emergency stop included, and so does a message box, which
  also stops the queue of messages.

## 6. Not modelled

* Image processing, coordinates (`wall_avoidance.py`, `vision_transform.py`), force and size
  arithmetic, audio: real-valued computations without state of their own. The models have their
  outcomes.
* `_query_apple_status` waits for the vision service without a time limit (`box_sequence_test.py:571`):
  `RobotCell` takes it that it answers. A wait that never ends has no property but that it never ends.
* The pid file (`box_sequence_test.py:97`), process start and shut-down, the launch files.
* `robot_controller_node.py`, which no launch file starts; the basket camera and its bridge, by which
  nothing in the cell decides; calibration and debugging aids, dry runs, the mock robot, reports.
* The second queue of the vision bridge, the labels, counts, pictures and texts of the screen, START
  and the text of policies in it; the queue limit of 1000 messages in `main.py`.
* Tables of the database that are only written, the routers that only read, and
  `POST /api/vision/result`, which no program of the repository calls.
* Prompts and parsing of the LLM, the spoken commands for the robot (they call the same functions as
  the routers).

`PROJECT.json` ("components") gives the status of each part and ("hazards") the places that no
property covers.
