------------------------------- MODULE Console -------------------------------
(***************************************************************************)
(* The administrator's screen (dashboard.py, client.py) and the way to and *)
(* from it: what the robot says goes through robot_bridge.py, the queue of *)
(* main.py and ConnectionManager.broadcast to the screens; what the        *)
(* operator presses goes as a REST call to robot_router.py or              *)
(* hitl_router.py.  The robot and the question are reduced to what the     *)
(* screen can see of them (RobotCell and HitlSession have the rest).       *)
(*                                                                         *)
(* Messages that only write a label, a picture, a count or the log are     *)
(* left out.  Definitions named ..._Slip are no part of the model: each is *)
(* the definition after it with a plausible mistake.                       *)
(***************************************************************************)
EXTENDS Integers, FiniteSets, SequencesExt

CONSTANTS
    Others,      \* the clients of the socket besides the operator's screen
    FaultKinds,  \* what may go wrong, a subset of AllFaults
    MaxFaults,   \* bound: faults
    MaxStops,    \* bound: emergency stops
    MaxUses      \* bound: questions and uses of the panels

\* block: a safety stop of the controller; drop: the screen loses its
\* connection; leave: another client goes; timeout: an answer of the backend
\* comes too late; unheard: a call does not get there;
\* reset: POST /api/robot/reset; voice: a spoken pause
AllFaults == {"block", "drop", "leave", "timeout", "unheard", "reset", "voice"}
Client    == {"hmi"} \cup Others

ASSUME ConsoleAssumption ==
    /\ IsFiniteSet(Others) /\ "hmi" \notin Others /\ FaultKinds \subseteq AllFaults
    /\ MaxFaults \in Nat /\ MaxStops \in Nat
    /\ MaxUses \in Nat

VARIABLES
    \* the robot
    robot,      \* what its main loop does
    stop,       \* emergency_stop
    pause,      \* pause_requested
    blocked,    \* the controller is in a safety stop
    \* the backend
    said,       \* broadcast_queue, the states in it
    conns,      \* ConnectionManager._connections
    job,        \* the broadcasts under way, one of each task
    session,    \* hitl_state_machine._current
    \* the screen
    up,         \* the clients whose socket is open
    inbox,      \* ws_queue
    estopped,   \* is_estopped
    button,     \* the button of the overlay
    paused,     \* is_paused
    popup,      \* the question hitl_popup shows, 0 if there is none
    dialogs,    \* the message boxes that wait to be dismissed
    calls,      \* the REST calls under way
    (* bounds and history *)
    count, faults

robotVars   == <<robot, stop, pause, blocked>>
backendVars == <<said, conns, job, session>>
screenVars  == <<estopped, button, paused, popup, dialogs>>
vars == <<robotVars, backendVars, screenVars, up, inbox, calls, count, faults>>

Idle      == [msg |-> <<>>, at |-> 0, dead |-> {}]
NoSession == [q |-> 0, st |-> "none"]
Call      == {"ESTOP", "PAUSE", "UNPAUSE", "RESUME", "ANSWER", "MANUAL"}

\* The calls stay on one machine: they are faster than a recovery and than
\* the operator, except for a stop he presses on top of something else.
Quiet == \A c \in Call : calls[c] = "none"

Init ==
    /\ robot = "run" /\ stop = FALSE /\ pause = FALSE /\ blocked = FALSE
    /\ said = <<>> /\ job = [t \in {"consumer", "hitl"} |-> Idle] /\ session = NoSession
    /\ conns \in SetToSeqs(Client) /\ up = Client
    /\ inbox = <<>> /\ estopped = FALSE /\ button = "none" /\ paused = FALSE
    /\ popup = 0 /\ dialogs = {}
    /\ calls = [c \in Call |-> "none"]
    /\ count = [stops |-> 0, uses |-> 0]
    /\ faults = {}

Spent(kind, max) == count[kind] < max /\ count' = [count EXCEPT ![kind] = @ + 1]

Goes(kind) == /\ kind \in FaultKinds /\ Cardinality(faults) < MaxFaults
              /\ kind \notin faults /\ faults' = faults \cup {kind}
---------------------------------------------------------------------------
(* The robot                                                               *)

\* check_and_recover is entered
RobotStops ==
    /\ robot = "run" /\ stop
    /\ IF blocked THEN robot' = "confirm" /\ said' = said \o <<"blocked", "wait">>
                  ELSE robot' = "recover" /\ said' = Append(said, "stop")
    /\ UNCHANGED <<stop, pause, blocked, conns, job, session, screenVars, up, inbox, calls,
                   count, faults>>

\* It stands at the camera: a recovery that was confirmed before goes on, any
\* other waits.
Recovered ==
    /\ robot \in {"recover", "confirmed"} /\ Quiet
    /\ stop' = FALSE
    /\ IF robot = "recover" THEN robot' = "waiting" /\ said' = Append(said, "wait")
                            ELSE robot' = "run" /\ UNCHANGED said
    /\ UNCHANGED <<pause, blocked, conns, job, session, screenVars, up, inbox, calls, count, faults>>

\* The safety stop is cleared, or it is one that software cannot clear
HwReset ==
    /\ robot = "reset"
    /\ \/ robot' = "confirmed" /\ blocked' = FALSE /\ said' = Append(said, "stop")
       \/ robot' = "run" /\ UNCHANGED <<blocked, said>>
    /\ UNCHANGED <<stop, pause, conns, job, session, screenVars, up, inbox, calls, count, faults>>

\* RESUME reaches it: it also ends a pause
Resumes ==
    /\ pause' = FALSE /\ UNCHANGED <<stop, blocked, said>>
    /\ robot' = CASE robot = "waiting" -> "run" [] robot = "confirm" -> "reset" [] OTHER -> robot

VoiceStop ==
    /\ Spent("stops", MaxStops) /\ stop' = TRUE
    /\ UNCHANGED <<robot, pause, blocked, backendVars, screenVars, up, inbox, calls, faults>>

VoicePause ==
    /\ Goes("voice") /\ pause' = TRUE
    /\ UNCHANGED <<robot, stop, blocked, backendVars, screenVars, up, inbox, calls, count>>

Block ==
    /\ Goes("block") /\ Spent("stops", MaxStops)
    /\ robot = "run" /\ ~stop /\ stop' = TRUE /\ blocked' = TRUE
    /\ UNCHANGED <<robot, pause, backendVars, screenVars, up, inbox, calls>>
---------------------------------------------------------------------------
(* The broadcasts                                                          *)

Start(t, msg) == job[t] = Idle /\ job' = [job EXCEPT ![t] = [msg |-> msg, at |-> 1, dead |-> {}]]

\* The queue consumer takes the next state
Take ==
    /\ said # <<>> /\ Start("consumer", <<Head(said), 0>>) /\ said' = Tail(said)
    /\ UNCHANGED <<robotVars, conns, session, screenVars, up, inbox, calls, count, faults>>

\* One send_json: the list is the live one, and may have changed since the
\* one before
SendNext(t) ==
    LET j == job[t]
    IN /\ j # Idle /\ j.at <= Len(conns)
       /\ IF conns[j.at] \in up
          THEN /\ inbox' = IF conns[j.at] = "hmi" THEN Append(inbox, j.msg) ELSE inbox
               /\ job' = [job EXCEPT ![t].at = @ + 1]
          ELSE /\ job' = [job EXCEPT ![t].at = @ + 1, ![t].dead = @ \cup {conns[j.at]}]
               /\ UNCHANGED inbox
       /\ UNCHANGED <<robotVars, said, conns, session, screenVars, up, calls, count, faults>>

\* The connections without those that are gone
Without(list, gone) ==
    LET kept[i \in 0..Len(list)] ==
          IF i = 0 THEN <<>>
          ELSE IF list[i] \in gone THEN kept[i - 1] ELSE Append(kept[i - 1], list[i])
    IN kept[Len(list)]

\* The broadcast ends, and the session's task goes on
SendDone(t) ==
    LET j == job[t]
    IN /\ j # Idle /\ j.at > Len(conns)
       /\ conns' = Without(conns, j.dead)
       /\ job' = [job EXCEPT ![t] = Idle]
       /\ session' = IF t = "consumer" THEN session
                     ELSE CASE session.st = "asking" -> [session EXCEPT !.st = "open"]
                            [] session.st = "ending" -> NoSession
                            [] OTHER -> session
       /\ UNCHANGED <<robotVars, said, screenVars, up, inbox, calls, count, faults>>

\* A socket closes, and its endpoint notices
Drop(c) ==
    /\ c \in up /\ up' = up \ {c}
    /\ Goes(IF c = "hmi" THEN "drop" ELSE "leave")
    /\ UNCHANGED <<robotVars, backendVars, screenVars, inbox, calls, count>>
Disconnect(c) ==
    /\ c \notin up /\ \E i \in DOMAIN conns : conns[i] = c
    /\ conns' = Without(conns, {c})
    /\ UNCHANGED <<robotVars, said, job, session, screenVars, up, inbox, calls, count, faults>>

\* The screen connects again, by a socket no broadcast holds for dead.
\* Nothing is told about what it has missed.
Reconnect ==
    /\ "hmi" \notin up /\ \A i \in DOMAIN conns : conns[i] # "hmi"
    /\ up' = up \cup {"hmi"} /\ conns' = Append(conns, "hmi")
    /\ job' = [t \in DOMAIN job |-> [job[t] EXCEPT !.dead = @ \ {"hmi"}]]
    /\ UNCHANGED <<robotVars, said, session, screenVars, inbox, calls, count, faults>>
---------------------------------------------------------------------------
(* The question                                                            *)

Ask ==
    /\ session = NoSession /\ Spent("uses", MaxUses)
    /\ session' = [q |-> count'.uses, st |-> "asking"]
    /\ Start("hitl", <<"ask", count'.uses>>)
    /\ UNCHANGED <<robotVars, said, conns, screenVars, up, inbox, calls, faults>>

VoiceAnswer ==
    /\ session.st = "open" /\ session' = [session EXCEPT !.st = "answered"]
    /\ UNCHANGED <<robotVars, said, conns, job, screenVars, up, inbox, calls, count, faults>>

\* The answer is taken, left for later, not understood, or was the last try
Conclude ==
    /\ session.st = "answered"
    /\ \/ \E end \in {"resolved", "skipped"} :
            session' = [session EXCEPT !.st = "ending"] /\ Start("hitl", <<end, session.q>>)
       \/ session' = [session EXCEPT !.st = "open"] /\ UNCHANGED job
       \/ session' = [session EXCEPT !.st = "stuck"] /\ Start("hitl", <<"stuck", session.q>>)
    /\ UNCHANGED <<robotVars, said, conns, screenVars, up, inbox, calls, count, faults>>

\* force_reset tells no screen
Reset ==
    /\ Goes("reset") /\ session.st \in {"open", "answered", "stuck"} /\ job["hitl"] = Idle
    /\ session' = NoSession
    /\ UNCHANGED <<robotVars, said, conns, job, screenVars, up, inbox, calls, count>>
---------------------------------------------------------------------------
(* What the screen hears                                                   *)

\* _enter_estop_ui with _show_emergency_overlay
Overlay_Slip == [on |-> TRUE, button |-> "none"]
Overlay == [on |-> TRUE, button |-> "waiting"]
Shown   == [on |-> estopped, button |-> button]

\* PROCESS_STATE: each of the three states opens the overlay, and "wait" also
\* enables its button, unless it is enabled or pressed already
HearState_Slip(s) ==
    LET now == IF estopped THEN Shown
               ELSE IF s = "wait" THEN [Overlay EXCEPT !.button = "ready"] ELSE Overlay
    IN estopped' = now.on /\ button' = now.button
HearState(s) ==
    LET now == IF estopped THEN Shown ELSE Overlay
    IN /\ estopped' = now.on
       /\ button' = IF s = "wait" /\ now.button = "waiting" THEN "ready" ELSE now.button

\* trigger_hitl_popup: not over the overlay, nor over another popup
HearAsk(q) == popup' = IF estopped \/ popup # 0 THEN popup ELSE q

\* What a message of a question does to <<popup, dialogs>>
HearEnd_Slip(s) ==
    CASE s = "resolved" -> popup' = popup /\ dialogs' = dialogs \cup {"resolved"}
      [] s = "skipped"  -> popup' = popup /\ dialogs' = dialogs
      [] s = "stuck"    -> popup' = popup /\ dialogs' = dialogs \cup {"stuck"}
HearEnd(s) ==
    CASE s = "resolved" -> popup' = popup /\ dialogs' = dialogs \cup {"resolved"}
      [] s = "skipped"  -> popup' = 0 /\ dialogs' = dialogs
      [] s = "stuck"    -> popup' = popup /\ dialogs' = dialogs \cup {"stuck"}

\* poll_ws_queue takes a message; a message box it has opened keeps it from
\* the next
Poll ==
    /\ inbox # <<>> /\ dialogs \cap {"resolved", "stuck"} = {}
    /\ LET m == Head(inbox)
       IN CASE m[1] \in {"stop", "wait", "blocked"} ->
                 HearState(m[1]) /\ UNCHANGED <<popup, dialogs>>
            [] m[1] = "ask" ->
                 HearAsk(m[2]) /\ UNCHANGED <<estopped, button, dialogs>>
            [] OTHER ->
                 HearEnd(m[1]) /\ UNCHANGED <<estopped, button>>
    /\ inbox' = Tail(inbox)
    /\ UNCHANGED <<robotVars, backendVars, paused, up, calls, count, faults>>

\* The box is dismissed and the code behind it goes on
Dismiss(d) ==
    /\ d \in dialogs /\ dialogs' = dialogs \ {d}
    /\ popup'  = IF d = "resolved" THEN 0 ELSE popup
    /\ button' = IF d = "retry" /\ button # "none" THEN "ready" ELSE button
    /\ UNCHANGED <<robotVars, backendVars, estopped, paused, up, inbox, calls, count, faults>>
---------------------------------------------------------------------------
(* What the operator presses                                               *)

\* A message box, then the popup, takes every click; the overlay covers the
\* panels
PopupFree == dialogs = {}
PanelFree == dialogs = {} /\ popup = 0 /\ ~estopped

Post(c) == (Quiet \/ (c = "ESTOP" /\ calls[c] = "none")) /\ calls' = [calls EXCEPT ![c] = "sent"]

PressEstop ==
    /\ PanelFree /\ Post("ESTOP") /\ Spent("stops", MaxStops)
    /\ estopped' = TRUE /\ button' = "waiting"
    /\ UNCHANGED <<robotVars, backendVars, paused, popup, dialogs, up, inbox, faults>>

PressPause ==
    /\ PanelFree /\ Post(IF paused THEN "UNPAUSE" ELSE "PAUSE") /\ Spent("uses", MaxUses)
    /\ UNCHANGED <<robotVars, backendVars, screenVars, up, inbox, faults>>

PressManual ==
    /\ PanelFree /\ Post("MANUAL") /\ Spent("uses", MaxUses)
    /\ UNCHANGED <<robotVars, backendVars, screenVars, up, inbox, faults>>

PressResume ==
    /\ dialogs = {} /\ popup = 0 /\ button = "ready" /\ Post("RESUME")
    /\ button' = "sending"
    /\ UNCHANGED <<robotVars, backendVars, estopped, paused, popup, dialogs, up, inbox, count, faults>>

PressAnswer ==
    /\ PopupFree /\ popup # 0 /\ Post("ANSWER")
    /\ UNCHANGED <<robotVars, backendVars, screenVars, up, inbox, count, faults>>

ClosePopup ==
    /\ PopupFree /\ popup # 0 /\ popup' = 0
    /\ UNCHANGED <<robotVars, backendVars, estopped, button, paused, dialogs, up, inbox, calls,
                   count, faults>>
---------------------------------------------------------------------------
(* The calls                                                               *)

\* What the routers do with a call
Effect(c) ==
    CASE c = "ESTOP"  -> stop' = TRUE /\ UNCHANGED <<robot, pause, blocked, said, session>>
      [] c = "PAUSE"  -> pause' = TRUE /\ UNCHANGED <<robot, stop, blocked, said, session>>
      [] c \in {"UNPAUSE", "RESUME"} -> Resumes /\ UNCHANGED session
      [] c = "ANSWER" -> /\ session.st = "open" /\ session' = [session EXCEPT !.st = "answered"]
                         /\ UNCHANGED <<robotVars, said>>
      [] OTHER -> UNCHANGED <<robotVars, said, session>>

Handle(c) ==
    /\ calls[c] = "sent" /\ Effect(c) /\ calls' = [calls EXCEPT ![c] = "ok"]
    /\ UNCHANGED <<conns, job, screenVars, up, inbox, count, faults>>

\* receive_feedback: no question waits for an answer
Conflict ==
    /\ calls["ANSWER"] = "sent" /\ session.st # "open"
    /\ calls' = [calls EXCEPT !["ANSWER"] = "failed"]
    /\ UNCHANGED <<robotVars, backendVars, screenVars, up, inbox, count, faults>>

\* The call does not get there, or its answer does not get back in time
Refuse(c) ==
    /\ calls[c] = "sent" /\ calls' = [calls EXCEPT ![c] = "failed"] /\ Goes("unheard")
    /\ UNCHANGED <<robotVars, backendVars, screenVars, up, inbox, count>>
Timeout(c) ==
    /\ calls[c] = "ok" /\ calls' = [calls EXCEPT ![c] = "failed"] /\ Goes("timeout")
    /\ UNCHANGED <<robotVars, backendVars, screenVars, up, inbox, count>>

\* _clear_emergency_overlay: the robot takes RESUME for the end of a pause too
ClearOverlay_Slip == estopped' = FALSE /\ button' = "none" /\ UNCHANGED paused
ClearOverlay == estopped' = FALSE /\ button' = "none" /\ paused' = FALSE

\* on_success
Succeed(c) ==
    /\ calls[c] = "ok" /\ calls' = [calls EXCEPT ![c] = "none"]
    /\ CASE c = "RESUME" -> ClearOverlay /\ UNCHANGED dialogs
         [] c \in {"PAUSE", "UNPAUSE"} ->
              paused' = (c = "PAUSE") /\ UNCHANGED <<estopped, button, dialogs>>
         [] c = "MANUAL" -> dialogs' = dialogs \cup {"call"} /\ UNCHANGED <<estopped, button, paused>>
         [] OTHER -> UNCHANGED <<estopped, button, paused, dialogs>>
    /\ UNCHANGED <<robotVars, backendVars, popup, up, inbox, count, faults>>

\* on_error: the button of the overlay works again once the box is dismissed
ErrorBox_Slip(c) == IF c = "ANSWER" THEN {} ELSE {"call"}
ErrorBox(c) == CASE c = "RESUME" -> {"retry"} [] c = "ANSWER" -> {} [] OTHER -> {"call"}
Fail(c) ==
    /\ calls[c] = "failed" /\ calls' = [calls EXCEPT ![c] = "none"]
    /\ dialogs' = dialogs \cup ErrorBox(c)
    /\ UNCHANGED <<robotVars, backendVars, estopped, button, paused, popup, up, inbox, count, faults>>
---------------------------------------------------------------------------
Robot    == RobotStops \/ Recovered \/ HwReset \/ VoiceStop \/ VoicePause \/ Block
Sending  == Take \/ (\E t \in DOMAIN job : SendNext(t) \/ SendDone(t))
Question == Ask \/ VoiceAnswer \/ Conclude \/ Reset
Screen   == Poll \/ (\E d \in dialogs : Dismiss(d))
Operator == PressEstop \/ PressPause \/ PressManual \/ PressResume \/ PressAnswer \/ ClosePopup
Calling(c) == \/ Handle(c) \/ Refuse(c) \/ Timeout(c) \/ Succeed(c) \/ Fail(c)
              \/ (c = "ANSWER" /\ Conflict)
Sockets  == Reconnect \/ (\E c \in Client : Drop(c) \/ Disconnect(c))

Next == Robot \/ Sending \/ Question \/ Screen \/ Operator \/ (\E c \in Call : Calling(c)) \/ Sockets

(* The threads and tasks go on, and so does the operator: he dismisses     *)
(* every box, closes a popup he does not answer, and presses the overlay's *)
(* button when it can be pressed.  Besides the stop one call is under way. *)
Fairness ==
    /\ WF_vars(RobotStops \/ Recovered \/ HwReset)
    /\ WF_vars(Take) /\ \A t \in {"consumer", "hitl"} : WF_vars(SendNext(t) \/ SendDone(t))
    /\ WF_vars(Poll) /\ WF_vars(\E d \in dialogs : Dismiss(d))
    /\ WF_vars(Calling("ESTOP")) /\ WF_vars(\E c \in Call \ {"ESTOP"} : Calling(c))
    /\ WF_vars(PressResume) /\ WF_vars(ClosePopup)

Spec == Init /\ [][Next]_vars /\ Fairness
---------------------------------------------------------------------------
(* Properties                                                              *)

Text    == {"stop", "wait", "blocked"}
Message == (Text \X {0}) \cup ({"ask", "resolved", "skipped", "stuck"} \X (1..MaxUses))

TypeOK ==
    /\ robot \in {"run", "recover", "waiting", "confirm", "reset", "confirmed"}
    /\ {stop, pause, blocked, estopped, paused} \subseteq BOOLEAN
    /\ said \in Seq(Text) /\ inbox \in Seq(Message)
    /\ conns \in Seq(Client) /\ IsInjective(conns) /\ up \subseteq Client
    /\ \A t \in {"consumer", "hitl"} :
         job[t] # Idle => job[t].msg \in Message /\ job[t].dead \subseteq Client
    /\ session.q \in 0..MaxUses
    /\ session.st \in {"none", "asking", "open", "answered", "ending", "stuck"}
    /\ (button = "none") = ~estopped
    /\ button \in {"none", "waiting", "ready", "sending"}
    /\ popup \in 0..MaxUses /\ dialogs \subseteq {"resolved", "stuck", "call", "retry"}
    /\ calls \in [Call -> {"none", "sent", "ok", "failed"}]
    /\ faults \subseteq FaultKinds

(* When no call is under way the pause button says what the robot does:    *)
(* pressing it will have the effect it names, whatever stops and resumes   *)
(* came between (dashboard.py:955, 1149), as long as nobody pauses by      *)
(* voice and no answer of the backend is late.                             *)
PauseShown == Quiet /\ faults \cap {"voice", "timeout"} = {} => paused = pause

(* The popup is about the question that is open, or the end of its         *)
(* question is on its way to the screen (dashboard.py:272), unless a       *)
(* client went or the session was reset.                                   *)
PopupFollows ==
    popup # 0 /\ faults \cap {"drop", "leave", "reset"} = {} =>
        \/ session.q = popup
        \/ \E i \in DOMAIN inbox : inbox[i] \in {<<"resolved", popup>>, <<"skipped", popup>>}
        \/ "resolved" \in dialogs

(* A robot that stands and waits to be resumed (estop_handler.py:429) is   *)
(* resumed, by an operator who has nothing but the screen, unless a client *)
(* went or the controller stops the arm, whatever calls fail or are late.  *)
Harmed == faults \cap {"drop", "leave", "block"} # {}
WaitingEnds == (robot = "waiting" /\ ~Harmed) ~> (robot # "waiting" \/ Harmed)
=============================================================================
