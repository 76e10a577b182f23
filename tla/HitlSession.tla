---------------------------- MODULE HitlSession ----------------------------
(***************************************************************************)
(* The human-in-the-loop state machine of the backend                      *)
(* (backend/state/hitl_state_machine.py): one question to the operator at  *)
(* a time, a FIFO of requests behind it, re-asking, STUCK, and the forced  *)
(* reset by the administrator.                                             *)
(*                                                                         *)
(* Everything runs on one asyncio event loop.  A coroutine is interleaved  *)
(* only where it really suspends, so an action is the code between two     *)
(* suspension points: the WebSocket broadcasts, the TTS playback, the wait *)
(* for the answer, the LLM interpretation and the grace sleep.  `_lock' is *)
(* never held across a suspension, hence never contended, and question     *)
(* generation does not suspend (llm_service.generate_unknown_question      *)
(* builds a fixed sentence).                                               *)
(*                                                                         *)
(* A request is one ask_human decision for one object; each request gets   *)
(* one HITLSession, and causes one `_run_session' task, named here after   *)
(* the request.  A task runs the session that `_current' names when the    *)
(* task first gets the loop, which need not be the request's own.          *)
(*                                                                         *)
(* Definitions named ..._Slip are no part of the model: each is the        *)
(* definition after it with one plausible mistake, to see which property   *)
(* notices.                                                                *)
(***************************************************************************)
EXTENDS Naturals, Sequences

CONSTANTS
    Request,      \* the ask_human requests
    NoRequest,    \* Python's None
    MaxAttempts,  \* settings.hitl_max_reask_attempts
    AskWhileBusy, \* may handle_ask_human be called while a session is current?
    ResetWhen     \* when the administrator resets: "never", "stuck" or "any"

ASSUME HitlAssumption ==
    /\ NoRequest \notin Request
    /\ MaxAttempts \in Nat
    /\ AskWhileBusy \in BOOLEAN
    /\ ResetWhen \in {"never", "stuck", "any"}

VARIABLES
    current,       \* _current
    pending,       \* _pending
    answerFuture,  \* _answer_future: the task whose latest future it is
    phase,         \* HITLSession.state of each request's session
    attempt,       \* HITLSession.attempt
    pc,            \* where each task is suspended
    runs,          \* the session each task runs
    future,        \* the latest answer future each task created
    waits,         \* the future a waiting task waits for
    answer,        \* the answer a task woke up with: the session it was meant for
    (* what the outside saw *)
    asked,         \* requests in the order handle_ask_human took them
    served,        \* requests in the order they became _current
    decisions,     \* publish_decision_result calls for each request
    outcome,       \* how each session left _current
    lastCommand    \* last /robot/command this state machine published

sessionVars == <<current, pending, answerFuture, phase, attempt>>
taskVars    == <<pc, runs, future, waits, answer>>
historyVars == <<asked, served, decisions, outcome, lastCommand>>
vars        == <<sessionVars, taskVars, historyVars>>

MaybeRequest == Request \cup {NoRequest}

Phases == {"IDLE", "HOLD", "ASKING", "LISTENING", "INTERPRETING", "STUCK"}

(* "none": not asked.  "queued": in _pending.  "grace": the coroutine that *)
(* popped the request sleeps.  "released", "created": the task exists but  *)
(* has not run.                                                            *)
(* "hold": VLA_ASK_HUMAN is being broadcast.  "answered", "cancelled": the *)
(* future it waited for is done, the wake-up is scheduled.  "resolved",    *)
(* "skipped", "stuck": the closing broadcast is under way.                 *)
Unstarted == {"grace", "released", "created"}
Live == {"hold", "speaking", "waiting", "answered", "cancelled",
         "interpreting", "resolved", "skipped", "stuck"}
PCs  == {"none", "queued", "done"} \cup Unstarted \cup Live

Futures  == [st : {"none", "open", "set", "cancelled"}, for : MaybeRequest]
Outcomes == {"open", "resolved", "skipped", "reset", "dropped"}

NoFuture == [st |-> "none", for |-> NoRequest]
Open     == [st |-> "open", for |-> NoRequest]
Cancelled(f) == [f EXCEPT !.st = "cancelled"]

Init ==
    /\ current = NoRequest
    /\ pending = <<>>
    /\ answerFuture = NoRequest
    /\ phase = [r \in Request |-> "IDLE"]
    /\ attempt = [r \in Request |-> 0]
    /\ pc = [r \in Request |-> "none"]
    /\ runs = [r \in Request |-> NoRequest]
    /\ future = [r \in Request |-> NoFuture]
    /\ waits = [r \in Request |-> NoRequest]
    /\ answer = [r \in Request |-> NoRequest]
    /\ asked = <<>>
    /\ served = <<>>
    /\ decisions = [r \in Request |-> 0]
    /\ outcome = [r \in Request |-> "open"]
    /\ lastCommand = "none"

---------------------------------------------------------------------------
(* Shared pieces of the handlers.  `pcs' and `futs' are the values pc and  *)
(* future have reached within the step.                                    *)

\* The future of task f is done: the wake-up of the tasks waiting for it is
\* scheduled.
Woken(f, to)  == [t \in Request |-> IF waits[t] = f THEN to ELSE pc[t]]
NoLonger(f)   == [t \in Request |-> IF waits[t] = f THEN NoRequest ELSE waits[t]]

\* pop() for popleft()
StartNextPending_Slip(pcs) ==
    IF pending = <<>>
    THEN /\ current' = NoRequest
         /\ pc' = pcs
         /\ UNCHANGED <<pending, served>>
    ELSE LET last == pending[Len(pending)] IN
         /\ current' = last
         /\ pending' = SubSeq(pending, 1, Len(pending) - 1)
         /\ served' = Append(served, last)
         /\ pc' = [pcs EXCEPT ![last] = "grace"]

\* _start_next_pending up to its grace sleep, called with _current = None
StartNextPending(pcs) ==
    IF pending = <<>>
    THEN /\ current' = NoRequest
         /\ pc' = pcs
         /\ UNCHANGED <<pending, served>>
    ELSE /\ current' = Head(pending)
         /\ pending' = Tail(pending)
         /\ served' = Append(served, Head(pending))
         /\ pc' = [pcs EXCEPT ![Head(pending)] = "grace"]

OwnsCurrent_StuckSlip(t, ph) == current = runs[t]
OwnsCurrent_OwnerSlip(t, ph) == current # NoRequest /\ ph # "STUCK"

\* the condition should_cleanup of _run_session's finally clause, with the
\* session in state ph
OwnsCurrent(t, ph) == current = runs[t] /\ ph # "STUCK"

\* _run_session's finally clause, and the end of the task
Finally(t, ph, how) ==
    /\ runs' = [runs EXCEPT ![t] = NoRequest]
    /\ IF OwnsCurrent(t, ph)
       THEN /\ answerFuture' = NoRequest
            /\ outcome' = [outcome EXCEPT ![runs[t]] = how]
            /\ StartNextPending([pc EXCEPT ![t] = "done"])
       ELSE /\ pc' = [pc EXCEPT ![t] = "done"]
            /\ UNCHANGED <<answerFuture, outcome, current, pending, served>>

\* asked once more than the setting says
AskOrGiveUp_Slip(t, n, pcs, futs) ==
    LET s == runs[t] IN
    /\ attempt' = [attempt EXCEPT ![s] = n]
    /\ IF n <= MaxAttempts
       THEN /\ phase' = [phase EXCEPT ![s] = "ASKING"]
            /\ pc' = [pcs EXCEPT ![t] = "speaking"]
            /\ future' = [futs EXCEPT ![t] = Open]
            /\ answerFuture' = t
       ELSE /\ phase' = [phase EXCEPT ![s] = "STUCK"]
            /\ pc' = [pcs EXCEPT ![t] = "stuck"]
            /\ future' = futs
            /\ UNCHANGED answerFuture

\* The while loop of _run_session with n attempts used: ask again (a new
\* answer future, then the question is spoken) or give up.
AskOrGiveUp(t, n, pcs, futs) ==
    LET s == runs[t] IN
    /\ attempt' = [attempt EXCEPT ![s] = n]
    /\ IF n < MaxAttempts
       THEN /\ phase' = [phase EXCEPT ![s] = "ASKING"]
            /\ pc' = [pcs EXCEPT ![t] = "speaking"]
            /\ future' = [futs EXCEPT ![t] = Open]
            /\ answerFuture' = t
       ELSE /\ phase' = [phase EXCEPT ![s] = "STUCK"]
            /\ pc' = [pcs EXCEPT ![t] = "stuck"]
            /\ future' = futs
            /\ UNCHANGED answerFuture

\* the error is logged, the state stays what it was
Fail_Slip(t) ==
    /\ UNCHANGED phase
    /\ pc' = [pc EXCEPT ![t] = "stuck"]

\* the `except Exception' clause of _run_session
Fail(t) ==
    /\ phase' = [phase EXCEPT ![runs[t]] = "STUCK"]
    /\ pc' = [pc EXCEPT ![t] = "stuck"]

\* _answer_future is filled in with an answer meant for session r
AnswerOpen == answerFuture # NoRequest /\ future[answerFuture].st = "open"

Submit(r) ==
    /\ AnswerOpen
    /\ future' = [future EXCEPT ![answerFuture] = [st |-> "set", for |-> r]]
    /\ pc' = Woken(answerFuture, "answered")
    /\ waits' = NoLonger(answerFuture)
    /\ answer' = [t \in Request |-> IF waits[t] = answerFuture THEN r ELSE answer[t]]
    /\ UNCHANGED <<sessionVars, runs, historyVars>>
---------------------------------------------------------------------------
(* Handlers called from outside *)

\* a second session starts beside the current one
AskHuman_Slip(r) ==
    /\ pc[r] = "none"
    /\ AskWhileBusy \/ current = NoRequest
    /\ \A t \in Request : pc[t] # "created"
    /\ asked' = Append(asked, r)
    /\ current' = r
    /\ served' = Append(served, r)
    /\ pc' = [pc EXCEPT ![r] = "created"]
    /\ UNCHANGED <<pending, answerFuture, phase, attempt, runs, future, waits, answer,
                   decisions, outcome, lastCommand>>

(* handle_ask_human.  The consumer loop is its only caller and has to      *)
(* suspend before it calls again; the event loop's ready queue is FIFO, so *)
(* the task of its previous call has begun by then.  The class is written  *)
(* for requests that come while a session is current; the consumer loop    *)
(* drops those detections before it decides (AskWhileBusy = FALSE).        *)
AskHuman(r) ==
    /\ pc[r] = "none"
    /\ AskWhileBusy \/ current = NoRequest
    /\ \A t \in Request : pc[t] # "created"
    /\ asked' = Append(asked, r)
    /\ IF current # NoRequest
       THEN /\ pending' = Append(pending, r)
            /\ pc' = [pc EXCEPT ![r] = "queued"]
            /\ UNCHANGED <<current, served>>
       ELSE /\ current' = r
            /\ served' = Append(served, r)
            /\ pc' = [pc EXCEPT ![r] = "created"]
            /\ UNCHANGED pending
    /\ UNCHANGED <<answerFuture, phase, attempt, runs, future, waits, answer,
                   decisions, outcome, lastCommand>>

\* POST /api/feedback: the operator answers the session the HMI shows
AnswerOnHmi ==
    /\ current # NoRequest
    /\ Submit(current)

\* _listen_via_stt of task t heard an answer to the question t asked
AnswerByVoice(t) ==
    /\ pc[t] = "waiting"
    /\ Submit(runs[t])

\* which sessions the administrator resets in this instance
MayReset ==
    /\ current # NoRequest
    /\ \/ ResetWhen = "any"
       \/ ResetWhen = "stuck" /\ phase[current] = "STUCK"

(* force_reset up to its grace sleep; `decide' says whether the            *)
(* administrator names a destination.                                      *)
ForceReset(decide) ==
    /\ MayReset
    /\ decisions' = IF decide THEN [decisions EXCEPT ![current] = @ + 1] ELSE decisions
    /\ outcome' = [outcome EXCEPT ![current] = "reset"]
    /\ answerFuture' = NoRequest
    /\ IF AnswerOpen
       THEN /\ future' = [future EXCEPT ![answerFuture] = Cancelled(@)]
            /\ waits' = NoLonger(answerFuture)
            /\ StartNextPending(Woken(answerFuture, "cancelled"))
       ELSE /\ UNCHANGED <<future, waits>>
            /\ StartNextPending(pc)
    /\ UNCHANGED <<phase, attempt, runs, answer, asked, lastCommand>>
---------------------------------------------------------------------------
(* The `_run_session' tasks *)

\* the grace sleep of _start_next_pending is over
GraceOver(t) ==
    /\ pc[t] = "grace"
    /\ pc' = [pc EXCEPT ![t] = "released"]
    /\ UNCHANGED <<sessionVars, runs, future, waits, answer, historyVars>>

\* The task runs for the first time: it takes the session _current names,
\* or fails its assertion when a reset emptied _current.
Begin(t) ==
    /\ pc[t] \in {"released", "created"}
    /\ IF current = NoRequest
       THEN /\ pc' = [pc EXCEPT ![t] = "done"]
            /\ UNCHANGED <<runs, phase, lastCommand>>
       ELSE /\ pc' = [pc EXCEPT ![t] = "hold"]
            /\ runs' = [runs EXCEPT ![t] = current]
            /\ phase' = [phase EXCEPT ![current] = "HOLD"]
            /\ lastCommand' = "HOLD"
    /\ UNCHANGED <<current, pending, answerFuture, attempt, future, waits, answer,
                   asked, served, decisions, outcome>>

\* VLA_ASK_HUMAN is out: enter the loop
HoldAnnounced(t) ==
    /\ pc[t] = "hold"
    /\ AskOrGiveUp(t, attempt[runs[t]], pc, future)
    /\ UNCHANGED <<current, pending, runs, waits, answer, historyVars>>

(* The question is spoken.  From here the task waits for whatever          *)
(* `_answer_future' holds now, not for the future it created.              *)
ListenOpen(t) ==
    /\ pc[t] = "speaking"
    /\ AnswerOpen
    /\ phase' = [phase EXCEPT ![runs[t]] = "LISTENING"]
    /\ pc' = [pc EXCEPT ![t] = "waiting"]
    /\ waits' = [waits EXCEPT ![t] = answerFuture]
    /\ UNCHANGED <<current, pending, answerFuture, attempt, runs, future, answer, historyVars>>

\* the answer came while the question was being spoken
ListenAnswered(t) ==
    /\ pc[t] = "speaking"
    /\ answerFuture # NoRequest
    /\ future[answerFuture].st = "set"
    /\ phase' = [phase EXCEPT ![runs[t]] = "INTERPRETING"]
    /\ pc' = [pc EXCEPT ![t] = "interpreting"]
    /\ answer' = [answer EXCEPT ![t] = future[answerFuture].for]
    /\ UNCHANGED <<current, pending, answerFuture, attempt, runs, future, waits, historyVars>>

\* another task's timeout cancelled the future: CancelledError ends the task
ListenCancelled(t) ==
    /\ pc[t] = "speaking"
    /\ answerFuture # NoRequest
    /\ future[answerFuture].st = "cancelled"
    /\ phase' = [phase EXCEPT ![runs[t]] = "LISTENING"]
    /\ Finally(t, "LISTENING", "dropped")
    /\ UNCHANGED <<attempt, future, waits, answer, asked, decisions, lastCommand>>

\* a reset emptied _answer_future: wait_for(None) raises TypeError
ListenOrphaned(t) ==
    /\ pc[t] = "speaking"
    /\ answerFuture = NoRequest
    /\ Fail(t)
    /\ UNCHANGED <<current, pending, answerFuture, attempt, runs, future, waits, answer,
                   historyVars>>
---------------------------------------------------------------------------
\* the attempt is not counted
AnswerTimeout_Slip(t) ==
    /\ pc[t] = "waiting"
    /\ AskOrGiveUp(t, attempt[runs[t]],
                   Woken(waits[t], "cancelled"),
                   [future EXCEPT ![waits[t]] = Cancelled(@)])
    /\ waits' = NoLonger(waits[t])
    /\ UNCHANGED <<current, pending, runs, answer, historyVars>>

\* hitl_response_timeout_sec passed: wait_for cancels the future, ask again
AnswerTimeout(t) ==
    /\ pc[t] = "waiting"
    /\ AskOrGiveUp(t, attempt[runs[t]] + 1,
                   Woken(waits[t], "cancelled"),
                   [future EXCEPT ![waits[t]] = Cancelled(@)])
    /\ waits' = NoLonger(waits[t])
    /\ UNCHANGED <<current, pending, runs, answer, historyVars>>

(* The timer fires after the future was set or cancelled and before the   *)
(* task runs.  From Python 3.12 on wait_for then raises TimeoutError, the  *)
(* answer is lost and a cancellation goes unnoticed; before, the future    *)
(* wins (AnswerTaken, TaskCancelled).  The code runs on either.            *)
TimeoutBeatsWakeUp(t) ==
    /\ pc[t] \in {"answered", "cancelled"}
    /\ AskOrGiveUp(t, attempt[runs[t]] + 1, pc, future)
    /\ answer' = [answer EXCEPT ![t] = NoRequest]
    /\ UNCHANGED <<current, pending, runs, waits, historyVars>>

AnswerTaken(t) ==
    /\ pc[t] = "answered"
    /\ phase' = [phase EXCEPT ![runs[t]] = "INTERPRETING"]
    /\ pc' = [pc EXCEPT ![t] = "interpreting"]
    /\ UNCHANGED <<current, pending, answerFuture, attempt, runs, future, waits, answer,
                   historyVars>>

\* the clean-up is not in a finally clause
TaskCancelled_Slip(t) ==
    /\ pc[t] = "cancelled"
    /\ pc' = [pc EXCEPT ![t] = "done"]
    /\ runs' = [runs EXCEPT ![t] = NoRequest]
    /\ UNCHANGED <<sessionVars, future, waits, answer, historyVars>>

\* CancelledError is no Exception: only the finally clause runs
TaskCancelled(t) ==
    /\ pc[t] = "cancelled"
    /\ Finally(t, phase[runs[t]], "dropped")
    /\ UNCHANGED <<phase, attempt, future, waits, answer, asked, decisions, lastCommand>>

\* the attempt is not counted
InterpretedUnclear_Slip(t) ==
    /\ pc[t] = "interpreting"
    /\ AskOrGiveUp(t, attempt[runs[t]], pc, future)
    /\ answer' = [answer EXCEPT ![t] = NoRequest]
    /\ UNCHANGED <<current, pending, runs, waits, historyVars>>

\* the LLM found the answer ambiguous, or failed in a way the code expects
InterpretedUnclear(t) ==
    /\ pc[t] = "interpreting"
    /\ AskOrGiveUp(t, attempt[runs[t]] + 1, pc, future)
    /\ answer' = [answer EXCEPT ![t] = NoRequest]
    /\ UNCHANGED <<current, pending, runs, waits, historyVars>>

\* "skip": set_skip_position, HITL_SKIPPED
InterpretedSkip(t) ==
    /\ pc[t] = "interpreting"
    /\ pc' = [pc EXCEPT ![t] = "skipped"]
    /\ answer' = [answer EXCEPT ![t] = NoRequest]
    /\ UNCHANGED <<sessionVars, runs, future, waits, historyVars>>

\* no `return True' after the decision is out
InterpretedDestination_Slip(t) ==
    /\ pc[t] = "interpreting"
    /\ AskOrGiveUp(t, attempt[runs[t]] + 1, pc, future)
    /\ decisions' = [decisions EXCEPT ![runs[t]] = @ + 1]
    /\ answer' = [answer EXCEPT ![t] = NoRequest]
    /\ UNCHANGED <<current, pending, runs, waits, asked, served, outcome, lastCommand>>

\* a destination: learn it, publish the decision, HITL_RESOLVED
InterpretedDestination(t) ==
    /\ pc[t] = "interpreting"
    /\ pc' = [pc EXCEPT ![t] = "resolved"]
    /\ decisions' = [decisions EXCEPT ![runs[t]] = @ + 1]
    /\ answer' = [answer EXCEPT ![t] = NoRequest]
    /\ UNCHANGED <<sessionVars, runs, future, waits, asked, served, outcome, lastCommand>>

\* any other exception: the audio file, an API error, the database
UnexpectedError(t) ==
    /\ pc[t] \in {"speaking", "interpreting"}
    /\ Fail(t)
    /\ answer' = [answer EXCEPT ![t] = NoRequest]
    /\ UNCHANGED <<current, pending, answerFuture, attempt, runs, future, waits, historyVars>>

\* the closing broadcast is out: run the finally clause
Closed(t) ==
    /\ pc[t] \in {"resolved", "skipped", "stuck"}
    /\ Finally(t, phase[runs[t]], IF pc[t] = "stuck" THEN "dropped" ELSE pc[t])
    /\ UNCHANGED <<phase, attempt, future, waits, answer, asked, decisions, lastCommand>>

Listen(t) == ListenOpen(t) \/ ListenAnswered(t) \/ ListenCancelled(t) \/ ListenOrphaned(t)

Interpreted(t) == InterpretedUnclear(t) \/ InterpretedSkip(t) \/ InterpretedDestination(t)

TaskStep(t) ==
    \/ GraceOver(t) \/ Begin(t) \/ HoldAnnounced(t)
    \/ Listen(t)
    \/ AnswerTimeout(t) \/ TimeoutBeatsWakeUp(t) \/ AnswerTaken(t) \/ TaskCancelled(t)
    \/ Interpreted(t) \/ UnexpectedError(t) \/ Closed(t)

Next ==
    \/ \E r \in Request : AskHuman(r)
    \/ AnswerOnHmi
    \/ \E t \in Request : AnswerByVoice(t)
    \/ \E decide \in BOOLEAN : ForceReset(decide)
    \/ \E t \in Request : TaskStep(t)

Spec == Init /\ [][Next]_vars

(* The event loop runs every ready coroutine; broadcasts, TTS and LLM      *)
(* calls end (with a timeout or an error if need be), and so do the grace  *)
(* sleep and the wait for an answer.  Nothing is assumed of the operator   *)
(* or the administrator.                                                   *)
LoopFairness == \A t \in Request : WF_vars(TaskStep(t))
FairSpec == Spec /\ LoopFairness
---------------------------------------------------------------------------
(* Properties *)

Typed ==
    /\ current \in MaybeRequest
    /\ pending \in Seq(Request)
    /\ answerFuture \in MaybeRequest
    /\ phase \in [Request -> Phases]
    /\ attempt \in [Request -> Nat]
    /\ pc \in [Request -> PCs]
    /\ runs \in [Request -> MaybeRequest]
    /\ future \in [Request -> Futures]
    /\ waits \in [Request -> MaybeRequest]
    /\ answer \in [Request -> MaybeRequest]
    /\ asked \in Seq(Request)
    /\ served \in Seq(Request)
    /\ decisions \in [Request -> Nat]
    /\ outcome \in [Request -> Outcomes]
    /\ lastCommand \in {"none", "HOLD"}

\* Every variable has its type, and no session uses more attempts than
\* hitl_max_reask_attempts: time-outs, unclear answers and a timer that
\* beats an answer count alike, and only its own task counts.
TypeOK == Typed /\ \A r \in Request : attempt[r] <= MaxAttempts

\* Requests become the current session in the order handle_ask_human took
\* them, none is lost or served twice, and none waits while no session is
\* current: nobody would ever pop it (_start_next_pending is the only one).
ServedInOrder ==
    /\ asked = served \o pending
    /\ current = NoRequest => pending = <<>>

\* The current session has a task that drives it or is about to take it,
\* or is STUCK and waits for the administrator: it never occupies _current,
\* with the robot held, on behalf of nobody.
CurrentIsDriven ==
    current # NoRequest =>
        \/ phase[current] = "STUCK"
        \/ pc[current] \in Unstarted
        \/ \E t \in Request : pc[t] \in Live /\ runs[t] = current

\* A STUCK session stays current until the administrator resets it, even if
\* a late task of the same or another session ends meanwhile.
StuckKeepsCurrent ==
    [][ \A s \in Request :
          (current = s /\ phase[s] = "STUCK" /\ current' # s) => outcome'[s] = "reset" ]_vars

\* Only its own task or the administrator ends the current session: a task
\* left over from a session that was reset never closes the next one.
EndedByItsTask ==
    [][ \A s \in Request :
          (current = s /\ current' # s) =>
             \/ outcome'[s] = "reset"
             \/ \E t \in Request : pc[t] \in Live /\ runs[t] = s /\ pc'[t] = "done" ]_vars

\* The HOLD of a current session is not silent forever: the session ends or
\* turns STUCK and the administrator is told.
HoldEnds ==
    \A r \in Request : current = r ~> (current # r \/ phase[r] = "STUCK")

\* Every task comes to its end, also one whose session was taken from it.
TasksEnd ==
    \A t \in Request : pc[t] \in Unstarted \cup Live ~> pc[t] = "done"

\* The object of a request is sent to a box at most once, whoever decided.
AtMostOneDecision == \A r \in Request : decisions[r] <= 1

\* An answer is interpreted for the session it was given to.
AnswerForSession ==
    \A t \in Request : pc[t] \in {"answered", "interpreting"} => answer[t] = runs[t]

\* A session ends by an answer, a skip or a reset, never by being dropped.
NeverDropped == \A r \in Request : outcome[r] # "dropped"
---------------------------------------------------------------------------
(* Refinement: as long as only STUCK sessions are reset, the state machine *)
(* keeps HitlPromise.                                                      *)
VerdictOf(r) ==
    CASE pc[r] = "none" -> "unasked"
      [] decisions[r] > 0 -> "decided"
      [] outcome[r] = "reset" /\ decisions[r] = 0 -> "abandoned"
      [] pc[r] = "skipped" \/ outcome[r] = "skipped" -> "skipped"
      [] OTHER -> "open"

Promise == INSTANCE HitlPromise WITH
    line    <- pending,
    active  <- current,
    stuck   <- current # NoRequest /\ phase[current] = "STUCK",
    verdict <- [r \in Request |-> VerdictOf(r)]

\* Requests are settled one at a time, in order, once each, by an answer, a
\* skip or, when STUCK, by the administrator.
KeepsPromise == Promise!Spec
=============================================================================
