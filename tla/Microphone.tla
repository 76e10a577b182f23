----------------------------- MODULE Microphone -----------------------------
(***************************************************************************)
(* The one microphone of the cell and its users (stt_tts/, voice_policy.py,*)
(* hitl_state_machine.py): the wake-up listener, which reads the device    *)
(* without taking mic_lock and only looks whether it is taken; the spoken  *)
(* rules, started by the wake-up word or by a button of the GUI, which     *)
(* hold it from the greeting to the reply; and the questions, each with a  *)
(* task that waits for it and records an answer.                           *)
(*                                                                         *)
(* A recording is a blocking call in a thread of its own (asyncio.         *)
(* to_thread): when the task that waits for it is cancelled the lock is    *)
(* let go, and the thread records on.                                      *)
(*                                                                         *)
(* Definitions named ..._Slip are no part of the model: each is the        *)
(* definition after it with a plausible mistake.                           *)
(***************************************************************************)
EXTENDS Naturals, Sequences, FiniteSets, SequencesExt

CONSTANTS
    Question,     \* the questions asked, one session each
    None,         \* no question
    MaxWakes,     \* bound: how often the wake-up word is heard
    MaxPushes,    \* bound: how often the button is pressed
    MaxTries,     \* hitl_max_retries and the first time
    MaxFailures   \* bound: how often the device fails to open

Command == {"wake", "push"}
User    == Question \cup Command

ASSUME MicrophoneAssumption ==
    /\ None \notin Question /\ IsFiniteSet(Question)
    /\ Question \cap (Command \cup {"none"}) = {}
    /\ MaxWakes \in Nat /\ MaxPushes \in Nat /\ MaxTries \in Nat \ {0} /\ MaxFailures \in Nat

VARIABLES
    holder,      \* who has mic_lock
    waiters,     \* its queue
    ear,         \* the wake-up listener
    command,     \* run_voice_policy_command, by what started it
    question,    \* the task of each session, as far as the microphone goes
    current,     \* hitl_state_machine.current_session
    awaited,     \* recordings whose result somebody waits for
    abandoned,   \* recordings nobody waits for any more
    tries,       \* how often a question was spoken
    wakes, pushes, failures

lockVars  == <<holder, waiters>>
countVars == <<wakes, pushes, failures>>
askVars   == <<question, tries, current>>
vars == <<lockVars, ear, command, askVars, awaited, abandoned, countVars>>

Init ==
    /\ holder = "none" /\ waiters = <<>>
    /\ ear = "polling"
    /\ command = [c \in Command |-> "none"]
    /\ question = [q \in Question |-> "none"]
    /\ tries = [q \in Question |-> 0]
    /\ current = None
    /\ awaited = {} /\ abandoned = 0
    /\ wakes = 0 /\ pushes = 0 /\ failures = 0
---------------------------------------------------------------------------
(* mic_lock                                                                *)

\* Release leaves the lock open until the first of the queue runs: in
\* between locked() is false, but nobody overtakes it
Release_Slip(u) == holder' = "none"
Release(u) == holder' = IF holder = u THEN "none" ELSE holder

\* The first of the queue runs on; a question's task begins to record at
\* once, a spoken rule is greeted first
Grant ==
    /\ holder = "none" /\ waiters # <<>>
    /\ holder' = Head(waiters) /\ waiters' = Tail(waiters)
    /\ IF Head(waiters) \in Command
       THEN /\ command' = [command EXCEPT ![Head(waiters)] = "greeting"]
            /\ UNCHANGED awaited
       ELSE /\ awaited' = awaited \cup {Head(waiters)}
            /\ UNCHANGED command
    /\ UNCHANGED <<ear, askVars, abandoned, countVars>>

\* A task is cancelled: out of the queue, or out of the lock with its
\* recording still going on
Cancel_Slip(u) ==
    /\ waiters' = RemoveFirst(waiters, u)
    /\ UNCHANGED holder
    /\ awaited' = awaited \ {u}
    /\ abandoned' = IF u \in awaited THEN abandoned + 1 ELSE abandoned
Cancel(u) ==
    /\ waiters' = RemoveFirst(waiters, u)
    /\ Release(u)
    /\ awaited' = awaited \ {u}
    /\ abandoned' = IF u \in awaited THEN abandoned + 1 ELSE abandoned

\* A recording nobody waits for comes to its end
AbandonedEnds ==
    /\ abandoned > 0
    /\ abandoned' = abandoned - 1
    /\ UNCHANGED <<lockVars, ear, command, askVars, awaited, countVars>>
---------------------------------------------------------------------------
(* The wake-up listener                                                    *)

\* while not stopped: the lock is taken, or the stream is opened in a thread
EarPolls ==
    /\ ear = "polling" /\ holder = "none"
    /\ ear' = "opening"
    /\ UNCHANGED <<lockVars, command, askVars, awaited, abandoned, countVars>>

\* An error is logged and the loop goes on
EarOpens ==
    /\ ear = "opening"
    /\ \/ ear' = "reading" /\ UNCHANGED failures
       \/ failures < MaxFailures /\ failures' = failures + 1 /\ ear' = "polling"
    /\ UNCHANGED <<lockVars, command, askVars, awaited, abandoned, wakes, pushes>>

\* is_wakeup hears nothing, and somebody has the lock: the stream is closed
EarLetsGo ==
    /\ ear = "reading" /\ holder # "none"
    /\ ear' = "polling"
    /\ UNCHANGED <<lockVars, command, askVars, awaited, abandoned, countVars>>

\* is_wakeup hears the word: the stream is closed and the callback awaited
EarWakes ==
    /\ ear = "reading" /\ wakes < MaxWakes
    /\ ear' = "calling" /\ wakes' = wakes + 1
    /\ command' = [command EXCEPT !["wake"] = "waiting"]
    /\ waiters' = Append(waiters, "wake")
    /\ UNCHANGED <<holder, askVars, awaited, abandoned, pushes, failures>>

EarReturns ==
    /\ ear = "calling" /\ command["wake"] = "none"
    /\ ear' = "polling"
    /\ UNCHANGED <<lockVars, command, askVars, awaited, abandoned, countVars>>

\* stop(): the task is cancelled, and the command it awaits with it
EarStops ==
    /\ ear # "stopped"
    /\ ear' = "stopped"
    /\ Cancel("wake")
    /\ command' = [command EXCEPT !["wake"] = "none"]
    /\ UNCHANGED <<askVars, countVars>>
---------------------------------------------------------------------------
(* A spoken rule: run_voice_policy_command                                 *)

PushToTalk ==
    /\ command["push"] = "none" /\ pushes < MaxPushes
    /\ pushes' = pushes + 1
    /\ command' = [command EXCEPT !["push"] = "waiting"]
    /\ waiters' = Append(waiters, "push")
    /\ UNCHANGED <<holder, ear, askVars, awaited, abandoned, wakes, failures>>

\* The greeting has been spoken, listen_once begins
CommandRecords(c) ==
    /\ command[c] = "greeting"
    /\ command' = [command EXCEPT ![c] = "recording"]
    /\ awaited' = awaited \cup {c}
    /\ UNCHANGED <<lockVars, ear, askVars, abandoned, countVars>>

\* Nothing heard, a command for the robot, no rule or an error of the LLM;
\* or a rule that is stored and about to be applied
CommandHeard(c) ==
    /\ command[c] = "recording"
    /\ awaited' = awaited \ {c}
    /\ \E next \in {"replying", "applying"} : command' = [command EXCEPT ![c] = next]
    /\ UNCHANGED <<lockVars, ear, askVars, abandoned, countVars>>

Returns(c) == /\ command' = [command EXCEPT ![c] = "none"]
              /\ Release(c)

CommandReplies(c) ==
    /\ command[c] = "replying"
    /\ Returns(c)
    /\ UNCHANGED <<waiters, ear, askVars, awaited, abandoned, countVars>>

\* _apply_to_current_apple: the session that is open now is closed
CommandApplies(c) ==
    /\ command[c] = "applying"
    /\ current' = None
    /\ Returns(c)
    /\ UNCHANGED <<waiters, ear, question, tries, awaited, abandoned, countVars>>
---------------------------------------------------------------------------
(* A question: _ask_and_wait and _listen_via_stt                           *)

Ask(q) ==
    /\ question[q] = "none" /\ current = None
    /\ current' = q
    /\ question' = [question EXCEPT ![q] = "speaking"]
    /\ UNCHANGED <<lockVars, ear, command, tries, awaited, abandoned, countVars>>

\* The question has been spoken, the task that listens is created
Listen(q) ==
    /\ question[q] = "speaking"
    /\ question' = [question EXCEPT ![q] = "listening"]
    /\ waiters' = Append(waiters, q)
    /\ UNCHANGED <<holder, ear, command, tries, current, awaited, abandoned, countVars>>

\* listen_once returns: with an answer the future is filled, without one it
\* waits on, with nobody listening
AnswerRecorded(q) ==
    /\ q \in awaited
    /\ awaited' = awaited \ {q}
    /\ Release(q)
    /\ \E next \in {"answered", "listening"} : question' = [question EXCEPT ![q] = next]
    /\ UNCHANGED <<waiters, ear, command, tries, current, abandoned, countVars>>

\* One attempt has failed; after the last the session is STUCK and stays open
Again_Slip(q) ==
    /\ tries' = [tries EXCEPT ![q] = @ + 1]
    /\ question' = [question EXCEPT ![q] = IF tries[q] < MaxTries THEN "speaking" ELSE "over"]
Again(q) ==
    /\ tries' = [tries EXCEPT ![q] = @ + 1]
    /\ question' = [question EXCEPT ![q] = IF tries'[q] < MaxTries THEN "speaking" ELSE "over"]

\* The listening task is cancelled: an answer was typed, or the time is over
StopListening(q) ==
    /\ question[q] = "listening"
    /\ Cancel(q)
    /\ \/ question' = [question EXCEPT ![q] = "answered"] /\ UNCHANGED tries
       \/ Again(q)
    /\ UNCHANGED <<ear, command, current, countVars>>

\* Typed while it is being spoken
AnsweredEarly(q) ==
    /\ question[q] = "speaking"
    /\ question' = [question EXCEPT ![q] = "answered"]
    /\ UNCHANGED <<lockVars, ear, command, tries, current, awaited, abandoned, countVars>>

\* The answer is interpreted: the session is closed, if it is still current,
\* or the answer was not clear
Interpret(q) ==
    /\ question[q] = "answered"
    /\ \/ /\ question' = [question EXCEPT ![q] = "over"]
          /\ current' = IF current = q THEN None ELSE current
          /\ UNCHANGED tries
       \/ Again(q) /\ UNCHANGED current
    /\ UNCHANGED <<lockVars, ear, command, awaited, abandoned, countVars>>

\* force_reset by the administrator; the task of the question goes on
AdminReset ==
    /\ current # None
    /\ current' = None
    /\ UNCHANGED <<lockVars, ear, command, question, tries, awaited, abandoned, countVars>>
---------------------------------------------------------------------------
Next ==
    \/ Grant \/ AbandonedEnds
    \/ EarPolls \/ EarOpens \/ EarLetsGo \/ EarWakes \/ EarReturns \/ EarStops
    \/ PushToTalk
    \/ \E c \in Command : \/ CommandRecords(c) \/ CommandHeard(c)
                          \/ CommandReplies(c) \/ CommandApplies(c)
    \/ \E q \in Question : \/ Ask(q) \/ Listen(q) \/ AnswerRecorded(q)
                           \/ StopListening(q) \/ AnsweredEarly(q) \/ Interpret(q)
    \/ AdminReset

(* The event loop runs what is ready, threads and calls to the services    *)
(* end (each has its time-out), a question ends by its limit of attempts.  *)
(* Nobody has to speak or to press anything.                               *)
Fairness ==
    /\ WF_vars(Grant) /\ WF_vars(AbandonedEnds)
    /\ WF_vars(EarPolls) /\ WF_vars(EarOpens) /\ WF_vars(EarLetsGo) /\ WF_vars(EarReturns)
    /\ \A c \in Command : /\ WF_vars(CommandRecords(c)) /\ WF_vars(CommandHeard(c))
                          /\ WF_vars(CommandReplies(c)) /\ WF_vars(CommandApplies(c))
    /\ \A q \in Question : /\ WF_vars(Listen(q)) /\ WF_vars(AnswerRecorded(q))
                           /\ WF_vars(StopListening(q)) /\ WF_vars(Interpret(q))

Spec == Init /\ [][Next]_vars /\ Fairness
---------------------------------------------------------------------------
TypeOK ==
    /\ holder \in User \cup {"none"}
    /\ waiters \in Seq(User) /\ Len(waiters) <= Cardinality(User)
    /\ ear \in {"polling", "opening", "reading", "calling", "stopped"}
    /\ command \in [Command -> {"none", "waiting", "greeting", "recording", "replying", "applying"}]
    /\ question \in [Question -> {"none", "speaking", "listening", "answered", "over"}]
    /\ current \in Question \cup {None} /\ tries \in [Question -> 0..MaxTries]
    /\ awaited \subseteq User /\ abandoned \in Nat
    /\ wakes \in 0..MaxWakes /\ pushes \in 0..MaxPushes /\ failures \in 0..MaxFailures

(* Only one recording is waited for at a time, by the one that holds the   *)
(* lock, whatever is cancelled meanwhile: no two users take each other's   *)
(* words (mic_lock.py:4).                                                  *)
OneAwaited == awaited \subseteq {holder}

(* A spoken rule that waits for the microphone, also behind questions that *)
(* are cancelled in the queue, comes to its end and gives the lock back    *)
(* (voice_policy.py:13).                                                   *)
CommandReturns == \A c \in Command : command[c] # "none" ~> command[c] = "none"

(* When nobody speaks any more the listener listens, unless it was stopped:*)
(* neither a device that does not open nor a lock that is not given back   *)
(* keeps it from it for good (wakeup_listener.py:168).                     *)
HearsAgain == <>[](ear \in {"reading", "stopped"})
=============================================================================
