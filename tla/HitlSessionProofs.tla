------------------------- MODULE HitlSessionProofs -------------------------
(***************************************************************************)
(* Theorems about HitlSession, for any requests, any MaxAttempts and any   *)
(* use of the state machine.                                               *)
(***************************************************************************)
EXTENDS HitlSession, SequenceTheorems, TLAPS

(* A live task has a session, and exactly the waiting ones wait for a      *)
(* future.                                                                 *)
TasksWellFormed ==
    \A t \in Request :
        /\ pc[t] \in Live => runs[t] \in Request
        /\ waits[t] \in Request <=> pc[t] = "waiting"

(* _pending holds requests that wait, each once.                           *)
QueueWellFormed ==
    \A i \in 1 .. Len(pending) :
        /\ pc[pending[i]] = "queued"
        /\ \A j \in 1 .. Len(pending) : pending[i] = pending[j] => i = j

WellFormed == Typed /\ TasksWellFormed /\ QueueWellFormed
---------------------------------------------------------------------------
(* The shared pieces of the handlers *)

\* What _start_next_pending does to the queue and to the tasks.
LEMMA StartNextPendingKeeps ==
    ASSUME Typed, QueueWellFormed,
           NEW pcs \in [Request -> PCs],
           \A r \in Request : pc[r] = "queued" => pcs[r] = "queued",
           StartNextPending(pcs)
    PROVE  /\ current' \in MaybeRequest
           /\ pending' \in Seq(Request)
           /\ served' \in Seq(Request)
           /\ pc' \in [Request -> PCs]
           /\ QueueWellFormed'
           /\ \A r \in Request : pc'[r] = pcs[r] \/ (pc[r] = "queued" /\ pc'[r] = "grace")
<1>1. CASE pending = <<>>
  BY <1>1 DEF StartNextPending, Typed, MaybeRequest, QueueWellFormed
<1>2. CASE pending # <<>>
  <2>1. Head(pending) \in Request /\ Tail(pending) \in Seq(Request)
    BY <1>2, HeadTailProperties DEF Typed
  <2>2. Append(served, Head(pending)) \in Seq(Request)
    BY <2>1, AppendProperties DEF Typed
  <2>3. /\ Len(pending) \in Nat /\ Len(pending) > 0
        /\ Len(Tail(pending)) = Len(pending) - 1
        /\ Head(pending) = pending[1]
        /\ \A i \in 1 .. Len(Tail(pending)) : Tail(pending)[i] = pending[i + 1]
    BY <1>2, HeadTailProperties, EmptySeq, LenProperties DEF Typed
  <2>4. pc[Head(pending)] = "queued"
    BY <2>3 DEF QueueWellFormed
  <2>5. /\ current' = Head(pending)
        /\ pending' = Tail(pending)
        /\ served' = Append(served, Head(pending))
        /\ pc' = [pcs EXCEPT ![Head(pending)] = "grace"]
    BY <1>2 DEF StartNextPending
  <2>6. \A i \in 1 .. Len(Tail(pending)) :
          /\ Tail(pending)[i] \in Request
          /\ Tail(pending)[i] # Head(pending)
          /\ pc[Tail(pending)[i]] = "queued"
    BY <2>1, <2>3, ElementOfSeq DEF QueueWellFormed, Typed
  <2>7. QueueWellFormed'
    <3>1. \A i \in 1 .. Len(Tail(pending)) : pc'[Tail(pending)[i]] = "queued"
      BY <2>5, <2>6
    <3>2. \A i, j \in 1 .. Len(Tail(pending)) :
             Tail(pending)[i] = Tail(pending)[j] => i = j
      BY <2>3 DEF QueueWellFormed
    <3> QED
      BY <2>5, <3>1, <3>2 DEF QueueWellFormed
  <2> QED
    BY <2>1, <2>2, <2>4, <2>5, <2>7 DEF MaybeRequest, PCs, Unstarted
<1> QED
  BY <1>1, <1>2

\* What the finally clause of a live task does.
LEMMA FinallyKeeps ==
    ASSUME WellFormed,
           NEW t \in Request, NEW ph \in Phases, NEW how \in Outcomes,
           pc[t] \in Live,
           Finally(t, ph, how)
    PROVE  /\ current' \in MaybeRequest
           /\ pending' \in Seq(Request)
           /\ served' \in Seq(Request)
           /\ pc' \in [Request -> PCs]
           /\ answerFuture' \in MaybeRequest
           /\ outcome' \in [Request -> Outcomes]
           /\ runs' = [runs EXCEPT ![t] = NoRequest]
           /\ QueueWellFormed'
           /\ pc'[t] = "done"
           /\ \A r \in Request \ {t} :
                 pc'[r] = pc[r] \/ (pc[r] = "queued" /\ pc'[r] = "grace")
<1> DEFINE pcs == [pc EXCEPT ![t] = "done"]
<1>1. pcs \in [Request -> PCs] /\ pcs[t] = "done"
  BY DEF WellFormed, Typed, PCs
<1>2. \A r \in Request : pc[r] = "queued" => pcs[r] = "queued"
  BY DEF Live, WellFormed, Typed
<1>3. \A r \in Request \ {t} : pcs[r] = pc[r]
  BY DEF WellFormed, Typed
<1>4. pc[t] # "queued"
  BY DEF Live
<1>5. CASE OwnsCurrent(t, ph)
  <2>1. /\ StartNextPending(pcs)
        /\ answerFuture' = NoRequest
        /\ outcome' = [outcome EXCEPT ![runs[t]] = how]
        /\ runs' = [runs EXCEPT ![t] = NoRequest]
    BY <1>5 DEF Finally
  <2> HIDE DEF pcs
  <2> QED
    BY <1>1, <1>2, <1>3, <1>4, <2>1, StartNextPendingKeeps
    DEF WellFormed, Typed, MaybeRequest
<1>6. CASE ~OwnsCurrent(t, ph)
  <2>1. /\ pc' = pcs
        /\ UNCHANGED <<answerFuture, outcome, current, pending, served>>
        /\ runs' = [runs EXCEPT ![t] = NoRequest]
    BY <1>6 DEF Finally
  <2>2. QueueWellFormed'
    BY <1>1, <1>2, <2>1, ElementOfSeq DEF WellFormed, Typed, QueueWellFormed
  <2> QED
    BY <1>1, <1>3, <2>1, <2>2 DEF WellFormed, Typed
<1> QED
  BY <1>5, <1>6

\* The tasks that wait for a future that is done wake up, no others do.
LEMMA WokenKeeps ==
    ASSUME WellFormed, NEW f \in Request, NEW to \in {"answered", "cancelled"}
    PROVE  /\ Woken(f, to) \in [Request -> PCs]
           /\ NoLonger(f) \in [Request -> MaybeRequest]
           /\ \A r \in Request :
                 \/ /\ pc[r] = "waiting" /\ waits[r] = f
                    /\ Woken(f, to)[r] = to /\ NoLonger(f)[r] = NoRequest
                 \/ /\ waits[r] # f
                    /\ Woken(f, to)[r] = pc[r] /\ NoLonger(f)[r] = waits[r]
BY DEF Woken, NoLonger, WellFormed, Typed, TasksWellFormed, PCs, Live, MaybeRequest

\* Asking again, or giving up.
LEMMA AskOrGiveUpKeeps ==
    ASSUME WellFormed,
           NEW t \in Request, NEW n \in Nat,
           NEW pcs \in [Request -> PCs], NEW futs \in [Request -> Futures],
           pc[t] \in Live,
           AskOrGiveUp(t, n, pcs, futs)
    PROVE  /\ attempt' \in [Request -> Nat]
           /\ phase' \in [Request -> Phases]
           /\ pc' \in [Request -> PCs]
           /\ future' \in [Request -> Futures]
           /\ answerFuture' \in MaybeRequest
           /\ pc'[t] \in {"speaking", "stuck"}
           /\ \A r \in Request \ {t} : pc'[r] = pcs[r]
<1>1. runs[t] \in Request
  BY DEF WellFormed, TasksWellFormed
<1>2. Open \in Futures
  BY DEF Open, Futures, MaybeRequest
<1>3. CASE n < MaxAttempts
  <2>1. /\ attempt' = [attempt EXCEPT ![runs[t]] = n]
        /\ phase' = [phase EXCEPT ![runs[t]] = "ASKING"]
        /\ pc' = [pcs EXCEPT ![t] = "speaking"]
        /\ future' = [futs EXCEPT ![t] = Open]
        /\ answerFuture' = t
    BY <1>3 DEF AskOrGiveUp
  <2>2. "ASKING" \in Phases /\ "speaking" \in PCs
    BY DEF Phases, PCs, Live
  <2> QED
    BY <1>1, <1>2, <2>1, <2>2 DEF WellFormed, Typed, MaybeRequest
<1>4. CASE ~(n < MaxAttempts)
  BY <1>1, <1>4 DEF AskOrGiveUp, WellFormed, Typed, PCs, Live, Phases
<1> QED
  BY <1>3, <1>4

\* The queue is not touched.
LEMMA QueueKept ==
    ASSUME WellFormed, pending' = pending,
           \A r \in Request : pc[r] = "queued" => pc'[r] = "queued"
    PROVE  QueueWellFormed'
BY ElementOfSeq DEF WellFormed, Typed, QueueWellFormed
---------------------------------------------------------------------------
(* Every action of the model keeps WellFormed.                             *)

\* A new request is started or queued behind the others.
LEMMA AskHumanWellFormed ==
    ASSUME WellFormed, NEW r \in Request, AskHuman(r)
    PROVE  WellFormed'
<1>1. asked' \in Seq(Request)
  BY AppendProperties DEF AskHuman, WellFormed, Typed
<1>2. CASE current # NoRequest
  <2>1. pending' = Append(pending, r) /\ pc' = [pc EXCEPT ![r] = "queued"]
        /\ UNCHANGED <<current, served>>
    BY <1>2 DEF AskHuman
  <2>2. /\ pending' \in Seq(Request)
        /\ Len(pending) \in Nat
        /\ Len(pending') = Len(pending) + 1
        /\ \A i \in 1 .. Len(pending) : pending'[i] = pending[i]
        /\ pending'[Len(pending) + 1] = r
    BY <2>1, AppendProperties, LenProperties DEF WellFormed, Typed
  <2>3. \A i \in 1 .. Len(pending) : pending[i] \in Request /\ pending[i] # r
    BY ElementOfSeq DEF AskHuman, WellFormed, Typed, QueueWellFormed
  <2>4. QueueWellFormed'
    <3>1. \A i \in 1 .. Len(pending') : pc'[pending'[i]] = "queued"
      <4>1. \A i \in 1 .. Len(pending) : pc'[pending[i]] = "queued"
        BY <2>1, <2>3 DEF WellFormed, Typed, QueueWellFormed
      <4>2. pc'[r] = "queued"
        BY <2>1 DEF WellFormed, Typed
      <4> QED
        BY <2>2, <4>1, <4>2
    <3>2. \A i, j \in 1 .. Len(pending') : pending'[i] = pending'[j] => i = j
      BY <2>2, <2>3 DEF WellFormed, QueueWellFormed
    <3> QED
      BY <3>1, <3>2 DEF QueueWellFormed
  <2> QED
    BY <1>1, <2>1, <2>2, <2>4
    DEF AskHuman, WellFormed, Typed, TasksWellFormed, PCs, Live
<1>3. CASE current = NoRequest
  <2>1. /\ current' = r
        /\ served' = Append(served, r)
        /\ pc' = [pc EXCEPT ![r] = "created"]
        /\ UNCHANGED pending
    BY <1>3 DEF AskHuman
  <2>2. served' \in Seq(Request)
    BY <2>1, AppendProperties DEF WellFormed, Typed
  <2>3. QueueWellFormed'
    BY <2>1, QueueKept DEF AskHuman, WellFormed, Typed
  <2> QED
    BY <1>1, <2>1, <2>2, <2>3
    DEF AskHuman, WellFormed, Typed, TasksWellFormed, PCs, Unstarted, Live, MaybeRequest
<1> QED
  BY <1>2, <1>3

\* An answer wakes the tasks that wait for the open future.
LEMMA SubmitWellFormed ==
    ASSUME WellFormed, NEW r \in Request, Submit(r)
    PROVE  WellFormed'
<1>1. answerFuture \in Request
  BY DEF Submit, AnswerOpen, WellFormed, Typed, MaybeRequest
<1>2. /\ pc' = Woken(answerFuture, "answered") /\ waits' = NoLonger(answerFuture)
      /\ UNCHANGED pending
  BY DEF Submit, sessionVars
<1>3. /\ pc' \in [Request -> PCs] /\ waits' \in [Request -> MaybeRequest]
      /\ \A t \in Request :
            \/ /\ pc[t] = "waiting" /\ waits[t] = answerFuture
               /\ pc'[t] = "answered" /\ waits'[t] = NoRequest
            \/ /\ waits[t] # answerFuture
               /\ pc'[t] = pc[t] /\ waits'[t] = waits[t]
  BY <1>1, <1>2, WokenKeeps
<1>4. QueueWellFormed'
  BY <1>2, <1>3, QueueKept
<1>5. TasksWellFormed'
  BY <1>3, HitlAssumption DEF Submit, WellFormed, TasksWellFormed, Live
<1>6. Typed'
  BY <1>3 DEF Submit, sessionVars, historyVars, WellFormed, Typed, Futures, MaybeRequest
<1> QED
  BY <1>4, <1>5, <1>6 DEF WellFormed

\* The administrator's reset.
LEMMA ForceResetWellFormed ==
    ASSUME WellFormed, NEW decide \in BOOLEAN, ForceReset(decide)
    PROVE  WellFormed'
<1>1. current \in Request
  BY DEF ForceReset, MayReset, WellFormed, Typed, MaybeRequest
<1>2. /\ decisions' \in [Request -> Nat]
      /\ outcome' \in [Request -> Outcomes]
      /\ answerFuture' \in MaybeRequest
      /\ UNCHANGED <<phase, attempt, runs, answer, asked, lastCommand>>
  BY <1>1 DEF ForceReset, WellFormed, Typed, Outcomes, MaybeRequest
<1>3. CASE AnswerOpen
  <2> DEFINE pcs == Woken(answerFuture, "cancelled")
  <2>1. /\ future' = [future EXCEPT ![answerFuture] = Cancelled(@)]
        /\ waits' = NoLonger(answerFuture)
        /\ StartNextPending(pcs)
    BY <1>3 DEF ForceReset
  <2>2. answerFuture \in Request
    BY <1>3 DEF AnswerOpen, WellFormed, Typed, MaybeRequest
  <2>3. /\ pcs \in [Request -> PCs] /\ waits' \in [Request -> MaybeRequest]
        /\ \A t \in Request :
              \/ /\ pc[t] = "waiting" /\ waits[t] = answerFuture
                 /\ pcs[t] = "cancelled" /\ waits'[t] = NoRequest
              \/ /\ waits[t] # answerFuture
                 /\ pcs[t] = pc[t] /\ waits'[t] = waits[t]
    BY <2>1, <2>2, WokenKeeps
  <2>4. future' \in [Request -> Futures]
    BY <2>1, <2>2 DEF Cancelled, Futures, WellFormed, Typed
  <2> HIDE DEF pcs
  <2>5. /\ current' \in MaybeRequest /\ pending' \in Seq(Request)
        /\ served' \in Seq(Request) /\ pc' \in [Request -> PCs]
        /\ QueueWellFormed'
        /\ \A r \in Request : pc'[r] = pcs[r] \/ (pc[r] = "queued" /\ pc'[r] = "grace")
    BY <2>1, <2>3, StartNextPendingKeeps DEF WellFormed
  <2>6. TasksWellFormed'
    BY <1>2, <2>3, <2>5, HitlAssumption DEF WellFormed, TasksWellFormed, Live
  <2> QED
    BY <1>2, <2>3, <2>4, <2>5, <2>6 DEF WellFormed, Typed
<1>4. CASE ~AnswerOpen
  <2>1. UNCHANGED <<future, waits>> /\ StartNextPending(pc)
    BY <1>4 DEF ForceReset
  <2>2. /\ current' \in MaybeRequest /\ pending' \in Seq(Request)
        /\ served' \in Seq(Request) /\ pc' \in [Request -> PCs]
        /\ QueueWellFormed'
        /\ \A r \in Request : pc'[r] = pc[r] \/ (pc[r] = "queued" /\ pc'[r] = "grace")
    BY <2>1, StartNextPendingKeeps DEF WellFormed, Typed
  <2>3. TasksWellFormed'
    BY <1>2, <2>1, <2>2 DEF WellFormed, TasksWellFormed, Live
  <2> QED
    BY <1>2, <2>1, <2>2, <2>3 DEF WellFormed, Typed
<1> QED
  BY <1>3, <1>4

\* The steps of a task that only move it on.
LEMMA MoveWellFormed ==
    ASSUME WellFormed, NEW t \in Request,
           \/ GraceOver(t) \/ Begin(t) \/ ListenOpen(t) \/ ListenAnswered(t)
           \/ ListenOrphaned(t) \/ AnswerTaken(t) \/ InterpretedSkip(t)
           \/ InterpretedDestination(t) \/ UnexpectedError(t)
    PROVE  WellFormed'
<1> USE DEF sessionVars, historyVars
<1>1. CASE GraceOver(t)
  <2>1. QueueWellFormed'
    BY <1>1, QueueKept DEF GraceOver, WellFormed, Typed
  <2> QED
    BY <1>1, <2>1 DEF GraceOver, WellFormed, Typed, TasksWellFormed, PCs, Unstarted, Live
<1>2. CASE Begin(t)
  <2>1. QueueWellFormed'
    BY <1>2, QueueKept DEF Begin, WellFormed, Typed
  <2>2. Typed'
    BY <1>2 DEF Begin, WellFormed, Typed, PCs, Unstarted, Live, Phases, MaybeRequest
  <2>3. TasksWellFormed'
    BY <1>2 DEF Begin, WellFormed, Typed, TasksWellFormed, Live, MaybeRequest
  <2> QED
    BY <2>1, <2>2, <2>3 DEF WellFormed
<1>3. CASE ListenOpen(t)
  <2>1. QueueWellFormed'
    BY <1>3, QueueKept DEF ListenOpen, WellFormed, Typed
  <2>2. Typed'
    BY <1>3 DEF ListenOpen, AnswerOpen, WellFormed, Typed, PCs, Live, Phases, MaybeRequest
  <2>3. TasksWellFormed'
    BY <1>3 DEF ListenOpen, AnswerOpen, WellFormed, Typed, TasksWellFormed, Live, MaybeRequest
  <2> QED
    BY <2>1, <2>2, <2>3 DEF WellFormed
<1>4. CASE ListenAnswered(t)
  <2>1. QueueWellFormed'
    BY <1>4, QueueKept DEF ListenAnswered, WellFormed, Typed
  <2>2. Typed'
    <3>1. future[answerFuture].for \in MaybeRequest
      BY <1>4 DEF ListenAnswered, WellFormed, Typed, Futures, MaybeRequest
    <3> QED
      BY <1>4, <3>1 DEF ListenAnswered, WellFormed, Typed, PCs, Live, Phases
  <2>3. TasksWellFormed'
    BY <1>4 DEF ListenAnswered, WellFormed, Typed, TasksWellFormed, Live
  <2> QED
    BY <2>1, <2>2, <2>3 DEF WellFormed
<1>5. CASE ListenOrphaned(t) \/ UnexpectedError(t)
  <2>1. QueueWellFormed'
    BY <1>5, QueueKept DEF ListenOrphaned, UnexpectedError, Fail, WellFormed, Typed
  <2>2. Typed'
    BY <1>5 DEF ListenOrphaned, UnexpectedError, Fail, WellFormed, Typed, PCs, Live, Phases,
                MaybeRequest
  <2>3. TasksWellFormed'
    BY <1>5 DEF ListenOrphaned, UnexpectedError, Fail, WellFormed, Typed, TasksWellFormed, Live
  <2> QED
    BY <2>1, <2>2, <2>3 DEF WellFormed
<1>6. CASE AnswerTaken(t) \/ InterpretedSkip(t) \/ InterpretedDestination(t)
  <2> USE DEF AnswerTaken, InterpretedSkip, InterpretedDestination
  <2>1. QueueWellFormed'
    BY <1>6, QueueKept DEF WellFormed, Typed
  <2>2. runs[t] \in Request
    BY <1>6 DEF WellFormed, TasksWellFormed, Live
  <2>3. Typed'
    <3>1. decisions' \in [Request -> Nat]
      BY <1>6, <2>2 DEF WellFormed, Typed
    <3>2. pc' \in [Request -> PCs]
      BY <1>6 DEF WellFormed, Typed, PCs, Live
    <3>3. phase' \in [Request -> Phases] /\ answer' \in [Request -> MaybeRequest]
      BY <1>6 DEF WellFormed, Typed, Phases, MaybeRequest
    <3> QED
      BY <1>6, <3>1, <3>2, <3>3 DEF WellFormed, Typed
  <2>4. TasksWellFormed'
    BY <1>6 DEF WellFormed, Typed, TasksWellFormed, Live
  <2> QED
    BY <2>1, <2>3, <2>4 DEF WellFormed
<1> QED
  BY <1>1, <1>2, <1>3, <1>4, <1>5, <1>6

\* The steps of a task that ask again or give up.
LEMMA AskAgainWellFormed ==
    ASSUME WellFormed, NEW t \in Request,
           \/ HoldAnnounced(t) \/ AnswerTimeout(t) \/ TimeoutBeatsWakeUp(t)
           \/ InterpretedUnclear(t)
    PROVE  WellFormed'
<1>1. pc[t] \in Live /\ runs[t] \in Request
  BY DEF HoldAnnounced, AnswerTimeout, TimeoutBeatsWakeUp, InterpretedUnclear, Live,
         WellFormed, TasksWellFormed
<1>2. attempt[runs[t]] \in Nat /\ attempt[runs[t]] + 1 \in Nat
  BY <1>1 DEF WellFormed, Typed
<1>3. /\ pc \in [Request -> PCs] /\ future \in [Request -> Futures]
      /\ waits \in [Request -> MaybeRequest] /\ answer \in [Request -> MaybeRequest]
  BY DEF WellFormed, Typed
<1>4. CASE AnswerTimeout(t)
  <2> DEFINE pcs  == Woken(waits[t], "cancelled")
             futs == [future EXCEPT ![waits[t]] = Cancelled(@)]
  <2>1. waits[t] \in Request /\ pc[t] = "waiting"
    BY <1>4 DEF AnswerTimeout, WellFormed, TasksWellFormed
  <2>2. futs \in [Request -> Futures]
    BY <1>3, <2>1 DEF Cancelled, Futures
  <2>3. /\ AskOrGiveUp(t, attempt[runs[t]] + 1, pcs, futs)
        /\ waits' = NoLonger(waits[t])
        /\ UNCHANGED <<current, pending, runs, answer, asked, served, decisions, outcome,
                       lastCommand>>
    BY <1>4 DEF AnswerTimeout, historyVars
  <2>4. /\ pcs \in [Request -> PCs] /\ waits' \in [Request -> MaybeRequest]
        /\ \A r \in Request :
              \/ /\ pc[r] = "waiting" /\ waits[r] = waits[t]
                 /\ pcs[r] = "cancelled" /\ waits'[r] = NoRequest
              \/ /\ waits[r] # waits[t]
                 /\ pcs[r] = pc[r] /\ waits'[r] = waits[r]
    BY <2>1, <2>3, WokenKeeps
  <2> HIDE DEF pcs, futs
  <2>5. /\ attempt' \in [Request -> Nat] /\ phase' \in [Request -> Phases]
        /\ pc' \in [Request -> PCs] /\ future' \in [Request -> Futures]
        /\ answerFuture' \in MaybeRequest
        /\ pc'[t] \in {"speaking", "stuck"}
        /\ \A r \in Request \ {t} : pc'[r] = pcs[r]
    BY <1>1, <1>2, <2>2, <2>3, <2>4, AskOrGiveUpKeeps
  <2>6. QueueWellFormed'
    BY <2>1, <2>3, <2>4, <2>5, QueueKept
  <2>7. TasksWellFormed'
    <3>1. waits'[t] = NoRequest
      BY <2>4
    <3>2. ASSUME NEW r \in Request, r # t
          PROVE  \/ /\ pc'[r] = "cancelled" /\ pc[r] = "waiting"
                    /\ waits'[r] = NoRequest
                 \/ pc'[r] = pc[r] /\ waits'[r] = waits[r]
      <4>1. pc'[r] = pcs[r]
        BY <2>5, <3>2
      <4> QED
        BY <2>4, <4>1
    <3> QED
      BY <1>1, <2>3, <2>5, <3>1, <3>2, HitlAssumption DEF WellFormed, TasksWellFormed, Live
  <2> QED
    BY <2>3, <2>4, <2>5, <2>6, <2>7 DEF WellFormed, Typed
<1>5. CASE HoldAnnounced(t) \/ TimeoutBeatsWakeUp(t) \/ InterpretedUnclear(t)
  <2>1. /\ \E n \in Nat : AskOrGiveUp(t, n, pc, future)
        /\ pc[t] # "waiting"
        /\ answer' \in [Request -> MaybeRequest]
        /\ UNCHANGED <<current, pending, runs, waits, asked, served, decisions, outcome,
                       lastCommand>>
    BY <1>2, <1>3, <1>5
    DEF HoldAnnounced, TimeoutBeatsWakeUp, InterpretedUnclear, historyVars, MaybeRequest
  <2>2. /\ attempt' \in [Request -> Nat] /\ phase' \in [Request -> Phases]
        /\ pc' \in [Request -> PCs] /\ future' \in [Request -> Futures]
        /\ answerFuture' \in MaybeRequest
        /\ pc'[t] \in {"speaking", "stuck"}
        /\ \A r \in Request \ {t} : pc'[r] = pc[r]
    BY <1>1, <1>3, <2>1, AskOrGiveUpKeeps
  <2>3. QueueWellFormed'
    BY <1>1, <2>1, <2>2, QueueKept DEF Live
  <2>4. TasksWellFormed'
    BY <1>1, <2>1, <2>2 DEF WellFormed, TasksWellFormed, Live
  <2> QED
    BY <2>1, <2>2, <2>3, <2>4 DEF WellFormed, Typed
<1> QED
  BY <1>4, <1>5

\* The steps that end a task.
LEMMA EndWellFormed ==
    ASSUME WellFormed, NEW t \in Request,
           ListenCancelled(t) \/ TaskCancelled(t) \/ Closed(t)
    PROVE  WellFormed'
<1>1. pc[t] \in Live /\ pc[t] # "waiting" /\ runs[t] \in Request
  BY DEF ListenCancelled, TaskCancelled, Closed, Live, WellFormed, TasksWellFormed
<1>2. /\ \E ph \in Phases, how \in Outcomes : Finally(t, ph, how)
      /\ UNCHANGED <<attempt, future, waits, answer, asked, decisions, lastCommand>>
      /\ phase' \in [Request -> Phases]
  <2>1. phase[runs[t]] \in Phases
    BY <1>1 DEF WellFormed, Typed
  <2>2. CASE ListenCancelled(t)
    BY <2>2, <1>1 DEF ListenCancelled, Phases, Outcomes, WellFormed, Typed
  <2>3. CASE TaskCancelled(t)
    BY <2>1, <2>3 DEF TaskCancelled, Outcomes, WellFormed, Typed
  <2>4. CASE Closed(t)
    BY <2>1, <2>4 DEF Closed, Outcomes, WellFormed, Typed
  <2> QED
    BY <2>2, <2>3, <2>4
<1>3. /\ current' \in MaybeRequest /\ pending' \in Seq(Request) /\ served' \in Seq(Request)
      /\ pc' \in [Request -> PCs] /\ answerFuture' \in MaybeRequest
      /\ outcome' \in [Request -> Outcomes]
      /\ runs' = [runs EXCEPT ![t] = NoRequest]
      /\ QueueWellFormed'
      /\ pc'[t] = "done"
      /\ \A r \in Request \ {t} : pc'[r] = pc[r] \/ (pc[r] = "queued" /\ pc'[r] = "grace")
  BY <1>1, <1>2, FinallyKeeps
<1>4. TasksWellFormed'
  BY <1>1, <1>2, <1>3 DEF WellFormed, Typed, TasksWellFormed, Live
<1> QED
  BY <1>2, <1>3, <1>4 DEF WellFormed, Typed, MaybeRequest
---------------------------------------------------------------------------
\* The inductive step.
LEMMA NextWellFormed == WellFormed /\ [Next]_vars => WellFormed'
<1> SUFFICES ASSUME WellFormed, [Next]_vars PROVE WellFormed'
  OBVIOUS
<1>1. ASSUME NEW r \in Request, AskHuman(r) PROVE WellFormed'
  BY <1>1, AskHumanWellFormed
<1>2. CASE AnswerOnHmi
  BY <1>2, SubmitWellFormed DEF AnswerOnHmi, WellFormed, Typed, MaybeRequest
<1>3. ASSUME NEW t \in Request, AnswerByVoice(t) PROVE WellFormed'
  BY <1>3, SubmitWellFormed DEF AnswerByVoice, WellFormed, TasksWellFormed, Live
<1>4. ASSUME NEW decide \in BOOLEAN, ForceReset(decide) PROVE WellFormed'
  BY <1>4, ForceResetWellFormed
<1>5. ASSUME NEW t \in Request, TaskStep(t) PROVE WellFormed'
  BY <1>5, MoveWellFormed, AskAgainWellFormed, EndWellFormed DEF TaskStep, Listen, Interpreted
<1>6. CASE UNCHANGED vars
  BY <1>6 DEF vars, sessionVars, taskVars, historyVars, WellFormed, Typed, TasksWellFormed,
              QueueWellFormed
<1> QED
  BY <1>1, <1>2, <1>3, <1>4, <1>5, <1>6 DEF Next

LEMMA InitWellFormed == Init => WellFormed
<1> SUFFICES ASSUME Init PROVE WellFormed
  OBVIOUS
<1>1. Typed
  BY EmptySeq DEF Init, Typed, MaybeRequest, Phases, PCs, Futures, NoFuture, Outcomes
<1>2. TasksWellFormed
  BY HitlAssumption DEF Init, TasksWellFormed, Live
<1>3. QueueWellFormed
  BY EmptySeq DEF Init, QueueWellFormed
<1> QED
  BY <1>1, <1>2, <1>3 DEF WellFormed

\* In every behaviour the types, the tasks and the queue stay well-formed.
THEOREM AlwaysWellFormed == Spec => []WellFormed
BY InitWellFormed, NextWellFormed, PTL DEF Spec

---------------------------------------------------------------------------
(* First come, first served *)

\* Popping the next request keeps the order.
LEMMA StartNextPendingServes ==
    ASSUME Typed, asked = served \o pending, asked' = asked,
           NEW pcs, StartNextPending(pcs)
    PROVE  ServedInOrder'
<1>1. CASE pending = <<>>
  BY <1>1 DEF StartNextPending, ServedInOrder
<1>2. CASE pending # <<>>
  <2>1. /\ Head(pending) \in Request /\ Tail(pending) \in Seq(Request)
        /\ pending = <<Head(pending)>> \o Tail(pending)
    BY <1>2, HeadTailProperties, ConcatProperties DEF Typed
  <2>2. Append(served, Head(pending)) = served \o <<Head(pending)>>
    BY <2>1, AppendIsConcat DEF Typed
  <2>3. served \o pending = Append(served, Head(pending)) \o Tail(pending)
    <3> DEFINE head == <<Head(pending)>>
               tail == Tail(pending)
    <3>1. head \in Seq(Request) /\ served \in Seq(Request) /\ tail \in Seq(Request)
      BY <2>1 DEF Typed
    <3>2. pending = head \o tail /\ Append(served, Head(pending)) = served \o head
      BY <2>1, <2>2
    <3> HIDE DEF head, tail
    <3>3. (served \o head) \o tail = served \o (head \o tail)
      BY <3>1, ConcatAssociative
    <3> QED
      BY <3>2, <3>3, Zenon DEF tail
  <2>4. Head(pending) # NoRequest
    BY <2>1, HitlAssumption
  <2> QED
    BY <1>2, <2>3, <2>4 DEF StartNextPending, ServedInOrder
<1> QED
  BY <1>1, <1>2

\* Only a new request, the end of a session and a reset touch the queue.
LEMMA NextServes == WellFormed /\ ServedInOrder /\ [Next]_vars => ServedInOrder'
<1> SUFFICES ASSUME WellFormed, ServedInOrder, [Next]_vars PROVE ServedInOrder'
  OBVIOUS
<1> DEFINE Untouched == UNCHANGED <<asked, served, pending, current>>
<1>0. Untouched => ServedInOrder'
  BY DEF ServedInOrder
<1>1. ASSUME NEW r \in Request, AskHuman(r) PROVE ServedInOrder'
  <2>1. CASE current # NoRequest
    <3>1. served \o Append(pending, r) = Append(served \o pending, r)
      <4>1. Append(pending, r) = pending \o <<r>>
        BY AppendIsConcat DEF WellFormed, Typed
      <4>2. served \o pending \in Seq(Request)
        BY ConcatProperties DEF WellFormed, Typed
      <4>3. Append(served \o pending, r) = (served \o pending) \o <<r>>
        BY <4>2, AppendIsConcat
      <4> DEFINE last == <<r>>
      <4>4. served \in Seq(Request) /\ pending \in Seq(Request) /\ last \in Seq(Request)
        BY DEF WellFormed, Typed
      <4> HIDE DEF last
      <4>5. (served \o pending) \o last = served \o (pending \o last)
        BY <4>4, ConcatAssociative
      <4> QED
        BY <4>1, <4>3, <4>5, Zenon DEF last
    <3> QED
      BY <1>1, <2>1, <3>1 DEF AskHuman, ServedInOrder
  <2>2. CASE current = NoRequest
    <3>1. pending = <<>> /\ asked = served
      BY <2>2, ConcatEmptySeq DEF ServedInOrder, WellFormed, Typed
    <3>2. Append(served, r) \o <<>> = Append(served, r)
      BY AppendProperties, ConcatEmptySeq DEF WellFormed, Typed
    <3> QED
      BY <1>1, <2>2, <3>1, <3>2 DEF AskHuman, ServedInOrder
  <2> QED
    BY <2>1, <2>2
<1>2. ASSUME NEW r, Submit(r) PROVE Untouched
  BY <1>2 DEF Submit, sessionVars, historyVars
<1>3. ASSUME NEW decide \in BOOLEAN, ForceReset(decide) PROVE ServedInOrder'
  <2>1. asked' = asked /\ \E pcs : StartNextPending(pcs)
    BY <1>3 DEF ForceReset
  <2> QED
    BY <2>1, StartNextPendingServes DEF WellFormed, ServedInOrder
<1>4. ASSUME NEW t \in Request, TaskStep(t) PROVE ServedInOrder'
  <2>1. CASE ListenCancelled(t) \/ TaskCancelled(t) \/ Closed(t)
    <3>1. asked' = asked
      BY <2>1 DEF ListenCancelled, TaskCancelled, Closed
    <3>2. Untouched \/ \E pcs : StartNextPending(pcs)
      BY <2>1 DEF ListenCancelled, TaskCancelled, Closed, Finally
    <3> QED
      BY <1>0, <3>1, <3>2, StartNextPendingServes DEF WellFormed, ServedInOrder
  <2>2. CASE ~(ListenCancelled(t) \/ TaskCancelled(t) \/ Closed(t))
    <3>1. Untouched
      BY <1>4, <2>2
      DEF TaskStep, Listen, Interpreted, GraceOver, Begin, HoldAnnounced, ListenOpen,
          ListenAnswered, ListenOrphaned, AnswerTimeout, TimeoutBeatsWakeUp, AnswerTaken,
          InterpretedUnclear, InterpretedSkip, InterpretedDestination, UnexpectedError,
          sessionVars, historyVars
    <3> QED
      BY <1>0, <3>1
  <2> QED
    BY <2>1, <2>2
<1>5. CASE UNCHANGED vars
  BY <1>0, <1>5 DEF vars, sessionVars, historyVars
<1> QED
  BY <1>0, <1>1, <1>2, <1>3, <1>4, <1>5 DEF Next, AnswerOnHmi, AnswerByVoice

\* The requests are served in the order they came, none is lost or served
\* twice, and none waits while no session is current: whoever resets what.
THEOREM AlwaysServedInOrder == Spec => []ServedInOrder
<1>1. Init => ServedInOrder
  BY ConcatEmptySeq, EmptySeq DEF Init, ServedInOrder
<1> QED
  BY <1>1, NextServes, AlwaysWellFormed, PTL DEF Spec
---------------------------------------------------------------------------
(* When only STUCK sessions are reset, every task runs its own request's   *)
(* session, and nobody else is in front of the operator meanwhile.         *)

OnlyStuckReset == ResetWhen # "any"

\* where task t stands
InFront(t) ==
    /\ runs[t] \in {t, NoRequest}
    /\ pc[t] \in {"none", "queued"} => phase[t] = "IDLE" /\ t # current
    /\ pc[t] \in Unstarted => current = t /\ phase[t] = "IDLE"
    /\ pc[t] \in Live \ {"stuck"} => current = t /\ phase[t] # "STUCK"
    /\ pc[t] = "stuck" => phase[t] = "STUCK"
    /\ pc[t] = "done" /\ current = t => phase[t] = "STUCK"
    /\ pc[t] # "cancelled"

\* the future task t waits for, and the answer it gets, are its own
OwnAnswer(t) ==
    /\ pc[t] \in {"speaking", "waiting"} =>
          answerFuture = t /\ future[t].st \in {"open", "set"}
    /\ pc[t] = "speaking" /\ future[t].st = "set" => future[t].for = t
    /\ waits[t] \in {t, NoRequest}
    /\ pc[t] \in {"answered", "interpreting"} => answer[t] = t

\* what became of request t
Verdict(t) ==
    /\ outcome[t] # "dropped"
    /\ decisions[t] \in {0, 1}
    /\ pc[t] \in {"none", "queued"} => decisions[t] = 0 /\ outcome[t] = "open"
    /\ current = t => outcome[t] = "open"
    /\ current = t /\ pc[t] # "resolved" => decisions[t] = 0
    /\ pc[t] = "resolved" => decisions[t] = 1

SoleRunner == \A t \in Request : InFront(t) /\ OwnAnswer(t) /\ Verdict(t)

\* While a task is under way no other one is, and no other one waits.
LEMMA Alone ==
    ASSUME WellFormed, SoleRunner, NEW t \in Request,
           pc[t] \in Unstarted \cup (Live \ {"stuck"})
    PROVE  /\ current = t
           /\ pc[t] \in Live => runs[t] = t
           /\ \A r \in Request \ {t} :
                 pc[r] \in {"none", "queued", "stuck", "done"} /\ waits[r] = NoRequest
<1>1. current = t /\ pc[t] \in PCs
  BY DEF SoleRunner, InFront, WellFormed, Typed
<1>2. pc[t] \in Live => runs[t] = t
  BY HitlAssumption DEF SoleRunner, InFront, WellFormed, TasksWellFormed
<1>3. ASSUME NEW r \in Request \ {t}
      PROVE  pc[r] \in {"none", "queued", "stuck", "done"} /\ waits[r] = NoRequest
  <2>1. pc[r] \in {"none", "queued", "stuck", "done"}
    BY <1>1, <1>3 DEF SoleRunner, InFront, WellFormed, Typed, PCs
  <2>2. pc[r] # "waiting"
    BY <2>1
  <2> QED
    BY <2>1, <2>2 DEF WellFormed, Typed, TasksWellFormed, MaybeRequest
<1> QED
  BY <1>1, <1>2, <1>3

\* A step of task t that leaves it in front does not concern the others.
LEMMA OthersKept ==
    ASSUME WellFormed, SoleRunner, NEW t \in Request,
           pc[t] \in Unstarted \cup (Live \ {"stuck"}),
           current' = current,
           \A r \in Request \ {t} :
              /\ pc'[r] = pc[r] /\ phase'[r] = phase[r] /\ runs'[r] = runs[r]
              /\ waits'[r] = waits[r]
              /\ outcome'[r] = outcome[r] /\ decisions'[r] = decisions[r]
    PROVE  \A r \in Request \ {t} : InFront(r)' /\ OwnAnswer(r)' /\ Verdict(r)'
<1> SUFFICES ASSUME NEW r \in Request \ {t}
             PROVE  InFront(r)' /\ OwnAnswer(r)' /\ Verdict(r)'
  OBVIOUS
<1>1. pc[r] \in {"none", "queued", "stuck", "done"} /\ waits[r] = NoRequest
  BY Alone
<1>2. InFront(r) /\ Verdict(r)
  BY DEF SoleRunner
<1>3. pc'[r] # "resolved"
  BY <1>1
<1> QED
  BY <1>1, <1>2, <1>3 DEF InFront, OwnAnswer, Verdict, Unstarted, Live

\* The session in front ends and the next one, if any, takes its place.
LEMMA NextInFront ==
    ASSUME WellFormed, SoleRunner, NEW t \in Request, current = t,
           NEW pcs \in [Request -> PCs],
           pcs[t] \in {"stuck", "done"},
           \A r \in Request \ {t} :
              pcs[r] = pc[r] /\ pc[r] \in {"none", "queued", "stuck", "done"},
           StartNextPending(pcs),
           runs[t] \in {t, NoRequest},
           pcs[t] = "stuck" => phase[t] = "STUCK",
           phase' = phase,
           \A r \in Request \ {t} :
              runs'[r] = runs[r] /\ decisions'[r] = decisions[r] /\ outcome'[r] = outcome[r],
           runs'[t] \in {t, NoRequest},
           outcome'[t] # "dropped", decisions'[t] \in {0, 1},
           \A r \in Request : waits'[r] = NoRequest
    PROVE  SoleRunner'
<1>1. pc[t] # "queued"
  BY DEF SoleRunner, InFront
<1>2. \A r \in Request : pc[r] = "queued" => pcs[r] = "queued"
  BY <1>1
<1>3. /\ current' \in MaybeRequest
      /\ \A r \in Request : pc'[r] = pcs[r] \/ (pc[r] = "queued" /\ pc'[r] = "grace")
      /\ current' # NoRequest => pc[current'] = "queued" /\ pc'[current'] = "grace"
      /\ \A r \in Request : pc'[r] = "grace" => r = current'
  <2>1. /\ current' \in MaybeRequest
        /\ \A r \in Request : pc'[r] = pcs[r] \/ (pc[r] = "queued" /\ pc'[r] = "grace")
    BY <1>2, StartNextPendingKeeps DEF WellFormed
  <2>2. CASE pending = <<>>
    BY <2>1, <2>2 DEF StartNextPending
  <2>3. CASE pending # <<>>
    <3>1. current' = Head(pending) /\ pc' = [pcs EXCEPT ![Head(pending)] = "grace"]
      BY <2>3 DEF StartNextPending
    <3>2. Head(pending) \in Request /\ pc[Head(pending)] = "queued"
      <4>1. 1 \in 1 .. Len(pending) /\ Head(pending) = pending[1]
        BY <2>3, HeadTailProperties, EmptySeq, LenProperties DEF WellFormed, Typed
      <4> QED
        BY <2>3, <4>1, HeadTailProperties DEF WellFormed, Typed, QueueWellFormed
    <3> QED
      BY <2>1, <3>1, <3>2
  <2> QED
    BY <2>2, <2>3
<1>4. current' # t
  BY <1>1, <1>3, HitlAssumption
<1>5. InFront(t)' /\ OwnAnswer(t)' /\ Verdict(t)'
  <2>1. pc'[t] \in {"stuck", "done"} /\ pc'[t] = pcs[t]
    BY <1>1, <1>3
  <2> QED
    BY <1>4, <2>1 DEF InFront, OwnAnswer, Verdict, Unstarted, Live
<1>6. ASSUME NEW r \in Request \ {t} PROVE InFront(r)' /\ OwnAnswer(r)' /\ Verdict(r)'
  <2>1. InFront(r) /\ Verdict(r) /\ r # current
    BY DEF SoleRunner
  <2>2. CASE pc'[r] = "grace"
    <3>1. r = current' /\ pc[r] = "queued"
      BY <1>3, <2>2
    <3> QED
      BY <2>1, <2>2, <3>1 DEF InFront, OwnAnswer, Verdict, Unstarted, Live
  <2>3. CASE pc'[r] # "grace"
    <3>1. pc'[r] = pc[r] /\ r # current'
      BY <1>3, <2>3, HitlAssumption
    <3> QED
      BY <2>1, <3>1 DEF InFront, OwnAnswer, Verdict, Unstarted, Live
  <2> QED
    BY <2>2, <2>3
<1> QED
  BY <1>5, <1>6 DEF SoleRunner
---------------------------------------------------------------------------
(* Every action keeps SoleRunner.                                          *)

LEMMA AskHumanSole ==
    ASSUME WellFormed, SoleRunner, NEW r \in Request, AskHuman(r)
    PROVE  SoleRunner'
<1>1. /\ pc[r] = "none" /\ r # current /\ phase[r] = "IDLE" /\ decisions[r] = 0
      /\ runs[r] \in {r, NoRequest}
  BY DEF AskHuman, SoleRunner, InFront, Verdict
<1>2. \A t \in Request \ {r} : pc'[t] = pc[t] /\ (current' = t => current = t)
  BY <1>1 DEF AskHuman, WellFormed, Typed
<1>3. /\ pc'[r] \in {"queued", "created"}
      /\ current' = IF current = NoRequest THEN r ELSE current
      /\ pc'[r] = "created" <=> current = NoRequest
  BY <1>1 DEF AskHuman, WellFormed, Typed
<1>4. InFront(r)' /\ OwnAnswer(r)' /\ Verdict(r)'
  <2>1. OwnAnswer(r) /\ Verdict(r) /\ r # NoRequest
    BY HitlAssumption DEF SoleRunner
  <2> QED
    BY <1>1, <1>3, <2>1 DEF AskHuman, InFront, OwnAnswer, Verdict, Unstarted, Live
<1>5. ASSUME NEW t \in Request \ {r} PROVE InFront(t)' /\ OwnAnswer(t)' /\ Verdict(t)'
  <2>1. InFront(t) /\ OwnAnswer(t) /\ Verdict(t) /\ pc'[t] = pc[t]
    BY <1>2 DEF SoleRunner
  <2>2. pc[t] \in Unstarted \cup (Live \ {"stuck"}) => current' = t
    BY <2>1, <1>3, HitlAssumption DEF InFront
  <2>3. current' = t => current = t
    BY <1>2
  <2> QED
    BY <2>1, <2>2, <2>3 DEF AskHuman, InFront, OwnAnswer, Verdict
<1> QED
  BY <1>4, <1>5 DEF SoleRunner

\* An answer reaches the task in front, for whom it was meant.
LEMMA SubmitSole ==
    ASSUME WellFormed, SoleRunner, NEW r \in Request, r = current, Submit(r)
    PROVE  SoleRunner'
<1>1. answerFuture \in Request
  BY DEF Submit, AnswerOpen, WellFormed, Typed, MaybeRequest
<1>2. /\ pc' = Woken(answerFuture, "answered") /\ waits' = NoLonger(answerFuture)
      /\ future' = [future EXCEPT ![answerFuture] = [st |-> "set", for |-> r]]
      /\ answer' = [t \in Request |-> IF waits[t] = answerFuture THEN r ELSE answer[t]]
      /\ UNCHANGED <<current, phase, answerFuture, runs, outcome, decisions>>
  BY DEF Submit, sessionVars, historyVars
<1>3. \A t \in Request :
         \/ /\ pc[t] = "waiting" /\ waits[t] = answerFuture
            /\ pc'[t] = "answered" /\ waits'[t] = NoRequest
         \/ /\ waits[t] # answerFuture
            /\ pc'[t] = pc[t] /\ waits'[t] = waits[t]
  BY <1>1, <1>2, WokenKeeps
<1>4. ASSUME NEW t \in Request PROVE InFront(t)' /\ OwnAnswer(t)' /\ Verdict(t)'
  <2>1. InFront(t) /\ OwnAnswer(t) /\ Verdict(t)
    BY DEF SoleRunner
  <2>2. CASE pc[t] = "waiting" /\ waits[t] = answerFuture
    <3>1. /\ pc'[t] = "answered" /\ waits'[t] = NoRequest /\ current = t
          /\ phase[t] # "STUCK" /\ answer'[t] = t
      BY <1>2, <1>3, <2>1, <2>2, HitlAssumption DEF InFront, Live
    <3> QED
      BY <1>2, <2>1, <2>2, <3>1 DEF InFront, OwnAnswer, Verdict, Unstarted, Live
  <2>3. CASE waits[t] # answerFuture
    <3>1. pc'[t] = pc[t] /\ waits'[t] = waits[t] /\ answer'[t] = answer[t]
      BY <1>2, <1>3, <2>3
    <3>2. InFront(t)' /\ Verdict(t)'
      BY <1>2, <2>1, <3>1 DEF InFront, Verdict
    <3>3. pc[t] \in {"speaking", "waiting"} => answerFuture = t /\ current = t
      BY <2>1 DEF InFront, OwnAnswer, Live
    <3>4. future'[t] = IF t = answerFuture THEN [st |-> "set", for |-> r] ELSE future[t]
      BY <1>1, <1>2 DEF WellFormed, Typed
    <3>5. OwnAnswer(t)'
      BY <1>2, <2>1, <3>1, <3>3, <3>4 DEF OwnAnswer
    <3> QED
      BY <3>2, <3>5
  <2> QED
    BY <1>3, <2>2, <2>3
<1> QED
  BY <1>4 DEF SoleRunner

\* Only a STUCK session is reset: nobody is under way.
LEMMA ForceResetSole ==
    ASSUME OnlyStuckReset, WellFormed, SoleRunner,
           NEW decide \in BOOLEAN, ForceReset(decide)
    PROVE  SoleRunner'
<1>1. current \in Request /\ phase[current] = "STUCK"
  BY DEF OnlyStuckReset, ForceReset, MayReset, WellFormed, Typed, MaybeRequest
<1>2. \A r \in Request : pc[r] \in {"none", "queued", "stuck", "done"}
  <2> SUFFICES ASSUME NEW r \in Request PROVE pc[r] \in {"none", "queued", "stuck", "done"}
    OBVIOUS
  <2>1. InFront(r)
    BY DEF SoleRunner
  <2> QED
    BY <1>1, <2>1 DEF InFront, WellFormed, Typed, PCs
<1>3. \A r \in Request : waits[r] = NoRequest
  <2> SUFFICES ASSUME NEW r \in Request PROVE waits[r] = NoRequest
    OBVIOUS
  <2>1. pc[r] # "waiting"
    BY <1>2
  <2> QED
    BY <2>1 DEF WellFormed, Typed, TasksWellFormed, MaybeRequest
<1>4. /\ InFront(current) /\ decisions[current] = 0
      /\ pc[current] \in {"stuck", "done"}
      /\ runs[current] \in {current, NoRequest}
  <2>1. InFront(current) /\ Verdict(current)
    BY <1>1 DEF SoleRunner
  <2>2. pc[current] \in {"stuck", "done"}
    BY <1>1, <1>2, <2>1 DEF InFront
  <2> QED
    BY <2>1, <2>2 DEF InFront, Verdict
<1>5. waits' = waits /\ StartNextPending(pc)
  <2>1. CASE AnswerOpen
    <3>1. answerFuture \in Request
      BY <2>1 DEF AnswerOpen, WellFormed, Typed, MaybeRequest
    <3>2. waits' = NoLonger(answerFuture) /\ StartNextPending(Woken(answerFuture, "cancelled"))
      BY <2>1 DEF ForceReset
    <3>3. Woken(answerFuture, "cancelled") = pc /\ NoLonger(answerFuture) = waits
      BY <1>3, <3>1, HitlAssumption DEF Woken, NoLonger, WellFormed, Typed
    <3> QED
      BY <3>2, <3>3
  <2>2. CASE ~AnswerOpen
    BY <2>2 DEF ForceReset
  <2> QED
    BY <2>1, <2>2
<1>6. /\ outcome'[current] = "reset" /\ decisions'[current] \in {0, 1}
      /\ \A r \in Request \ {current} : outcome'[r] = outcome[r] /\ decisions'[r] = decisions[r]
      /\ phase' = phase /\ runs' = runs
  BY <1>1, <1>4 DEF ForceReset, WellFormed, Typed
<1>7. pc \in [Request -> PCs]
  BY DEF WellFormed, Typed
<1> QED
  BY <1>1, <1>2, <1>3, <1>4, <1>5, <1>6, <1>7, NextInFront

\* The steps that leave the task's session in front.
LEMMA MoveSole ==
    ASSUME WellFormed, SoleRunner, NEW t \in Request,
           \/ GraceOver(t) \/ Begin(t) \/ ListenOpen(t) \/ ListenAnswered(t)
           \/ AnswerTaken(t) \/ InterpretedSkip(t) \/ InterpretedDestination(t)
           \/ UnexpectedError(t)
    PROVE  SoleRunner'
<1> USE DEF sessionVars, historyVars
<1>1. pc[t] \in Unstarted \cup (Live \ {"stuck"})
  BY DEF GraceOver, Begin, ListenOpen, ListenAnswered, AnswerTaken, InterpretedSkip,
         InterpretedDestination, UnexpectedError, Unstarted, Live
<1>2. /\ current = t /\ t # NoRequest
      /\ pc[t] \in Live => runs[t] = t
  BY <1>1, Alone, HitlAssumption
<1>3. InFront(t) /\ OwnAnswer(t) /\ Verdict(t)
  BY DEF SoleRunner
<1>4. SUFFICES /\ InFront(t)' /\ OwnAnswer(t)' /\ Verdict(t)'
               /\ current' = current
               /\ \A r \in Request \ {t} :
                     /\ pc'[r] = pc[r] /\ phase'[r] = phase[r] /\ runs'[r] = runs[r]
                     /\ waits'[r] = waits[r]
                     /\ outcome'[r] = outcome[r] /\ decisions'[r] = decisions[r]
  <2>1. \A r \in Request \ {t} : InFront(r)' /\ OwnAnswer(r)' /\ Verdict(r)'
    BY <1>1, <1>4, OthersKept
  <2> QED
    BY <1>4, <2>1 DEF SoleRunner
<1> USE DEF WellFormed, Typed, InFront, OwnAnswer, Verdict, Unstarted, Live
<1>5. CASE GraceOver(t)
  BY <1>2, <1>3, <1>5 DEF GraceOver
<1>6. CASE Begin(t)
  BY <1>2, <1>3, <1>6 DEF Begin
<1>7. CASE ListenOpen(t)
  BY <1>2, <1>3, <1>7 DEF ListenOpen
<1>8. CASE ListenAnswered(t)
  BY <1>2, <1>3, <1>8 DEF ListenAnswered
<1>9. CASE AnswerTaken(t) \/ InterpretedSkip(t)
  BY <1>2, <1>3, <1>9 DEF AnswerTaken, InterpretedSkip
<1>10. CASE InterpretedDestination(t)
  BY <1>2, <1>3, <1>10 DEF InterpretedDestination
<1>11. CASE UnexpectedError(t)
  BY <1>2, <1>3, <1>11 DEF UnexpectedError, Fail
<1> QED
  BY <1>5, <1>6, <1>7, <1>8, <1>9, <1>10, <1>11

\* What asking again, or giving up, does.
LEMMA AskAgainEffect ==
    ASSUME WellFormed, SoleRunner, NEW t \in Request,
           \/ HoldAnnounced(t) \/ AnswerTimeout(t) \/ TimeoutBeatsWakeUp(t)
           \/ InterpretedUnclear(t)
    PROVE  /\ pc[t] \in Live \ {"stuck", "resolved", "skipped"}
           /\ current = t /\ t # NoRequest /\ runs[t] = t
           /\ waits'[t] = NoRequest
           /\ \A r \in Request \ {t} :
                 pc'[r] = pc[r] /\ phase'[r] = phase[r] /\ waits'[r] = waits[r]
           /\ UNCHANGED <<current, pending, runs, decisions, outcome>>
           /\ \/ /\ pc'[t] = "speaking" /\ phase'[t] = "ASKING"
                 /\ answerFuture' = t /\ future'[t] = Open
              \/ pc'[t] = "stuck" /\ phase'[t] = "STUCK"
<1>1. /\ pc[t] \in Live \ {"stuck", "resolved", "skipped"}
      /\ pc[t] \in Unstarted \cup (Live \ {"stuck"})
  BY DEF HoldAnnounced, AnswerTimeout, TimeoutBeatsWakeUp, InterpretedUnclear, Live
<1>2. /\ current = t /\ t # NoRequest /\ runs[t] = t
      /\ \A r \in Request \ {t} : waits[r] = NoRequest
  BY <1>1, Alone, HitlAssumption
<1>3. /\ \E n \in Nat, pcs \in [Request -> PCs], futs \in [Request -> Futures] :
            /\ AskOrGiveUp(t, n, pcs, futs)
            /\ \A r \in Request \ {t} : pcs[r] = pc[r]
      /\ waits'[t] = NoRequest
      /\ \A r \in Request \ {t} : waits'[r] = waits[r]
      /\ UNCHANGED <<current, pending, runs, decisions, outcome>>
  <2>1. attempt[runs[t]] \in Nat /\ attempt[runs[t]] + 1 \in Nat
    BY <1>2 DEF WellFormed, Typed
  <2>2. CASE AnswerTimeout(t)
    <3>1. waits[t] = t
      BY <2>2 DEF AnswerTimeout, SoleRunner, OwnAnswer, WellFormed, TasksWellFormed
    <3>2. [future EXCEPT ![waits[t]] = Cancelled(@)] \in [Request -> Futures]
      BY <3>1 DEF Cancelled, Futures, WellFormed, Typed
    <3>3. \A r \in Request \ {t} : waits[r] # t
      BY <1>2
    <3>4. /\ Woken(t, "cancelled") \in [Request -> PCs]
          /\ NoLonger(t)[t] = NoRequest
          /\ \A r \in Request \ {t} :
                Woken(t, "cancelled")[r] = pc[r] /\ NoLonger(t)[r] = waits[r]
      BY <3>1, <3>3, WokenKeeps
    <3>5. /\ AskOrGiveUp(t, attempt[runs[t]] + 1, Woken(t, "cancelled"),
                         [future EXCEPT ![waits[t]] = Cancelled(@)])
          /\ waits' = NoLonger(t)
          /\ UNCHANGED <<current, pending, runs, decisions, outcome>>
      BY <2>2, <3>1 DEF AnswerTimeout, historyVars
    <3> QED
      BY <2>1, <3>2, <3>4, <3>5
  <2>3. CASE HoldAnnounced(t) \/ TimeoutBeatsWakeUp(t) \/ InterpretedUnclear(t)
    <3>1. /\ \E n \in Nat : AskOrGiveUp(t, n, pc, future)
          /\ pc[t] # "waiting"
          /\ UNCHANGED <<waits, current, pending, runs, decisions, outcome>>
      BY <2>1, <2>3 DEF HoldAnnounced, TimeoutBeatsWakeUp, InterpretedUnclear, historyVars
    <3>2. waits[t] = NoRequest
      BY <3>1 DEF WellFormed, Typed, TasksWellFormed, MaybeRequest
    <3>3. pc \in [Request -> PCs] /\ future \in [Request -> Futures]
      BY DEF WellFormed, Typed
    <3> QED
      BY <3>1, <3>2, <3>3
  <2> QED
    BY <2>2, <2>3
<1>4. /\ \A r \in Request \ {t} : pc'[r] = pc[r] /\ phase'[r] = phase[r]
      /\ \/ /\ pc'[t] = "speaking" /\ phase'[t] = "ASKING"
            /\ answerFuture' = t /\ future'[t] = Open
         \/ pc'[t] = "stuck" /\ phase'[t] = "STUCK"
  <2>1. PICK n \in Nat, pcs \in [Request -> PCs], futs \in [Request -> Futures] :
            /\ AskOrGiveUp(t, n, pcs, futs)
            /\ \A r \in Request \ {t} : pcs[r] = pc[r]
    BY <1>3
  <2>2. CASE n < MaxAttempts
    <3>1. /\ phase' = [phase EXCEPT ![t] = "ASKING"] /\ pc' = [pcs EXCEPT ![t] = "speaking"]
          /\ future' = [futs EXCEPT ![t] = Open] /\ answerFuture' = t
      BY <1>2, <2>1, <2>2 DEF AskOrGiveUp
    <3> QED
      BY <2>1, <3>1 DEF WellFormed, Typed
  <2>3. CASE ~(n < MaxAttempts)
    <3>1. phase' = [phase EXCEPT ![t] = "STUCK"] /\ pc' = [pcs EXCEPT ![t] = "stuck"]
      BY <1>2, <2>1, <2>3 DEF AskOrGiveUp
    <3> QED
      BY <2>1, <3>1 DEF WellFormed, Typed
  <2> QED
    BY <2>2, <2>3
<1> QED
  BY <1>1, <1>2, <1>3, <1>4

\* Asking again, or giving up.
LEMMA AskAgainSole ==
    ASSUME WellFormed, SoleRunner, NEW t \in Request,
           \/ HoldAnnounced(t) \/ AnswerTimeout(t) \/ TimeoutBeatsWakeUp(t)
           \/ InterpretedUnclear(t)
    PROVE  SoleRunner'
<1>1. /\ pc[t] \in Live \ {"stuck", "resolved", "skipped"}
      /\ pc[t] \in Unstarted \cup (Live \ {"stuck"})
      /\ current = t /\ t # NoRequest /\ runs[t] = t
      /\ waits'[t] = NoRequest
      /\ \A r \in Request \ {t} :
            pc'[r] = pc[r] /\ phase'[r] = phase[r] /\ waits'[r] = waits[r]
      /\ UNCHANGED <<current, runs, decisions, outcome>>
      /\ \/ /\ pc'[t] = "speaking" /\ phase'[t] = "ASKING"
            /\ answerFuture' = t /\ future'[t] = Open
         \/ pc'[t] = "stuck" /\ phase'[t] = "STUCK"
  BY AskAgainEffect
<1>2. InFront(t)' /\ OwnAnswer(t)' /\ Verdict(t)'
  <2>1. InFront(t) /\ OwnAnswer(t) /\ Verdict(t)
    BY DEF SoleRunner
  <2>2. decisions[t] = 0
    BY <1>1, <2>1 DEF Verdict
  <2> QED
    BY <1>1, <2>1, <2>2 DEF InFront, OwnAnswer, Verdict, Unstarted, Live, Open
<1>3. \A r \in Request \ {t} : InFront(r)' /\ OwnAnswer(r)' /\ Verdict(r)'
  BY <1>1, OthersKept
<1> QED
  BY <1>2, <1>3 DEF SoleRunner

\* A task ends: with an answer or a skip, or after it got STUCK.
LEMMA EndSole ==
    ASSUME WellFormed, SoleRunner, NEW t \in Request, Closed(t)
    PROVE  SoleRunner'
<1>1. /\ InFront(t) /\ OwnAnswer(t) /\ Verdict(t)
      /\ pc[t] \in Live /\ pc[t] # "waiting" /\ runs[t] = t /\ t # NoRequest
  BY HitlAssumption DEF Closed, SoleRunner, InFront, WellFormed, TasksWellFormed, Live
<1>2. waits[t] = NoRequest
  BY <1>1 DEF WellFormed, Typed, TasksWellFormed, MaybeRequest
<1>3. /\ UNCHANGED <<phase, attempt, future, waits, answer, asked, decisions>>
      /\ runs' = [runs EXCEPT ![t] = NoRequest]
  BY DEF Closed, Finally
<1>4. CASE OwnsCurrent(t, phase[runs[t]])
  <2>1. current = t /\ pc[t] \in {"resolved", "skipped"}
    BY <1>1, <1>4 DEF OwnsCurrent, Closed, InFront
  <2>2. /\ outcome' = [outcome EXCEPT ![t] = pc[t]]
        /\ StartNextPending([pc EXCEPT ![t] = "done"])
    BY <1>1, <1>4, <2>1 DEF Closed, Finally
  <2>3. \A r \in Request \ {t} : /\ pc[r] \in {"none", "queued", "stuck", "done"}
                                 /\ waits[r] = NoRequest
    BY <2>1, Alone DEF Live
  <2>4. /\ [pc EXCEPT ![t] = "done"] \in [Request -> PCs]
        /\ [pc EXCEPT ![t] = "done"][t] = "done"
        /\ \A r \in Request \ {t} : [pc EXCEPT ![t] = "done"][r] = pc[r]
    BY DEF WellFormed, Typed, PCs
  <2>5. \A r \in Request \ {t} : /\ runs'[r] = runs[r] /\ decisions'[r] = decisions[r]
                                 /\ outcome'[r] = outcome[r]
    BY <1>3, <2>2 DEF WellFormed, Typed
  <2>6. runs'[t] = NoRequest /\ outcome'[t] # "dropped" /\ decisions'[t] \in {0, 1}
    BY <1>1, <1>3, <2>1, <2>2 DEF WellFormed, Typed, Verdict
  <2>7. \A r \in Request : waits'[r] = NoRequest
    BY <1>2, <1>3, <2>3
  <2> HIDE DEF Closed
  <2> QED
    BY <1>1, <1>3, <2>1, <2>2, <2>3, <2>4, <2>5, <2>6, <2>7, NextInFront
<1>5. CASE ~OwnsCurrent(t, phase[runs[t]])
  <2>1. /\ pc' = [pc EXCEPT ![t] = "done"]
        /\ UNCHANGED <<answerFuture, outcome, current, pending, served>>
    BY <1>5 DEF Closed, Finally
  <2>2. current = t => phase[t] = "STUCK"
    BY <1>1, <1>5 DEF OwnsCurrent
  <2>3. InFront(t)' /\ OwnAnswer(t)' /\ Verdict(t)'
    <3>1. pc[t] \in {"resolved", "skipped"} => current = t /\ phase[t] # "STUCK"
      BY <1>1 DEF InFront, Live
    <3>2. pc[t] = "stuck"
      BY <2>2, <3>1 DEF Closed
    <3>3. pc'[t] = "done" /\ runs'[t] = NoRequest
      BY <1>3, <2>1 DEF WellFormed, Typed
    <3> QED
      BY <1>1, <1>3, <2>1, <2>2, <3>2, <3>3 DEF InFront, OwnAnswer, Verdict, Unstarted, Live
  <2>4. ASSUME NEW r \in Request \ {t} PROVE InFront(r)' /\ OwnAnswer(r)' /\ Verdict(r)'
    <3>1. pc'[r] = pc[r] /\ runs'[r] = runs[r]
      BY <1>3, <2>1 DEF WellFormed, Typed
    <3> QED
      BY <1>3, <2>1, <3>1 DEF SoleRunner, InFront, OwnAnswer, Verdict
  <2> QED
    BY <2>3, <2>4 DEF SoleRunner
<1> QED
  BY <1>4, <1>5
---------------------------------------------------------------------------
\* A task is cancelled, or finds its future gone, only after a reset.
LEMMA NeverCancelled ==
    ASSUME WellFormed, SoleRunner, NEW t \in Request
    PROVE  ~ListenCancelled(t) /\ ~ListenOrphaned(t) /\ ~TaskCancelled(t)
BY HitlAssumption
DEF ListenCancelled, ListenOrphaned, TaskCancelled, SoleRunner, InFront, OwnAnswer

LEMMA NextSole ==
    OnlyStuckReset /\ WellFormed /\ SoleRunner /\ [Next]_vars => SoleRunner'
<1> SUFFICES ASSUME OnlyStuckReset, WellFormed, SoleRunner, [Next]_vars PROVE SoleRunner'
  OBVIOUS
<1>1. ASSUME NEW r \in Request, AskHuman(r) PROVE SoleRunner'
  BY <1>1, AskHumanSole
<1>2. CASE AnswerOnHmi
  BY <1>2, SubmitSole DEF AnswerOnHmi, WellFormed, Typed, MaybeRequest
<1>3. ASSUME NEW t \in Request, AnswerByVoice(t) PROVE SoleRunner'
  <2>1. current = t /\ runs[t] = t /\ Submit(t)
    BY <1>3, Alone DEF AnswerByVoice, Live
  <2> QED
    BY <2>1, SubmitSole
<1>4. ASSUME NEW decide \in BOOLEAN, ForceReset(decide) PROVE SoleRunner'
  BY <1>4, ForceResetSole
<1>5. ASSUME NEW t \in Request, TaskStep(t) PROVE SoleRunner'
  BY <1>5, MoveSole, AskAgainSole, EndSole, NeverCancelled DEF TaskStep, Listen, Interpreted
<1>6. CASE UNCHANGED vars
  BY <1>6 DEF vars, sessionVars, taskVars, historyVars, SoleRunner, InFront, OwnAnswer, Verdict
<1> QED
  BY <1>1, <1>2, <1>3, <1>4, <1>5, <1>6 DEF Next

LEMMA InitSole == Init => SoleRunner
BY HitlAssumption DEF Init, SoleRunner, InFront, OwnAnswer, Verdict, Unstarted, Live, NoFuture

\* As long as only STUCK sessions are reset, a request's task runs that
\* request's session and no two are under way.
THEOREM AlwaysSole == OnlyStuckReset => (Spec => []SoleRunner)
<1> SUFFICES ASSUME OnlyStuckReset PROVE Spec => []SoleRunner
  OBVIOUS
<1>1. WellFormed /\ SoleRunner /\ [Next]_vars => SoleRunner'
  BY NextSole
<1> QED
  BY <1>1, InitSole, AlwaysWellFormed, PTL DEF Spec

\* The object of a request is sent to a box at most once.
THEOREM DecidesOnce == OnlyStuckReset => (Spec => []AtMostOneDecision)
<1> SUFFICES ASSUME OnlyStuckReset PROVE Spec => []AtMostOneDecision
  OBVIOUS
<1>1. SoleRunner => AtMostOneDecision
  BY DEF SoleRunner, Verdict, AtMostOneDecision
<1> QED
  BY <1>1, AlwaysSole, PTL

\* An answer is interpreted for the session it was given to.
THEOREM AnswersItsSession == OnlyStuckReset => (Spec => []AnswerForSession)
<1> SUFFICES ASSUME OnlyStuckReset PROVE Spec => []AnswerForSession
  OBVIOUS
<1>1. WellFormed /\ SoleRunner => AnswerForSession
  BY Alone DEF SoleRunner, OwnAnswer, AnswerForSession, Live
<1> QED
  BY <1>1, AlwaysSole, AlwaysWellFormed, PTL

\* No session is dropped: it ends by an answer, a skip or a reset.
THEOREM NothingDropped == OnlyStuckReset => (Spec => []NeverDropped)
<1> SUFFICES ASSUME OnlyStuckReset PROVE Spec => []NeverDropped
  OBVIOUS
<1>1. SoleRunner => NeverDropped
  BY DEF SoleRunner, Verdict, NeverDropped
<1> QED
  BY <1>1, AlwaysSole, PTL
---------------------------------------------------------------------------
(* Who ends a session, and when                                            *)

\* The finally clause takes _current only from the session of its task.
LEMMA FinallyEnds ==
    ASSUME WellFormed, NEW t \in Request, NEW ph, NEW how, pc[t] \in Live,
           Finally(t, ph, how), current' # current
    PROVE  current = runs[t] /\ ph # "STUCK" /\ pc'[t] = "done"
<1>1. /\ OwnsCurrent(t, ph)
      /\ StartNextPending([pc EXCEPT ![t] = "done"])
  BY DEF Finally
<1>2. CASE pending = <<>>
  BY <1>1, <1>2 DEF StartNextPending, OwnsCurrent, WellFormed, Typed
<1>3. CASE pending # <<>>
  <2>1. /\ Len(pending) \in Nat /\ Len(pending) > 0 /\ Head(pending) = pending[1]
    BY <1>3, HeadTailProperties, EmptySeq, LenProperties DEF WellFormed, Typed
  <2>2. Head(pending) # t
    BY <2>1 DEF WellFormed, QueueWellFormed, Live
  <2>3. pc' = [[pc EXCEPT ![t] = "done"] EXCEPT ![Head(pending)] = "grace"]
    BY <1>1, <1>3 DEF StartNextPending
  <2> QED
    BY <1>1, <2>2, <2>3 DEF OwnsCurrent, WellFormed, Typed
<1> QED
  BY <1>2, <1>3

\* The steps that take a session from _current.
LEMMA EndsCurrent ==
    ASSUME WellFormed, [Next]_vars, NEW s \in Request, current = s, current' # s
    PROVE  \/ outcome'[s] = "reset"
           \/ \E t \in Request :
                 /\ pc[t] \in Live /\ runs[t] = s /\ pc'[t] = "done"
                 /\ ListenCancelled(t) \/ phase[s] # "STUCK"
<1>1. s # NoRequest
  BY HitlAssumption
<1>2. ASSUME NEW r \in Request, AskHuman(r) PROVE FALSE
  BY <1>1, <1>2 DEF AskHuman
<1>3. CASE AnswerOnHmi \/ (\E t \in Request : AnswerByVoice(t)) \/ UNCHANGED vars
  BY <1>3 DEF AnswerOnHmi, AnswerByVoice, Submit, vars, sessionVars
<1>4. ASSUME NEW decide \in BOOLEAN, ForceReset(decide) PROVE outcome'[s] = "reset"
  BY <1>4 DEF ForceReset, WellFormed, Typed
<1>5. ASSUME NEW t \in Request, TaskStep(t)
      PROVE  /\ pc[t] \in Live /\ runs[t] = s /\ pc'[t] = "done"
             /\ ListenCancelled(t) \/ phase[s] # "STUCK"
  <2>1. CASE ListenCancelled(t)
    <3>1. pc[t] \in Live /\ Finally(t, "LISTENING", "dropped")
      BY <2>1 DEF ListenCancelled, Live
    <3> QED
      BY <2>1, <3>1, FinallyEnds
  <2>2. CASE TaskCancelled(t) \/ Closed(t)
    <3>1. pc[t] \in Live /\ \E how : Finally(t, phase[runs[t]], how)
      BY <2>2 DEF TaskCancelled, Closed, Live
    <3> QED
      BY <3>1, FinallyEnds
  <2>3. CASE ~(ListenCancelled(t) \/ TaskCancelled(t) \/ Closed(t))
    <3>1. UNCHANGED current
      BY <1>5, <2>3
         DEF TaskStep, GraceOver, Begin, HoldAnnounced, Listen, ListenOpen, ListenAnswered,
             ListenOrphaned, AnswerTimeout, TimeoutBeatsWakeUp, AnswerTaken, Interpreted,
             InterpretedUnclear, InterpretedSkip, InterpretedDestination, UnexpectedError,
             sessionVars
    <3> QED
      BY <3>1
  <2> QED
    BY <2>1, <2>2, <2>3
<1> QED
  BY <1>2, <1>3, <1>4, <1>5 DEF Next

\* Only its own task or the administrator ends the current session, however
\* the class is used and whenever the administrator resets.
THEOREM EndedByOwnTask == Spec => EndedByItsTask
<1>1. WellFormed /\ [Next]_vars
        => [\A s \in Request :
              (current = s /\ current' # s) =>
                 \/ outcome'[s] = "reset"
                 \/ \E t \in Request : pc[t] \in Live /\ runs[t] = s /\ pc'[t] = "done"]_vars
  BY EndsCurrent
<1> QED
  BY <1>1, AlwaysWellFormed, PTL DEF Spec, EndedByItsTask
---------------------------------------------------------------------------
(* When no question is asked while one is open, the queue stays empty and  *)
(* every task runs its own request's session, whatever is reset.           *)

Own(t) ==
    /\ runs[t] \in {t, NoRequest}
    /\ pc[t] \in {"none", "created", "done"} \cup Live
    /\ pc[t] = "none" => current # t
    /\ pc[t] = "created" => current \in {t, NoRequest}
    /\ pc[t] \in Live \ {"stuck"} => phase[t] # "STUCK"
    /\ pc[t] = "done" /\ current = t => phase[t] = "STUCK"

Owned == pending = <<>> /\ \A t \in Request : Own(t)

LEMMA RunsItsOwn ==
    ASSUME WellFormed, Owned, NEW t \in Request, pc[t] \in Live
    PROVE  runs[t] = t
BY HitlAssumption DEF WellFormed, TasksWellFormed, Owned, Own

LEMMA InitOwned == Init => Owned
BY HitlAssumption DEF Init, Owned, Own

\* A step by which r at most wakes up, and is not current afterwards unless
\* it was before.
LEMMA OtherOwned ==
    ASSUME NEW r \in Request, Own(r), current' \in {current, NoRequest},
           phase'[r] = phase[r], runs'[r] = runs[r],
           pc'[r] = pc[r] \/ (pc[r] = "waiting" /\ pc'[r] \in {"answered", "cancelled"})
    PROVE  Own(r)'
BY HitlAssumption DEF Own, Live

\* The calls from outside
LEMMA CallOwned ==
    ASSUME WellFormed, Owned, ~AskWhileBusy,
           \/ \E r \in Request : AskHuman(r)
           \/ AnswerOnHmi
           \/ \E t \in Request : AnswerByVoice(t)
           \/ \E decide \in BOOLEAN : ForceReset(decide)
    PROVE  Owned'
<1>1. ASSUME NEW r \in Request, AskHuman(r) PROVE Owned'
  <2>1. /\ current = NoRequest /\ current' = r /\ pending' = pending
        /\ pc[r] = "none" /\ pc' = [pc EXCEPT ![r] = "created"]
        /\ \A t \in Request : pc[t] # "created"
        /\ UNCHANGED <<phase, runs>>
    BY <1>1 DEF AskHuman
  <2>2. ASSUME NEW t \in Request PROVE Own(t)'
    <3>1. CASE t = r
      BY <2>1, <3>1, HitlAssumption DEF WellFormed, Typed, Owned, Own, Live
    <3>2. CASE t # r
      BY <2>1, <3>2, HitlAssumption DEF WellFormed, Typed, Owned, Own
    <3> QED
      BY <3>1, <3>2
  <2> QED
    BY <2>1, <2>2 DEF Owned
<1>2. ASSUME NEW s, Submit(s) PROVE Owned'
  <2>1. /\ UNCHANGED <<current, pending, phase, runs>>
        /\ answerFuture \in Request /\ pc' = Woken(answerFuture, "answered")
    BY <1>2 DEF Submit, AnswerOpen, sessionVars, WellFormed, Typed, MaybeRequest
  <2>2. \A r \in Request : pc'[r] = pc[r] \/ (pc[r] = "waiting" /\ pc'[r] = "answered")
    BY <2>1, WokenKeeps
  <2> QED
    BY <2>1, <2>2, OtherOwned DEF Owned
<1>3. ASSUME NEW decide \in BOOLEAN, ForceReset(decide) PROVE Owned'
  <2>1. /\ UNCHANGED <<phase, runs>> /\ pending = <<>>
        /\ \/ answerFuture \in Request /\ StartNextPending(Woken(answerFuture, "cancelled"))
           \/ StartNextPending(pc)
    BY <1>3 DEF ForceReset, Owned, AnswerOpen, WellFormed, Typed, MaybeRequest
  <2>2. /\ current' = NoRequest /\ UNCHANGED pending
        /\ \/ answerFuture \in Request /\ pc' = Woken(answerFuture, "cancelled")
           \/ pc' = pc
    BY <2>1 DEF StartNextPending
  <2>3. \A r \in Request : pc'[r] = pc[r] \/ (pc[r] = "waiting" /\ pc'[r] = "cancelled")
    BY <2>2, WokenKeeps
  <2> QED
    BY <2>1, <2>2, <2>3, OtherOwned DEF Owned
<1> QED
  BY <1>1, <1>2, <1>3 DEF AnswerOnHmi, AnswerByVoice

\* The steps of a task that only move it on
LEMMA MoveOwned ==
    ASSUME WellFormed, Owned, NEW t \in Request,
           \/ GraceOver(t) \/ Begin(t) \/ ListenOpen(t) \/ ListenAnswered(t)
           \/ ListenOrphaned(t) \/ AnswerTaken(t) \/ InterpretedSkip(t)
           \/ InterpretedDestination(t) \/ UnexpectedError(t)
    PROVE  Owned'
<1>1. Own(t) /\ pc[t] \in {"created"} \cup Live
  BY DEF Owned, Own, GraceOver, Begin, ListenOpen, ListenAnswered, ListenOrphaned, AnswerTaken,
         InterpretedSkip, InterpretedDestination, UnexpectedError, Live
<1>2. SUFFICES /\ Own(t)' /\ UNCHANGED <<current, pending>>
               /\ \A r \in Request \ {t} :
                     pc'[r] = pc[r] /\ phase'[r] = phase[r] /\ runs'[r] = runs[r]
  <2>1. \A r \in Request \ {t} : Own(r)'
    BY <1>2, OtherOwned DEF Owned
  <2> QED
    BY <1>2, <2>1 DEF Owned
<1> USE DEF sessionVars, historyVars, WellFormed, Typed
<1>3. CASE GraceOver(t)
  BY <1>1, <1>3 DEF GraceOver, Live
<1>4. CASE Begin(t)
  <2>1. current \in {t, NoRequest} /\ pc[t] = "created"
    BY <1>1, <1>4 DEF Begin, Own, Live
  <2>2. CASE current = NoRequest
    BY <1>1, <1>4, <2>1, <2>2, HitlAssumption DEF Begin, Own, Live
  <2>3. CASE current = t /\ t # NoRequest
    BY <1>1, <1>4, <2>1, <2>3 DEF Begin, Own, Live
  <2> QED
    BY <2>1, <2>2, <2>3, HitlAssumption
<1>5. ASSUME pc[t] \in Live PROVE runs[t] = t /\ t # NoRequest
  BY <1>5, RunsItsOwn, HitlAssumption
<1>6. CASE ListenOpen(t) \/ ListenAnswered(t) \/ AnswerTaken(t)
  BY <1>1, <1>5, <1>6 DEF ListenOpen, ListenAnswered, AnswerTaken, Own, Live
<1>7. CASE ListenOrphaned(t) \/ UnexpectedError(t)
  BY <1>1, <1>5, <1>7 DEF ListenOrphaned, UnexpectedError, Fail, Own, Live
<1>8. CASE InterpretedSkip(t) \/ InterpretedDestination(t)
  BY <1>1, <1>5, <1>8 DEF InterpretedSkip, InterpretedDestination, Own, Live
<1> QED
  BY <1>3, <1>4, <1>6, <1>7, <1>8

\* Asking again, or giving up: the future the task waited for, and so the
\* task that is woken, may be another one's.
LEMMA AskAgainOwned ==
    ASSUME WellFormed, Owned, NEW t \in Request,
           \/ HoldAnnounced(t) \/ AnswerTimeout(t) \/ TimeoutBeatsWakeUp(t)
           \/ InterpretedUnclear(t)
    PROVE  Owned'
<1>1. pc[t] \in Live /\ runs[t] = t /\ Own(t) /\ t # NoRequest
  BY RunsItsOwn, HitlAssumption
     DEF HoldAnnounced, AnswerTimeout, TimeoutBeatsWakeUp, InterpretedUnclear, Live, Owned
<1>2. UNCHANGED <<current, pending, runs>>
  BY DEF HoldAnnounced, AnswerTimeout, TimeoutBeatsWakeUp, InterpretedUnclear
<1>3. PICK pcs \in [Request -> PCs] :
         /\ \/ pc' = [pcs EXCEPT ![t] = "speaking"] /\ phase' = [phase EXCEPT ![t] = "ASKING"]
            \/ pc' = [pcs EXCEPT ![t] = "stuck"] /\ phase' = [phase EXCEPT ![t] = "STUCK"]
         /\ \A r \in Request : pcs[r] = pc[r] \/ (pc[r] = "waiting" /\ pcs[r] = "cancelled")
  <2>1. CASE AnswerTimeout(t)
    <3>1. waits[t] \in Request
      BY <2>1 DEF AnswerTimeout, WellFormed, TasksWellFormed
    <3>2. /\ Woken(waits[t], "cancelled") \in [Request -> PCs]
          /\ \A r \in Request :
                \/ Woken(waits[t], "cancelled")[r] = pc[r]
                \/ pc[r] = "waiting" /\ Woken(waits[t], "cancelled")[r] = "cancelled"
      BY <3>1, WokenKeeps
    <3> QED
      BY <1>1, <2>1, <3>2 DEF AnswerTimeout, AskOrGiveUp
  <2>2. CASE HoldAnnounced(t) \/ TimeoutBeatsWakeUp(t) \/ InterpretedUnclear(t)
    <3>1. pc \in [Request -> PCs]
      BY DEF WellFormed, Typed
    <3>2. \/ pc' = [pc EXCEPT ![t] = "speaking"] /\ phase' = [phase EXCEPT ![t] = "ASKING"]
          \/ pc' = [pc EXCEPT ![t] = "stuck"] /\ phase' = [phase EXCEPT ![t] = "STUCK"]
      BY <1>1, <2>2 DEF HoldAnnounced, TimeoutBeatsWakeUp, InterpretedUnclear, AskOrGiveUp
    <3> QED
      BY <3>1, <3>2
  <2> QED
    BY <2>1, <2>2
<1>4. /\ \/ pc'[t] = "speaking" /\ phase'[t] = "ASKING"
         \/ pc'[t] = "stuck" /\ phase'[t] = "STUCK"
      /\ \A r \in Request \ {t} : pc'[r] = pcs[r] /\ phase'[r] = phase[r]
  BY <1>3 DEF WellFormed, Typed
<1>5. Own(t)'
  BY <1>1, <1>2, <1>4 DEF Own, Live
<1>6. \A r \in Request \ {t} : Own(r)'
  BY <1>2, <1>3, <1>4, OtherOwned DEF Owned
<1> QED
  BY <1>2, <1>5, <1>6 DEF Owned

\* The end of a task
LEMMA EndOwned ==
    ASSUME WellFormed, Owned, NEW t \in Request,
           ListenCancelled(t) \/ TaskCancelled(t) \/ Closed(t)
    PROVE  Owned'
<1>1. pc[t] \in Live /\ runs[t] = t /\ Own(t) /\ t # NoRequest /\ pending = <<>>
  BY RunsItsOwn, HitlAssumption DEF ListenCancelled, TaskCancelled, Closed, Live, Owned
<1>2. PICK ph, how : /\ Finally(t, ph, how)
                     /\ phase' = [phase EXCEPT ![t] = ph]
  <2>1. CASE ListenCancelled(t)
    BY <1>1, <2>1 DEF ListenCancelled
  <2>2. CASE TaskCancelled(t) \/ Closed(t)
    <3>1. phase' = [phase EXCEPT ![t] = phase[t]]
      BY <2>2 DEF TaskCancelled, Closed, WellFormed, Typed
    <3> QED
      BY <1>1, <2>2, <3>1 DEF TaskCancelled, Closed
  <2> QED
    BY <2>1, <2>2
<1>3. /\ runs' = [runs EXCEPT ![t] = NoRequest]
      /\ pc' = [pc EXCEPT ![t] = "done"] /\ UNCHANGED pending
      /\ \/ current' = NoRequest
         \/ UNCHANGED current /\ (current # t \/ ph = "STUCK")
  BY <1>1, <1>2 DEF Finally, StartNextPending, OwnsCurrent
<1>4. Own(t)'
  BY <1>1, <1>2, <1>3 DEF Own, Live, WellFormed, Typed
<1>5. \A r \in Request \ {t} : Own(r)'
  <2>1. \A r \in Request \ {t} :
           pc'[r] = pc[r] /\ phase'[r] = phase[r] /\ runs'[r] = runs[r]
    BY <1>2, <1>3 DEF WellFormed, Typed
  <2> QED
    BY <1>3, <2>1, OtherOwned DEF Owned
<1> QED
  BY <1>3, <1>4, <1>5 DEF Owned

LEMMA NextOwned == ~AskWhileBusy /\ WellFormed /\ Owned /\ [Next]_vars => Owned'
<1> SUFFICES ASSUME ~AskWhileBusy, WellFormed, Owned, [Next]_vars PROVE Owned'
  OBVIOUS
<1>1. ASSUME NEW t \in Request, TaskStep(t) PROVE Owned'
  BY <1>1, MoveOwned, AskAgainOwned, EndOwned DEF TaskStep, Listen, Interpreted
<1>2. CASE UNCHANGED vars
  BY <1>2 DEF vars, sessionVars, taskVars, Owned, Own
<1> QED
  BY <1>1, <1>2, CallOwned DEF Next

THEOREM AlwaysOwned == ~AskWhileBusy => (Spec => []Owned)
<1> SUFFICES ASSUME ~AskWhileBusy PROVE Spec => []Owned
  OBVIOUS
<1>1. WellFormed /\ Owned /\ [Next]_vars => Owned'
  BY NextOwned
<1> QED
  BY <1>1, InitOwned, AlwaysWellFormed, PTL DEF Spec

\* A STUCK session stays current until the administrator resets it, even if
\* a late task ends meanwhile: as long as only STUCK sessions are reset, or
\* no question is asked while one is open.  When the class is used without
\* either, two tasks can run one session, and the second to end takes it
\* from _current.
THEOREM StuckStays == OnlyStuckReset \/ ~AskWhileBusy => (Spec => StuckKeepsCurrent)
<1> DEFINE Kept == \A s \in Request :
                      (current = s /\ phase[s] = "STUCK" /\ current' # s) => outcome'[s] = "reset"
<1>1. ASSUME WellFormed, SoleRunner \/ Owned, [Next]_vars
      PROVE  [Kept]_vars
  <2> SUFFICES ASSUME NEW s \in Request, current = s, phase[s] = "STUCK", current' # s,
                      NEW t \in Request, pc[t] \in Live, runs[t] = s, ListenCancelled(t)
               PROVE  FALSE
    BY <1>1, EndsCurrent
  <2>1. ~SoleRunner
    BY <1>1, NeverCancelled
  <2>2. t = s /\ pc[t] \in Live \ {"stuck"}
    BY <1>1, <2>1, RunsItsOwn DEF ListenCancelled, Live
  <2> QED
    BY <1>1, <2>1, <2>2 DEF Owned, Own
<1>2. CASE OnlyStuckReset
  <2>1. Spec => [](WellFormed /\ SoleRunner) /\ [][Next]_vars
    BY <1>2, AlwaysSole, AlwaysWellFormed, PTL DEF Spec
  <2>2. WellFormed /\ SoleRunner /\ [Next]_vars => [Kept]_vars
    BY <1>1
  <2> QED
    BY <2>1, <2>2, PTL DEF StuckKeepsCurrent
<1>3. CASE ~AskWhileBusy
  <2>1. Spec => [](WellFormed /\ Owned) /\ [][Next]_vars
    BY <1>3, AlwaysOwned, AlwaysWellFormed, PTL DEF Spec
  <2>2. WellFormed /\ Owned /\ [Next]_vars => [Kept]_vars
    BY <1>1
  <2> QED
    BY <2>1, <2>2, PTL DEF StuckKeepsCurrent
<1> QED
  BY <1>2, <1>3

\* The robot is never held on behalf of nobody, in the program, which asks
\* no question while one is open, and wherever only STUCK sessions are reset.
THEOREM AlwaysDriven == OnlyStuckReset \/ ~AskWhileBusy => (Spec => []CurrentIsDriven)
<1>1. ASSUME WellFormed, SoleRunner \/ Owned PROVE CurrentIsDriven
  <2> SUFFICES ASSUME current # NoRequest, phase[current] # "STUCK"
               PROVE  \/ pc[current] \in Unstarted
                      \/ \E t \in Request : pc[t] \in Live /\ runs[t] = current
    BY DEF CurrentIsDriven
  <2>1. current \in Request /\ pc[current] \in PCs
    BY <1>1 DEF WellFormed, Typed, MaybeRequest
  <2>2. CASE SoleRunner
    <3>1. pc[current] \in Unstarted \cup (Live \ {"stuck"})
      BY <2>1, <2>2 DEF SoleRunner, InFront, PCs
    <3> QED
      BY <1>1, <2>1, <2>2, <3>1, Alone
  <2>3. CASE Owned
    <3>1. pc[current] \in {"created"} \cup Live
      BY <2>1, <2>3 DEF Owned, Own
    <3> QED
      BY <1>1, <2>1, <2>3, <3>1, RunsItsOwn DEF Unstarted
  <2> QED
    BY <1>1, <2>2, <2>3
<1>2. WellFormed /\ (SoleRunner \/ Owned) => CurrentIsDriven
  BY <1>1
<1>3. CASE OnlyStuckReset
  BY <1>2, <1>3, AlwaysSole, AlwaysWellFormed, PTL
<1>4. CASE ~AskWhileBusy
  BY <1>2, <1>4, AlwaysOwned, AlwaysWellFormed, PTL
<1> QED
  BY <1>3, <1>4
---------------------------------------------------------------------------
(* Attempts: a task that may still ask has some left.  Nobody else counts  *)
(* for its session, as every task runs its own.                            *)

Counting == {"speaking", "waiting", "answered", "cancelled", "interpreting"}
Counted  == \A t \in Request :
                attempt[t] <= MaxAttempts /\ (pc[t] \in Counting => attempt[t] < MaxAttempts)
OwnRuns  == \A t \in Request : runs[t] \in {t, NoRequest}

LEMMA CountKept ==
    ASSUME Counted, attempt' = attempt,
           \A t \in Request : pc'[t] \in Counting => pc[t] \in Counting
    PROVE  Counted'
BY DEF Counted

LEMMA OtherCounted ==
    ASSUME WellFormed, Counted, NEW t \in Request,
           \/ GraceOver(t) \/ Begin(t) \/ ListenOpen(t) \/ ListenAnswered(t)
           \/ AnswerTaken(t) \/ InterpretedSkip(t) \/ InterpretedDestination(t)
           \/ UnexpectedError(t) \/ ListenOrphaned(t)
    PROVE  Counted'
<1> USE DEF Counting, WellFormed, Typed
<1>1. attempt' = attempt
  BY DEF GraceOver, Begin, ListenOpen, ListenAnswered, AnswerTaken, InterpretedSkip,
         InterpretedDestination, UnexpectedError, ListenOrphaned, sessionVars
<1>2. \A r \in Request : pc'[r] \in Counting => pc[r] \in Counting
  BY DEF GraceOver, Begin, ListenOpen, ListenAnswered, AnswerTaken, InterpretedSkip,
         InterpretedDestination, UnexpectedError, ListenOrphaned, Fail
<1> QED
  BY <1>1, <1>2, CountKept

LEMMA AskAgainCounted ==
    ASSUME WellFormed, OwnRuns, Counted, NEW t \in Request,
           \/ HoldAnnounced(t) \/ AnswerTimeout(t) \/ TimeoutBeatsWakeUp(t)
           \/ InterpretedUnclear(t)
    PROVE  Counted'
<1>1. runs[t] = t /\ attempt[t] \in Nat /\ pc[t] \in Live
  BY HitlAssumption DEF HoldAnnounced, AnswerTimeout, TimeoutBeatsWakeUp, InterpretedUnclear,
     Live, WellFormed, Typed, TasksWellFormed, OwnRuns
<1>2. PICK n \in Nat, pcs \in [Request -> PCs], futs \in [Request -> Futures] :
          /\ AskOrGiveUp(t, n, pcs, futs) /\ n <= MaxAttempts
          /\ \A r \in Request : pcs[r] \in Counting => pc[r] \in Counting
  <2>1. CASE AnswerTimeout(t)
    <3>1. waits[t] \in Request
      BY <2>1 DEF AnswerTimeout, WellFormed, TasksWellFormed
    <3>2. [future EXCEPT ![waits[t]] = Cancelled(@)] \in [Request -> Futures]
      BY <3>1 DEF Cancelled, Futures, WellFormed, Typed
    <3>3. /\ Woken(waits[t], "cancelled") \in [Request -> PCs]
          /\ \A r \in Request : Woken(waits[t], "cancelled")[r] = pc[r] \/ pc[r] = "waiting"
      BY <3>1, WokenKeeps
    <3>4. attempt[t] + 1 \in Nat /\ attempt[t] + 1 <= MaxAttempts
      BY <1>1, <2>1, HitlAssumption DEF AnswerTimeout, Counted, Counting
    <3> QED
      BY <1>1, <2>1, <3>2, <3>3, <3>4 DEF AnswerTimeout, Counting
  <2>2. CASE HoldAnnounced(t)
    BY <1>1, <2>2 DEF HoldAnnounced, Counted, WellFormed, Typed
  <2>3. CASE TimeoutBeatsWakeUp(t) \/ InterpretedUnclear(t)
    <3>1. attempt[t] + 1 \in Nat /\ attempt[t] + 1 <= MaxAttempts
      BY <1>1, <2>3, HitlAssumption
      DEF TimeoutBeatsWakeUp, InterpretedUnclear, Counted, Counting
    <3> QED
      BY <1>1, <2>3, <3>1 DEF TimeoutBeatsWakeUp, InterpretedUnclear, WellFormed, Typed
  <2> QED
    BY <2>1, <2>2, <2>3
<1>3. /\ attempt' = [attempt EXCEPT ![t] = n]
      /\ \/ n < MaxAttempts /\ pc' = [pcs EXCEPT ![t] = "speaking"]
         \/ pc' = [pcs EXCEPT ![t] = "stuck"]
  BY <1>1, <1>2 DEF AskOrGiveUp
<1>4. ASSUME NEW r \in Request
      PROVE  attempt'[r] <= MaxAttempts /\ (pc'[r] \in Counting => attempt'[r] < MaxAttempts)
  <2>1. CASE r = t
    BY <1>2, <1>3, <2>1 DEF WellFormed, Typed, Counting
  <2>2. CASE r # t
    BY <1>2, <1>3, <2>2 DEF WellFormed, Typed, Counted
  <2> QED
    BY <2>1, <2>2
<1> QED
  BY <1>4 DEF Counted

LEMMA EndCounted ==
    ASSUME WellFormed, Counted, NEW t \in Request,
           ListenCancelled(t) \/ TaskCancelled(t) \/ Closed(t)
    PROVE  Counted'
<1>1. /\ pc[t] \in Live /\ attempt' = attempt
      /\ \E ph \in Phases, how \in Outcomes : Finally(t, ph, how)
  BY DEF ListenCancelled, TaskCancelled, Closed, Live, Phases, Outcomes,
         WellFormed, Typed, TasksWellFormed
<1>2. \A r \in Request : pc'[r] \in Counting => pc[r] \in Counting
  BY <1>1, FinallyKeeps DEF Counting
<1> QED
  BY <1>1, <1>2, CountKept

LEMMA NextCounted ==
    WellFormed /\ OwnRuns /\ Counted /\ [Next]_vars => Counted'
<1> SUFFICES ASSUME WellFormed, OwnRuns, Counted, [Next]_vars PROVE Counted'
  OBVIOUS
<1>1. ASSUME NEW r \in Request, AskHuman(r) PROVE Counted'
  BY <1>1, CountKept DEF AskHuman, Counting, WellFormed, Typed
<1>2. ASSUME NEW r \in Request, Submit(r) PROVE Counted'
  <2>1. answerFuture \in Request /\ attempt' = attempt /\ pc' = Woken(answerFuture, "answered")
    BY <1>2 DEF Submit, AnswerOpen, WellFormed, Typed, MaybeRequest, sessionVars
  <2> QED
    BY <2>1, WokenKeeps, CountKept DEF Counting
<1>3. AnswerOnHmi \/ (\E t \in Request : AnswerByVoice(t)) => \E r \in Request : Submit(r)
  BY DEF AnswerOnHmi, AnswerByVoice, WellFormed, Typed, MaybeRequest, TasksWellFormed, Live
<1>4. ASSUME NEW decide \in BOOLEAN, ForceReset(decide) PROVE Counted'
  <2>1. PICK pcs \in [Request -> PCs] :
            /\ StartNextPending(pcs)
            /\ \A r \in Request : pcs[r] = pc[r] \/ pc[r] = "waiting"
            /\ \A r \in Request : pc[r] = "queued" => pcs[r] = "queued"
    <3>1. CASE AnswerOpen
      <4>1. answerFuture \in Request
        BY <3>1 DEF AnswerOpen, WellFormed, Typed, MaybeRequest
      <4>2. StartNextPending(Woken(answerFuture, "cancelled"))
        BY <1>4, <3>1 DEF ForceReset
      <4>3. /\ Woken(answerFuture, "cancelled") \in [Request -> PCs]
            /\ \A r \in Request : \/ Woken(answerFuture, "cancelled")[r] = pc[r]
                                  \/ pc[r] = "waiting"
        BY <4>1, WokenKeeps
      <4>4. \A r \in Request : pc[r] = "queued" => Woken(answerFuture, "cancelled")[r] = "queued"
        BY <4>3
      <4> QED
        BY <4>2, <4>3, <4>4
    <3>2. CASE ~AnswerOpen
      BY <1>4, <3>2 DEF ForceReset, WellFormed, Typed
    <3> QED
      BY <3>1, <3>2
  <2>2. \A r \in Request : pc'[r] = pcs[r] \/ pc'[r] = "grace"
    BY <2>1, StartNextPendingKeeps DEF WellFormed
  <2> QED
    BY <1>4, <2>1, <2>2, CountKept DEF ForceReset, Counting
<1>5. ASSUME NEW t \in Request, TaskStep(t) PROVE Counted'
  BY <1>5, OtherCounted, AskAgainCounted, EndCounted DEF TaskStep, Listen, Interpreted
<1>6. CASE UNCHANGED vars
  BY <1>6, CountKept DEF vars, sessionVars, taskVars
<1> QED
  BY <1>1, <1>2, <1>3, <1>4, <1>5, <1>6 DEF Next

\* Type correctness with the bound on the attempts: as long as only STUCK
\* sessions are reset, or no question is asked while one is open.  When the
\* class is used without either, two tasks can run one session and use an
\* attempt too many.
THEOREM TypeCorrect == OnlyStuckReset \/ ~AskWhileBusy => (Spec => []TypeOK)
<1>1. Init => Counted
  BY HitlAssumption DEF Init, Counted, Counting
<1>2. WellFormed /\ Counted => TypeOK
  BY DEF WellFormed, Counted, TypeOK
<1>3. WellFormed /\ (SoleRunner \/ Owned) => OwnRuns
  BY DEF SoleRunner, InFront, Owned, Own, OwnRuns
<1>4. CASE OnlyStuckReset
  <2>1. Spec => [](WellFormed /\ SoleRunner)
    BY <1>4, AlwaysSole, AlwaysWellFormed, PTL
  <2> QED
    BY <1>1, <1>2, <1>3, <2>1, NextCounted, PTL DEF Spec
<1>5. CASE ~AskWhileBusy
  <2>1. Spec => [](WellFormed /\ Owned)
    BY <1>5, AlwaysOwned, AlwaysWellFormed, PTL
  <2> QED
    BY <1>1, <1>2, <1>3, <2>1, NextCounted, PTL DEF Spec
<1> QED
  BY <1>4, <1>5
---------------------------------------------------------------------------
(* HitlSession implements HitlPromise.                                     *)

stuckBar   == current # NoRequest /\ phase[current] = "STUCK"
verdictBar == [r \in Request |-> VerdictOf(r)]

\* A step that the promise does not see.
LEMMA Unseen ==
    ASSUME UNCHANGED <<current, pending>>, stuckBar' = stuckBar,
           \A r \in Request : VerdictOf(r)' = VerdictOf(r)
    PROVE  UNCHANGED Promise!promiseVars
<1>1. verdictBar' = verdictBar
  BY DEF verdictBar
<1> QED
  BY <1>1 DEF Promise!promiseVars, stuckBar, verdictBar

\* Starting the next session is the promise's Advance.
LEMMA AdvanceSeen ==
    ASSUME WellFormed, SoleRunner, NEW pcs, StartNextPending(pcs), phase' = phase
    PROVE  Promise!Advance /\ stuckBar' = FALSE
<1>1. CASE pending = <<>>
  BY <1>1 DEF StartNextPending, Promise!Advance, stuckBar
<1>2. CASE pending # <<>>
  <2>1. current' = Head(pending) /\ pending' = Tail(pending)
    BY <1>2 DEF StartNextPending
  <2>2. Head(pending) \in Request /\ pc[Head(pending)] = "queued"
    <3>1. 1 \in 1 .. Len(pending) /\ Head(pending) = pending[1]
      BY <1>2, HeadTailProperties, EmptySeq, LenProperties DEF WellFormed, Typed
    <3> QED
      BY <1>2, <3>1, HeadTailProperties DEF WellFormed, Typed, QueueWellFormed
  <2>3. phase[Head(pending)] = "IDLE"
    BY <2>2 DEF SoleRunner, InFront
  <2> QED
    BY <1>2, <2>1, <2>3 DEF Promise!Advance, stuckBar
<1> QED
  BY <1>1, <1>2

\* The verdict on the current request is open until it is answered.
LEMMA VerdictOfCurrent ==
    ASSUME WellFormed, SoleRunner, current \in Request
    PROVE  VerdictOf(current) = CASE pc[current] = "resolved" -> "decided"
                                  [] pc[current] = "skipped"  -> "skipped"
                                  [] OTHER -> "open"
<1>1. InFront(current) /\ Verdict(current)
  BY DEF SoleRunner
<1> QED
  BY <1>1 DEF InFront, Verdict, VerdictOf

\* A new request.
LEMMA AskHumanSeen ==
    ASSUME WellFormed, SoleRunner, NEW r \in Request, AskHuman(r)
    PROVE  Promise!Ask(r)
<1>1. /\ pc[r] = "none" /\ decisions[r] = 0 /\ outcome[r] = "open" /\ phase[r] = "IDLE"
      /\ pc' = [pc EXCEPT ![r] = IF current # NoRequest THEN "queued" ELSE "created"]
      /\ UNCHANGED <<phase, decisions, outcome>>
  BY DEF AskHuman, SoleRunner, InFront, Verdict
<1>2. VerdictOf(r) = "unasked" /\ VerdictOf(r)' = "open"
  BY <1>1 DEF VerdictOf, WellFormed, Typed
<1>3. \A t \in Request \ {r} : VerdictOf(t)' = VerdictOf(t)
  BY <1>1 DEF VerdictOf, WellFormed, Typed
<1>4. verdictBar[r] = "unasked" /\ verdictBar' = [verdictBar EXCEPT ![r] = "open"]
  BY <1>2, <1>3 DEF verdictBar
<1>5. stuckBar' = stuckBar
  BY <1>1, HitlAssumption DEF AskHuman, stuckBar
<1> QED
  BY <1>4, <1>5 DEF AskHuman, Promise!Ask, stuckBar, verdictBar

\* The administrator's reset of a STUCK session.
LEMMA ForceResetSeen ==
    ASSUME OnlyStuckReset, WellFormed, SoleRunner,
           NEW decide \in BOOLEAN, ForceReset(decide)
    PROVE  \E v \in {"decided", "abandoned"} : Promise!Reset(v)
<1> DEFINE v == IF decide THEN "decided" ELSE "abandoned"
<1>1. current \in Request /\ phase[current] = "STUCK" /\ stuckBar
  BY DEF OnlyStuckReset, ForceReset, MayReset, WellFormed, Typed, MaybeRequest, stuckBar
<1>2. \A r \in Request : pc[r] \in {"none", "queued", "stuck", "done"}
  <2> SUFFICES ASSUME NEW r \in Request PROVE pc[r] \in {"none", "queued", "stuck", "done"}
    OBVIOUS
  <2>1. InFront(r)
    BY DEF SoleRunner
  <2> QED
    BY <1>1, <2>1 DEF InFront, WellFormed, Typed, PCs
<1>3. PICK pcs \in [Request -> PCs] :
         /\ StartNextPending(pcs)
         /\ \A r \in Request : pcs[r] = pc[r]
  <2>1. CASE AnswerOpen
    <3>1. answerFuture \in Request
      BY <2>1 DEF AnswerOpen, WellFormed, Typed, MaybeRequest
    <3>2. ASSUME NEW r \in Request PROVE waits[r] # answerFuture
      <4>1. pc[r] # "waiting"
        BY <1>2
      <4> QED
        BY <3>1, <4>1 DEF WellFormed, TasksWellFormed
    <3>3. /\ Woken(answerFuture, "cancelled") \in [Request -> PCs]
          /\ \A r \in Request : Woken(answerFuture, "cancelled")[r] = pc[r]
      BY <3>1, <3>2, WokenKeeps
    <3> QED
      BY <2>1, <3>3 DEF ForceReset
  <2>2. CASE ~AnswerOpen
    BY <2>2 DEF ForceReset, WellFormed, Typed
  <2> QED
    BY <2>1, <2>2
<1>4. phase' = phase
  BY DEF ForceReset
<1>5. Promise!Advance /\ stuckBar' = FALSE
  BY <1>3, <1>4, AdvanceSeen
<1>6. \A r \in Request : pc'[r] = pc[r] \/ (pc[r] = "queued" /\ pc'[r] = "grace")
  BY <1>3, StartNextPendingKeeps DEF WellFormed
<1>7. /\ InFront(current) /\ Verdict(current)
      /\ decisions' = IF decide THEN [decisions EXCEPT ![current] = @ + 1] ELSE decisions
      /\ outcome' = [outcome EXCEPT ![current] = "reset"]
  BY <1>1 DEF ForceReset, SoleRunner
<1>8. pc'[current] \in {"stuck", "done"} /\ decisions[current] = 0
  BY <1>1, <1>2, <1>6, <1>7 DEF InFront, Verdict
<1>9. PICK c \in Request : c = current
  BY <1>1
<1>10. VerdictOf(c)' = v
  <2>1. decisions'[c] = (IF decide THEN 1 ELSE 0) /\ outcome'[c] = "reset"
    BY <1>7, <1>8, <1>9 DEF WellFormed, Typed
  <2> QED
    BY <1>8, <1>9, <2>1 DEF VerdictOf
<1>11. ASSUME NEW r \in Request \ {c} PROVE VerdictOf(r)' = VerdictOf(r)
  <2>1. decisions'[r] = decisions[r] /\ outcome'[r] = outcome[r]
    BY <1>7, <1>9 DEF WellFormed, Typed
  <2> QED
    BY <1>6, <2>1 DEF VerdictOf
<1>12. verdictBar' = [verdictBar EXCEPT ![current] = v]
  BY <1>9, <1>10, <1>11 DEF verdictBar
<1> QED
  BY <1>1, <1>5, <1>12 DEF Promise!Reset, stuckBar, verdictBar

\* The steps of a task that leaves its session in front: the promise sees an
\* answer, a skip or that the session got STUCK, or nothing.
LEMMA InFrontSeen ==
    ASSUME WellFormed, SoleRunner, NEW t \in Request,
           pc[t] \in Unstarted \cup (Live \ {"stuck", "resolved", "skipped"}),
           UNCHANGED <<current, pending, outcome>>,
           \A r \in Request \ {t} : pc'[r] = pc[r] /\ decisions'[r] = decisions[r],
           \/ /\ pc'[t] \in Unstarted \cup (Live \ {"stuck", "resolved", "skipped"})
              /\ phase'[t] # "STUCK" /\ decisions'[t] = decisions[t]
           \/ pc'[t] = "skipped" /\ phase'[t] # "STUCK" /\ decisions'[t] = decisions[t]
           \/ pc'[t] = "resolved" /\ phase'[t] # "STUCK" /\ decisions'[t] = decisions[t] + 1
           \/ pc'[t] = "stuck" /\ phase'[t] = "STUCK" /\ decisions'[t] = decisions[t]
    PROVE  [Promise!Next]_(Promise!promiseVars)
<1>1. /\ current = t /\ t # NoRequest /\ InFront(t) /\ Verdict(t)
      /\ phase[t] # "STUCK" /\ decisions[t] = 0 /\ outcome[t] = "open"
  <2>1. current = t /\ t # NoRequest /\ InFront(t) /\ Verdict(t)
    BY Alone, HitlAssumption DEF SoleRunner
  <2> QED
    BY <2>1 DEF InFront, Verdict, Unstarted, Live
<1>2. stuckBar = FALSE /\ VerdictOf(t) = "open" /\ verdictBar[t] = "open"
  BY <1>1 DEF stuckBar, verdictBar, VerdictOf, Unstarted, Live
<1>3. \A r \in Request \ {t} : VerdictOf(r)' = VerdictOf(r)
  BY DEF VerdictOf
<1>4. CASE /\ pc'[t] \in Unstarted \cup (Live \ {"stuck", "resolved", "skipped"})
           /\ phase'[t] # "STUCK" /\ decisions'[t] = decisions[t]
  <2>1. VerdictOf(t)' = "open" /\ stuckBar' = FALSE
    BY <1>1, <1>4 DEF stuckBar, VerdictOf, Unstarted, Live
  <2>2. \A r \in Request : VerdictOf(r)' = VerdictOf(r)
    BY <1>2, <1>3, <2>1
  <2> QED
    BY <1>2, <2>1, <2>2, Unseen
<1>5. ASSUME NEW v \in {"decided", "skipped"}, VerdictOf(t)' = v, phase'[t] # "STUCK"
      PROVE  Promise!Settle(v)
  <2>1. verdictBar' = [verdictBar EXCEPT ![t] = v] /\ stuckBar' = FALSE
    BY <1>1, <1>3, <1>5 DEF verdictBar, stuckBar
  <2> QED
    BY <1>1, <1>2, <2>1 DEF Promise!Settle, stuckBar, verdictBar
<1>6. CASE pc'[t] = "skipped" /\ phase'[t] # "STUCK" /\ decisions'[t] = decisions[t]
  <2>1. VerdictOf(t)' = "skipped"
    BY <1>1, <1>6 DEF VerdictOf
  <2> QED
    BY <1>5, <1>6, <2>1 DEF Promise!Next
<1>7. CASE pc'[t] = "resolved" /\ phase'[t] # "STUCK" /\ decisions'[t] = decisions[t] + 1
  <2>1. VerdictOf(t)' = "decided"
    BY <1>1, <1>7 DEF VerdictOf
  <2> QED
    BY <1>5, <1>7, <2>1 DEF Promise!Next
<1>8. CASE pc'[t] = "stuck" /\ phase'[t] = "STUCK" /\ decisions'[t] = decisions[t]
  <2>1. VerdictOf(t)' = "open"
    BY <1>1, <1>8 DEF VerdictOf
  <2>2. verdictBar' = verdictBar /\ stuckBar' = TRUE
    BY <1>1, <1>2, <1>3, <1>8, <2>1 DEF verdictBar, stuckBar
  <2>3. Promise!GetStuck
    BY <1>1, <1>2, <2>2 DEF Promise!GetStuck, stuckBar, verdictBar
  <2> QED
    BY <2>3 DEF Promise!Next
<1> QED
  BY <1>4, <1>6, <1>7, <1>8

\* Every step of a task.
LEMMA TaskStepSeen ==
    ASSUME WellFormed, SoleRunner, NEW t \in Request, TaskStep(t)
    PROVE  [Promise!Next]_(Promise!promiseVars)
<1> USE DEF sessionVars, historyVars
<1>1. CASE HoldAnnounced(t) \/ AnswerTimeout(t) \/ TimeoutBeatsWakeUp(t) \/ InterpretedUnclear(t)
  <2>1. /\ pc[t] \in Live \ {"stuck", "resolved", "skipped"}
        /\ \A r \in Request \ {t} : pc'[r] = pc[r]
        /\ UNCHANGED <<current, pending, decisions, outcome>>
        /\ \/ pc'[t] = "speaking" /\ phase'[t] = "ASKING"
           \/ pc'[t] = "stuck" /\ phase'[t] = "STUCK"
    BY <1>1, AskAgainEffect
  <2> QED
    BY <2>1, InFrontSeen DEF Live
<1>2. CASE GraceOver(t) \/ Begin(t) \/ ListenOpen(t) \/ ListenAnswered(t) \/ AnswerTaken(t)
           \/ InterpretedSkip(t) \/ InterpretedDestination(t) \/ UnexpectedError(t)
  <2>1. pc[t] \in Unstarted \cup (Live \ {"stuck", "resolved", "skipped"})
    BY <1>2 DEF GraceOver, Begin, ListenOpen, ListenAnswered, AnswerTaken, InterpretedSkip,
                InterpretedDestination, UnexpectedError, Unstarted, Live
  <2>2. /\ current = t /\ t # NoRequest /\ InFront(t)
        /\ pc[t] \in Live => runs[t] = t
    BY <2>1, Alone, HitlAssumption DEF SoleRunner
  <2>3. phase[t] # "STUCK"
    BY <2>1, <2>2 DEF InFront
  <2>4. /\ UNCHANGED <<current, pending, outcome>>
        /\ \A r \in Request \ {t} : pc'[r] = pc[r]
    BY <1>2 DEF GraceOver, Begin, ListenOpen, ListenAnswered, AnswerTaken, InterpretedSkip,
                InterpretedDestination, UnexpectedError, Fail, WellFormed, Typed
  <2>5. CASE InterpretedDestination(t)
    BY <2>1, <2>2, <2>3, <2>4, <2>5, InFrontSeen
    DEF InterpretedDestination, WellFormed, Typed, Live
  <2>6. CASE GraceOver(t) \/ Begin(t)
    BY <2>1, <2>2, <2>3, <2>4, <2>6, InFrontSeen
    DEF GraceOver, Begin, WellFormed, Typed, Live, Unstarted
  <2>7. CASE ListenOpen(t) \/ ListenAnswered(t) \/ AnswerTaken(t)
    BY <2>1, <2>2, <2>3, <2>4, <2>7, InFrontSeen
    DEF ListenOpen, ListenAnswered, AnswerTaken, WellFormed, Typed, Live
  <2>8. CASE InterpretedSkip(t) \/ UnexpectedError(t)
    BY <2>1, <2>2, <2>3, <2>4, <2>8, InFrontSeen
    DEF InterpretedSkip, UnexpectedError, Fail, WellFormed, Typed, Live
  <2> QED
    BY <1>2, <2>5, <2>6, <2>7, <2>8
<1>3. CASE Closed(t)
  <2>1. /\ InFront(t) /\ Verdict(t) /\ runs[t] = t /\ t # NoRequest
        /\ UNCHANGED <<phase, decisions>>
    BY <1>3, HitlAssumption DEF Closed, SoleRunner, InFront, WellFormed, TasksWellFormed, Live
  <2>2. CASE OwnsCurrent(t, phase[t])
    <3>1. current = t /\ phase[t] # "STUCK" /\ pc[t] \in {"resolved", "skipped"}
      BY <1>3, <2>1, <2>2 DEF OwnsCurrent, Closed, InFront
    <3>2. /\ outcome' = [outcome EXCEPT ![t] = pc[t]]
          /\ StartNextPending([pc EXCEPT ![t] = "done"])
      BY <1>3, <2>1, <2>2, <3>1 DEF Closed, Finally
    <3>3. Promise!Advance /\ stuckBar' = FALSE
      BY <2>1, <3>2, AdvanceSeen
    <3>4. \A r \in Request : \/ r = t /\ pc'[r] = "done"
                             \/ r # t /\ pc'[r] = pc[r]
                             \/ r # t /\ pc[r] = "queued" /\ pc'[r] = "grace"
      <4> DEFINE pcs == [pc EXCEPT ![t] = "done"]
      <4>1. pcs \in [Request -> PCs] /\ pcs[t] = "done" /\ \A r \in Request \ {t} : pcs[r] = pc[r]
        BY DEF WellFormed, Typed, PCs
      <4>2. StartNextPending(pcs) /\ pc[t] # "queued"
        BY <3>1, <3>2
      <4>3. \A r \in Request : pc[r] = "queued" => pcs[r] = "queued"
        BY <4>1, <4>2
      <4> HIDE DEF pcs
      <4>4. \A r \in Request : pc'[r] = pcs[r] \/ (pc[r] = "queued" /\ pc'[r] = "grace")
        BY <4>1, <4>2, <4>3, StartNextPendingKeeps DEF WellFormed
      <4> QED
        BY <4>1, <4>2, <4>4
    <3>5. decisions[t] = (IF pc[t] = "resolved" THEN 1 ELSE 0) /\ outcome[t] = "open"
      BY <2>1, <3>1 DEF Verdict
    <3>6. VerdictOf(t)' = VerdictOf(t) /\ VerdictOf(t) \in {"decided", "skipped"}
      BY <2>1, <3>1, <3>2, <3>4, <3>5 DEF VerdictOf, WellFormed, Typed
    <3>7. ASSUME NEW r \in Request \ {t} PROVE VerdictOf(r)' = VerdictOf(r)
      BY <2>1, <3>2, <3>4 DEF VerdictOf, WellFormed, Typed
    <3>8. verdictBar' = verdictBar /\ verdictBar[t] \in {"decided", "skipped"}
      BY <3>6, <3>7 DEF verdictBar
    <3>9. Promise!Close
      BY <2>1, <3>1, <3>3, <3>8 DEF Promise!Close, stuckBar, verdictBar
    <3> QED
      BY <3>9 DEF Promise!Next
  <2>3. CASE ~OwnsCurrent(t, phase[t])
    <3>1. /\ pc' = [pc EXCEPT ![t] = "done"]
          /\ UNCHANGED <<outcome, current, pending>>
      BY <1>3, <2>1, <2>3 DEF Closed, Finally
    <3>2. pc[t] = "stuck"
      BY <1>3, <2>1, <2>3 DEF Closed, OwnsCurrent, InFront, Live
    <3>3. \A r \in Request : VerdictOf(r)' = VerdictOf(r)
      BY <2>1, <3>1, <3>2 DEF VerdictOf, WellFormed, Typed
    <3>4. stuckBar' = stuckBar
      BY <2>1, <3>1 DEF stuckBar
    <3> QED
      BY <3>1, <3>3, <3>4, Unseen
  <2> QED
    BY <2>2, <2>3
<1> QED
  BY <1>1, <1>2, <1>3, NeverCancelled DEF TaskStep, Listen, Interpreted

\* An answer changes nothing the promise sees.
LEMMA SubmitSeen ==
    ASSUME WellFormed, SoleRunner, NEW r \in Request, Submit(r)
    PROVE  UNCHANGED Promise!promiseVars
<1>1. answerFuture \in Request
  BY DEF Submit, AnswerOpen, WellFormed, Typed, MaybeRequest
<1>2. /\ pc' = Woken(answerFuture, "answered")
      /\ UNCHANGED <<current, pending, phase, outcome, decisions>>
  BY DEF Submit, sessionVars, historyVars
<1>3. \A t \in Request : pc'[t] = pc[t] \/ (pc[t] = "waiting" /\ pc'[t] = "answered")
  BY <1>1, <1>2, WokenKeeps
<1>4. \A t \in Request : VerdictOf(t)' = VerdictOf(t)
  BY <1>2, <1>3 DEF VerdictOf
<1>5. stuckBar' = stuckBar
  BY <1>2 DEF stuckBar
<1> QED
  BY <1>2, <1>4, <1>5, Unseen

\* Every step of the state machine is a step the promise allows, or one it
\* does not see.
LEMMA NextSeen ==
    OnlyStuckReset /\ WellFormed /\ SoleRunner /\ [Next]_vars
        => [Promise!Next]_(Promise!promiseVars)
<1> SUFFICES ASSUME OnlyStuckReset, WellFormed, SoleRunner, [Next]_vars
             PROVE  [Promise!Next]_(Promise!promiseVars)
  OBVIOUS
<1>1. ASSUME NEW r \in Request, AskHuman(r) PROVE Promise!Next
  BY <1>1, AskHumanSeen DEF Promise!Next
<1>2. CASE AnswerOnHmi
  BY <1>2, SubmitSeen DEF AnswerOnHmi, WellFormed, Typed, MaybeRequest
<1>3. ASSUME NEW t \in Request, AnswerByVoice(t) PROVE UNCHANGED Promise!promiseVars
  BY <1>3, SubmitSeen DEF AnswerByVoice, WellFormed, TasksWellFormed, Live
<1>4. ASSUME NEW decide \in BOOLEAN, ForceReset(decide) PROVE Promise!Next
  BY <1>4, ForceResetSeen DEF Promise!Next
<1>5. ASSUME NEW t \in Request, TaskStep(t) PROVE [Promise!Next]_(Promise!promiseVars)
  BY <1>5, TaskStepSeen
<1>6. CASE UNCHANGED vars
  <2>1. UNCHANGED <<current, pending, phase, pc, outcome, decisions>>
    BY <1>6 DEF vars, sessionVars, taskVars, historyVars
  <2>2. \A r \in Request : VerdictOf(r)' = VerdictOf(r)
    BY <2>1 DEF VerdictOf
  <2>3. stuckBar' = stuckBar
    BY <2>1 DEF stuckBar
  <2> QED
    BY <2>1, <2>2, <2>3, Unseen
<1> QED
  BY <1>1, <1>2, <1>3, <1>4, <1>5, <1>6 DEF Next

LEMMA InitSeen == Init => Promise!Init
<1> SUFFICES ASSUME Init PROVE Promise!Init
  OBVIOUS
<1>1. ASSUME NEW r \in Request PROVE VerdictOf(r) = "unasked"
  <2>1. pc[r] = "none" /\ decisions[r] = 0 /\ outcome[r] = "open"
    BY DEF Init
  <2> QED
    BY <2>1 DEF VerdictOf
<1>2. verdictBar = [r \in Request |-> "unasked"]
  BY <1>1 DEF verdictBar
<1>3. stuckBar = FALSE
  BY DEF Init, stuckBar
<1> QED
  BY <1>2, <1>3 DEF Init, Promise!Init, stuckBar, verdictBar

\* As long as only STUCK sessions are reset, the state machine implements
\* the promise: one request at a time, in order, settled once.
THEOREM ImplementsPromise == OnlyStuckReset => (Spec => KeepsPromise)
<1> SUFFICES ASSUME OnlyStuckReset PROVE Spec => KeepsPromise
  OBVIOUS
<1>1. WellFormed /\ SoleRunner /\ [Next]_vars => [Promise!Next]_(Promise!promiseVars)
  BY NextSeen
<1> QED
  BY <1>1, InitSeen, AlwaysWellFormed, AlwaysSole, PTL DEF Spec, KeepsPromise, Promise!Spec
=============================================================================
