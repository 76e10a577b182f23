---------------------------- MODULE HitlPromise ----------------------------
(***************************************************************************)
(* What the human-in-the-loop state machine promises to the rest of the    *)
(* backend: the requests are settled one at a time and in the order they   *)
(* came, each exactly once, by the operator's answer, by his wish to skip, *)
(* or, when no answer could be had, by the administrator; and nothing is   *)
(* settled by itself.                                                      *)
(***************************************************************************)
EXTENDS Sequences

CONSTANTS
    Request,
    NoRequest  \* no request of Request

VARIABLES
    line,     \* requests that wait, oldest first
    active,   \* the request in front of the operator
    stuck,    \* the active request waits for the administrator
    verdict   \* what became of each request

promiseVars == <<line, active, stuck, verdict>>

Init ==
    /\ line = <<>>
    /\ active = NoRequest
    /\ stuck = FALSE
    /\ verdict = [r \in Request |-> "unasked"]

\* the active request makes room for the next one
Advance ==
    IF line = <<>>
    THEN active' = NoRequest /\ UNCHANGED line
    ELSE active' = Head(line) /\ line' = Tail(line)

Ask(r) ==
    /\ verdict[r] = "unasked"
    /\ verdict' = [verdict EXCEPT ![r] = "open"]
    /\ IF active = NoRequest
       THEN active' = r /\ UNCHANGED line
       ELSE line' = Append(line, r) /\ UNCHANGED active
    /\ UNCHANGED stuck

\* the operator decides where the object goes, or leaves it for later
Settle(v) ==
    /\ active # NoRequest /\ ~stuck
    /\ verdict[active] = "open"
    /\ verdict' = [verdict EXCEPT ![active] = v]
    /\ UNCHANGED <<line, active, stuck>>

Close ==
    /\ active # NoRequest /\ ~stuck
    /\ verdict[active] \in {"decided", "skipped"}
    /\ Advance
    /\ UNCHANGED <<stuck, verdict>>

GetStuck ==
    /\ active # NoRequest /\ ~stuck
    /\ verdict[active] = "open"
    /\ stuck' = TRUE
    /\ UNCHANGED <<line, active, verdict>>

\* only a stuck request is settled by the administrator
Reset(v) ==
    /\ stuck
    /\ stuck' = FALSE
    /\ verdict' = [verdict EXCEPT ![active] = v]
    /\ Advance

Next ==
    \/ \E r \in Request : Ask(r)
    \/ \E v \in {"decided", "skipped"} : Settle(v)
    \/ Close
    \/ GetStuck
    \/ \E v \in {"decided", "abandoned"} : Reset(v)

Spec == Init /\ [][Next]_promiseVars
=============================================================================
