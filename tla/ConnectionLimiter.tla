--------------------------- MODULE ConnectionLimiter ---------------------------
(***************************************************************************)
(* The admission policy of a webseed: class ConnectionLimiter of           *)
(* src/libtransmission/webseed.cc.  Its state is one record                *)
(*                                                                         *)
(*   n_tasks                 the HTTP fetches started and not finished     *)
(*   n_consecutive_failures  failed fetches since the last piece data      *)
(*   paused                  paused_until > tr_time()                      *)
(*                                                                         *)
(* The operators below are pure functions of such a record so that the     *)
(* Webseed module can apply them inside its own actions; the standalone    *)
(* specification at the end drives the limiter with the calls its callers *)
(* make.                                                                   *)
(*                                                                         *)
(* Abstractions.  The clock is abstracted to the boolean paused: a         *)
(* failure that reaches the threshold sets paused_until = now + 120, which *)
(* is "paused"; the passing of those 120 seconds is the action            *)
(* TimeoutElapses.  n_consecutive_failures saturates at                    *)
(* MaxConsecutiveFailures: the code only ever compares it with 0 and with  *)
(* that threshold, so no comparison can tell the saturated value apart.    *)
(***************************************************************************)
EXTENDS Naturals

CONSTANT MaxConnections   \* ConnectionLimiter::MaxConnections (4)

ASSUME MaxConnections \in Nat \ {0}

\* static size_t constexpr MaxConsecutiveFailures = MaxConnections;
MaxConsecutiveFailures == MaxConnections

LimiterStates ==
    [n_tasks : 0..MaxConnections,
     n_consecutive_failures : 0..MaxConsecutiveFailures,
     paused : BOOLEAN]

\* The members' initialisers: n_tasks = 0, n_consecutive_failures = 0,
\* paused_until = 0.
InitLimiter == [n_tasks |-> 0, n_consecutive_failures |-> 0, paused |-> FALSE]

\* taskStarted(): ++n_tasks.
TaskStarted(l) == [l EXCEPT !.n_tasks = @ + 1]

\* taskFailed(): the failure count grows; reaching the threshold pauses the
\* host (paused_until = tr_time() + TimeoutIntervalSecs).
TaskFailed(l) ==
    LET f == l.n_consecutive_failures + 1
    IN  [l EXCEPT !.n_consecutive_failures = IF f > MaxConsecutiveFailures
                                             THEN MaxConsecutiveFailures ELSE f,
                  !.paused = IF f >= MaxConsecutiveFailures THEN TRUE ELSE @]

\* Mutant: the failure path forgets --n_tasks.
TaskFinishedOnlyOnSuccess(l, success) ==
    IF success THEN [l EXCEPT !.n_tasks = @ - 1] ELSE TaskFailed(l)

\* taskFinished(success): taskFailed() on failure, then --n_tasks.
TaskFinished(l, success) ==
    LET l1 == IF success THEN l ELSE TaskFailed(l)
    IN  [l1 EXCEPT !.n_tasks = @ - 1]

\* gotData(): any piece data clears the failure count and the pause.
GotData(l) == [l EXCEPT !.n_consecutive_failures = 0, !.paused = FALSE]

\* maxConnections(): one connection after any failure, else MaxConnections.
MaxConns(l) == IF l.n_consecutive_failures > 0 THEN 1 ELSE MaxConnections

\* slotsAvailable(): none while paused or full, else the free connections.
SlotsAvailable(l) ==
    IF l.paused \/ l.n_tasks >= MaxConns(l) THEN 0 ELSE MaxConns(l) - l.n_tasks

-----------------------------------------------------------------------------
(***************************************************************************)
(* Standalone specification: the limiter under the calls tr_webseed makes. *)
(* A new task is admitted only while a slot is free (on_idle); a running   *)
(* task may finish and immediately start its next chunk (a successful      *)
(* completion that continues in task_request_next_chunk); data may arrive  *)
(* on a running fetch; and time may pass the pause.                        *)
(***************************************************************************)
VARIABLE lim

Init == lim = InitLimiter

Admit == SlotsAvailable(lim) > 0 /\ lim' = TaskStarted(lim)

Continue == lim.n_tasks > 0 /\ lim' = TaskStarted(TaskFinished(lim, TRUE))

Finish == lim.n_tasks > 0 /\ \E ok \in BOOLEAN : lim' = TaskFinished(lim, ok)

Data == lim.n_tasks > 0 /\ lim' = GotData(lim)

TimeoutElapses == lim.paused /\ lim' = [lim EXCEPT !.paused = FALSE]

Next == Admit \/ Continue \/ Finish \/ Data \/ TimeoutElapses

Spec == Init /\ [][Next]_lim

TypeOK == lim \in LimiterStates

\* Spec section 8, first testable property: once the consecutive failures
\* reach the threshold, slotsAvailable() is 0 until the cool-down elapses
\* and "then returns to the healthy ceiling".  In the code the cool-down only
\* clears paused_until; n_consecutive_failures keeps its value, so
\* maxConnections() stays 1 until piece data arrives.
CooldownRestoresCeiling ==
    [][TimeoutElapses /\ lim.n_tasks = 0 => SlotsAvailable(lim') = MaxConnections]_lim
================================================================================
