-------------------------------- MODULE Engine --------------------------------
(***************************************************************************)
(* The calculations of a mobile provider in one Web Worker, each with its  *)
(* own timeout: solve and workerSolver of                                  *)
(* apps/satellite-web/src/node/engine.ts, with the reset of                *)
(* satellite-node.ts.                                                      *)
(*                                                                         *)
(* Calls share the current worker, which takes their messages in order     *)
(* after it has loaded its WASM.  A worker that fails stays the current    *)
(* one until a call times out.  Answers and timers are events of the page, *)
(* which handles those of an instant before the next one.                  *)
(***************************************************************************)
EXTENDS Integers, Sequences, FiniteSets

CONSTANTS
    Calls,          \* the calculations asked for, each once
    Durations,      \* how long a load or a calculation may take
    Timeout,        \* TIMEOUT_MS
    Horizon         \* bound: last instant

ASSUME EngineAssumption ==
    /\ Durations \subseteq Nat /\ Durations # {}
    /\ Timeout \in Nat \ {0} /\ Horizon \in Nat

VARIABLES
    clock,
    worker,     \* the current worker, 0 if there is none
    workers,    \* every worker created: [alive, failed, free]
    solves      \* call -> how far solve() is with it

engineVars == <<clock, worker, workers, solves>>

Idle == [at |-> "idle"]

Waiting == {c \in Calls : solves[c].at = "waiting"}

EngineInit ==
    /\ clock = 0
    /\ worker = 0
    /\ workers = <<>>
    /\ solves = [c \in Calls |-> Idle]

Later(a, b) == IF a > b THEN a ELSE b

\* solve(): run() posts an input that passes its checks to worker w, which has
\* answered it by `due`, and the timer starts.
Posted(c, w, due, takes) ==
    /\ solves[c] = Idle
    /\ solves' = [d \in Calls |->
           IF d = c THEN [at |-> "waiting", on |-> w, since |-> clock, due |-> due,
                          takes |-> takes, alone |-> Waiting = {}]
           ELSE IF d \in Waiting THEN [solves[d] EXCEPT !.alone = FALSE]
           ELSE solves[d]]
    /\ UNCHANGED clock

\* There is no worker: one is created, and loads its WASM first.
PostToNew(c) == \E load, takes \in Durations :
    /\ worker = 0
    /\ worker' = Len(workers) + 1
    /\ workers' = Append(workers, [alive |-> TRUE, failed |-> FALSE,
                                   free |-> clock + load + takes])
    /\ Posted(c, Len(workers) + 1, clock + load + takes, load + takes)

\* The worker takes it after those it was posted before.
PostToCurrent(c) == \E takes \in Durations :
    LET due == Later(workers[worker].free, clock) + takes
    IN /\ worker # 0
       /\ workers' = [workers EXCEPT ![worker].free = due]
       /\ Posted(c, worker, due, takes)
       /\ UNCHANGED worker

Post(c) == PostToNew(c) \/ PostToCurrent(c)

\* checkInput refuses the expression.
Refuse(c) ==
    /\ solves[c] = Idle
    /\ solves' = [solves EXCEPT ![c] = [at |-> "refused"]]
    /\ UNCHANGED <<clock, worker, workers>>

Settled(c, outcome) == [solves[c] EXCEPT !.at = outcome]

Answerable(c) ==
    /\ c \in Waiting /\ solves[c].due <= clock
    /\ workers[solves[c].on].alive /\ ~workers[solves[c].on].failed

\* The message with the id of the call.
Answered(c) ==
    /\ Answerable(c)
    /\ solves' = [solves EXCEPT ![c] = Settled(c, "ok")]
    /\ UNCHANGED <<clock, worker, workers>>

Overdue(c) == c \in Waiting /\ clock >= solves[c].since + Timeout

\* Mutant: the worker that is terminated stays the current one.
ResetKeeping ==
    /\ workers' = IF worker = 0 THEN workers ELSE [workers EXCEPT ![worker].alive = FALSE]
    /\ UNCHANGED worker

Reset ==
    /\ workers' = IF worker = 0 THEN workers ELSE [workers EXCEPT ![worker].alive = FALSE]
    /\ worker' = 0

\* The timer wins the race, and serve resets the engine: the current worker,
\* which may be a later one than that of this call.
TimesOut(c) ==
    /\ Overdue(c)
    /\ solves' = [solves EXCEPT ![c] = Settled(c, "timeout")]
    /\ Reset
    /\ UNCHANGED clock

\* The `error` event of a worker rejects every call that listens to it.
WorkerFails ==
    /\ \E w \in 1..Len(workers) :
           /\ workers[w].alive /\ ~workers[w].failed
           /\ workers' = [workers EXCEPT ![w].failed = TRUE]
           /\ solves' = [c \in Calls |->
                  IF c \in Waiting /\ solves[c].on = w THEN Settled(c, "syntax") ELSE solves[c]]
    /\ UNCHANGED <<clock, worker>>

Elapse ==
    /\ clock < Horizon
    /\ \A c \in Calls : ~Answerable(c) /\ ~Overdue(c)
    /\ clock' = clock + 1
    /\ UNCHANGED <<worker, workers, solves>>

EngineNext ==
    \/ \E c \in Calls : Post(c) \/ Refuse(c) \/ Answered(c) \/ TimesOut(c)
    \/ WorkerFails
    \/ Elapse

EngineSpec == EngineInit /\ [][EngineNext]_engineVars

-----------------------------------------------------------------------------
\* Whatever hung, failed or was terminated before, a calculation that nobody
\* shares the engine with, whose load and computation fit its time-out and
\* whose worker does not fail, is answered (solve, workerSolver and the reset
\* of serve).  With others in flight the code does not promise it: the reset
\* ends the worker of all of them.
AloneIsAnswered ==
    \A c \in Calls :
        solves[c].at = "timeout" =>
            \/ ~solves[c].alone
            \/ solves[c].takes >= Timeout
            \/ workers[solves[c].on].failed
=============================================================================
