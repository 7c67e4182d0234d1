------------------------------ MODULE Scheduler ------------------------------
(***************************************************************************)
(* The cron scheduler of the worker process.  One action is one turn of    *)
(* the event loop together with the promise jobs it queues: a cron tick,   *)
(* a handler promise settling, a run's timeout firing, stop() being        *)
(* called, stop() returning.  A handler is external code: it may settle    *)
(* at any time, react to its abort signal, or never settle.                *)
(***************************************************************************)
EXTENDS Naturals, FiniteSets

CONSTANTS Workers,        \* worker definitions handed to createScheduler
          StartupWorkers, \* those with runOnStartup
          MaxRuns,        \* bound: runs started per worker
          MaxSkips        \* bound: skipped ticks counted per worker

ASSUME SchedulerAssumption ==
  /\ StartupWorkers \subseteq Workers
  /\ MaxRuns \in Nat
  /\ MaxSkips \in Nat

VARIABLES ticking,   \* start() has registered the cron handles
          stopped,   \* the closure's `stopped` flag; the shutdown signal is aborted with it
          inFlight,  \* WorkerState.inFlight
          running,   \* WorkerState.running: number of the run whose promise it is, 0 for null
          fired,     \* handlers called so far, per worker; names the runs 1..fired[w]
          handlers,  \* runs whose handler promise has not settled
          aborted,   \* runs whose own timeoutCtl was aborted
          unhandled, \* per worker, runs whose handler threw before returning a promise
          runsTotal, \* worker_runs_total{worker, status}
          awaited,   \* run promises stop() drains
          outcome    \* stop(): "none", "draining", then "drained" or "timeout"

vars == <<ticking, stopped, inFlight, running, fired, handlers, aborted,
          unhandled, runsTotal, awaited, outcome>>

Settled == {"success", "failure"}
Status == Settled \union {"timeout", "skipped_overlap"}
Run == Workers \X (1..MaxRuns)

TypeOK ==
  /\ ticking \in BOOLEAN
  /\ stopped \in BOOLEAN
  /\ inFlight \in [Workers -> BOOLEAN]
  /\ running \in [Workers -> 0..MaxRuns]
  /\ fired \in [Workers -> 0..MaxRuns]
  /\ handlers \subseteq Run
  /\ aborted \subseteq Run
  /\ unhandled \in [Workers -> 0..MaxRuns]
  /\ runsTotal \in [Workers -> [Status -> Nat]]
  /\ awaited \subseteq Run
  /\ outcome \in {"none", "draining", "drained", "timeout"}

Init ==
  /\ ticking = FALSE
  /\ stopped = FALSE
  /\ inFlight = [w \in Workers |-> FALSE]
  /\ running = [w \in Workers |-> 0]
  /\ fired = [w \in Workers |-> 0]
  /\ handlers = {}
  /\ aborted = {}
  /\ unhandled = [w \in Workers |-> 0]
  /\ runsTotal = [w \in Workers |-> [s \in Status |-> 0]]
  /\ awaited = {}
  /\ outcome = "none"

-----------------------------------------------------------------------------
Count(w, status) == runsTotal' = [runsTotal EXCEPT ![w][status] = @ + 1]

(* The run promise's finally block.                                        *)
Release(w) ==
  /\ inFlight' = [inFlight EXCEPT ![w] = FALSE]
  /\ running' = [running EXCEPT ![w] = 0]

(* The accepted part of runOnce for the workers W, whose handlers are      *)
(* called in this turn.  Those in T throw before returning a promise: the  *)
(* run promise rejects, its finally block clears what was set, nothing is  *)
(* counted, and the rejection reaches nobody.                              *)
StartRuns(W, T) ==
  /\ \A w \in W : fired[w] < MaxRuns
  /\ fired' = [w \in Workers |-> IF w \in W THEN fired[w] + 1 ELSE fired[w]]
  /\ inFlight' = [w \in Workers |-> inFlight[w] \/ w \in W \ T]
  /\ running' = [w \in Workers |-> IF w \in W \ T THEN fired[w] + 1 ELSE running[w]]
  /\ handlers' = handlers \union {<<w, fired[w] + 1>> : w \in W \ T}
  /\ unhandled' = [w \in Workers |-> IF w \in T THEN unhandled[w] + 1 ELSE unhandled[w]]
  /\ UNCHANGED <<stopped, aborted, runsTotal, awaited, outcome>>

(* start(): registers every cron handle, then fires the startup workers.   *)
Start ==
  /\ ~ticking
  /\ ticking' = TRUE
  /\ \E T \in SUBSET StartupWorkers : StartRuns(StartupWorkers, T)

(* Mutant: a tick does not look at what is in flight.                      *)
TickRunOverlapping(w) ==
  /\ ticking
  /\ ~stopped
  /\ \E T \in SUBSET {w} : StartRuns({w}, T)
  /\ UNCHANGED ticking

(* A cron callback of a worker with nothing in flight.  The callback may   *)
(* come after stop(); the flag is what drops it.                           *)
TickRun(w) ==
  /\ ticking
  /\ ~stopped
  /\ ~inFlight[w]
  /\ \E T \in SUBSET {w} : StartRuns({w}, T)
  /\ UNCHANGED ticking

TickSkip(w) ==
  /\ ticking
  /\ ~stopped
  /\ inFlight[w]
  /\ runsTotal[w]["skipped_overlap"] < MaxSkips
  /\ Count(w, "skipped_overlap")
  /\ UNCHANGED <<ticking, stopped, inFlight, running, fired, handlers, aborted,
                 unhandled, awaited, outcome>>

(* The handler of the run in flight settles and wins the race.             *)
SettleInTime(w, status) ==
  /\ running[w] # 0
  /\ <<w, running[w]>> \in handlers
  /\ handlers' = handlers \ {<<w, running[w]>>}
  /\ Count(w, status)
  /\ Release(w)
  /\ UNCHANGED <<ticking, stopped, fired, aborted, unhandled, awaited, outcome>>

(* Mutant: the settling of an abandoned handler is counted again.          *)
SettleLateCounted(w, r) ==
  /\ <<w, r>> \in handlers
  /\ running[w] # r
  /\ handlers' = handlers \ {<<w, r>>}
  /\ Count(w, "failure")
  /\ UNCHANGED <<ticking, stopped, inFlight, running, fired, aborted, unhandled,
                 awaited, outcome>>

(* A handler abandoned by its timeout settles: no one is waiting for it.   *)
SettleLate(w, r) ==
  /\ <<w, r>> \in handlers
  /\ running[w] # r
  /\ handlers' = handlers \ {<<w, r>>}
  /\ UNCHANGED <<ticking, stopped, inFlight, running, fired, aborted, unhandled,
                 runsTotal, awaited, outcome>>

(* Mutant: the timer aborts the signal and does not resolve the race.      *)
TimerFireAbortOnly(w) ==
  /\ running[w] # 0
  /\ aborted' = aborted \union {<<w, running[w]>>}
  /\ UNCHANGED <<ticking, stopped, inFlight, running, fired, handlers, unhandled,
                 runsTotal, awaited, outcome>>

(* The run's timer aborts its signal and resolves the race.  The race's    *)
(* continuation classifies the run some promise jobs later: a handler that *)
(* reacts to the abort with few awaits of its own has settled by then.     *)
TimerFire(w) ==
  /\ running[w] # 0
  /\ aborted' = aborted \union {<<w, running[w]>>}
  /\ \/ /\ Count(w, "timeout")
        /\ UNCHANGED handlers
     \/ \E status \in Settled :
          /\ Count(w, status)
          /\ handlers' = handlers \ {<<w, running[w]>>}
  /\ Release(w)
  /\ UNCHANGED <<ticking, stopped, fired, unhandled, awaited, outcome>>

-----------------------------------------------------------------------------
(* The shutdown handler: abort the shared signal, call stop().  It is      *)
(* registered in the turn that calls start().                              *)
StopBegin ==
  /\ ticking
  /\ ~stopped
  /\ stopped' = TRUE
  /\ awaited' = {<<w, running[w]>> : w \in {v \in Workers : running[v] # 0}}
  /\ outcome' = "draining"
  /\ UNCHANGED <<ticking, inFlight, running, fired, handlers, aborted,
                 unhandled, runsTotal>>

Drained == \A run \in awaited : running[run[1]] # run[2]

StopDrained ==
  /\ outcome = "draining"
  /\ Drained
  /\ outcome' = "drained"
  /\ UNCHANGED <<ticking, stopped, inFlight, running, fired, handlers, aborted,
                 unhandled, runsTotal, awaited>>

StopTimeout ==
  /\ outcome = "draining"
  /\ ~Drained
  /\ outcome' = "timeout"
  /\ UNCHANGED <<ticking, stopped, inFlight, running, fired, handlers, aborted,
                 unhandled, runsTotal, awaited>>

Next ==
  \/ Start
  \/ \E w \in Workers :
       \/ TickRun(w)
       \/ TickSkip(w)
       \/ \E status \in Settled : SettleInTime(w, status)
       \/ \E r \in 1..MaxRuns : SettleLate(w, r)
       \/ TimerFire(w)
  \/ StopBegin
  \/ StopDrained
  \/ StopTimeout

Spec == Init /\ [][Next]_vars

(* A run's timer fires; cron ticks, handlers and signals promise nothing.  *)
FairSpec == Spec /\ \A w \in Workers : WF_vars(TimerFire(w))

-----------------------------------------------------------------------------
RunsOf(S, w) == {r \in 1..MaxRuns : <<w, r>> \in S}

Counted(w) ==
  runsTotal[w]["success"] + runsTotal[w]["failure"] + runsTotal[w]["timeout"]

(* Every handler that executes without being the tracked run of its worker *)
(* was abandoned by its own timeout: overlap protection (scheduler.ts      *)
(* inFlight) is only ever lost through a timeout.                          *)
OnlyAbandonedHandlersOverlap ==
  \A w \in Workers : \A r \in RunsOf(handlers, w) :
    r # running[w] => <<w, r>> \in aborted

(* Nothing is in flight once stop() reports 'drained': the promises it     *)
(* snapshots are all there will ever be, no tick adds one behind it.       *)
DrainedMeansIdle ==
  outcome = "drained" => \A w \in Workers : ~inFlight[w]

(* The scheduler is a set of run slots: every run whose handler returned a *)
(* promise is counted in worker_runs_total exactly once, however its       *)
(* timeout, its late settling and stop() interleave, and no run starts     *)
(* after stop().                                                           *)
Slots == INSTANCE WorkerSlots WITH
  busy <- {w \in Workers : inFlight[w]},
  admitted <- [w \in Workers |-> fired[w] - unhandled[w]],
  accounted <- [w \in Workers |-> Counted(w)],
  closed <- stopped

ImplementsSlots == Slots!Spec

(* A worker is never locked out by a handler that does not return: its     *)
(* slot is always freed again.                                             *)
SlotFreed == \A w \in Workers : inFlight[w] ~> ~inFlight[w]

(* ARCHITECTURE.md and WORKER_AUTHORING.md: at most one concurrent run per *)
(* worker definition, so handlers need no locking of their own.            *)
AtMostOneConcurrentRun ==
  \A w \in Workers : Cardinality(RunsOf(handlers, w)) <= 1

=============================================================================
