------------------------------ MODULE Shutdown ------------------------------
(***************************************************************************)
(* The life of a process of emcp, server or worker: what it registers with *)
(* the shutdown registry (lib/shutdown.ts) at start, the resources that    *)
(* are created and registered on first use (db/client.ts,                  *)
(* proxy/registry.ts), the jobs that use them (requests, worker runs), and *)
(* its end: handlers run one after another, last registered first, each    *)
(* bounded by its share of the budget.                                     *)
(*                                                                         *)
(* Front is the handler that stops admitting jobs: 'http-server' in the    *)
(* server, 'worker-scheduler' in the worker.  It waits for connections, or *)
(* for runs in flight, and not for the jobs themselves: a tool call goes   *)
(* on when its client has gone or close() has ended its session, a worker  *)
(* run when its timeout has abandoned it.  Teller aborts the signal of all *)
(* jobs: 'tool-abort' in the server, the front itself in the worker.  A    *)
(* resource's own closing (pg, ioredis) is external: no new use from the   *)
(* moment it is asked to close, done when its present users have let go.   *)
(***************************************************************************)
EXTENDS Integers, Sequences, FiniteSets, FiniteSetsExt

CONSTANTS Boot,      \* names registered when the process starts, in order
          Front,     \* the one that stops admission
          Teller,    \* the one that aborts the signal of all jobs
          Patience,  \* of handlers with a limit of their own, in ticks
          Resources, \* names that stand for a resource jobs use
          Signals,   \* signals with a listener
          Jobs,      \* bound: jobs at one time
          Idle, Busy,\* states of a job that uses no resource
          Total,     \* config.shutdownTimeoutMs, in ticks
          MinShare,  \* minHandlerTimeoutMs
          Floor      \* the exit floor after a fatal error

Names == Resources \union {Boot[i] : i \in 1..Len(Boot)}
Eager == {Boot[i] : i \in 1..Len(Boot)} \intersect Resources
Lazy == Resources \ Eager

ASSUME ShutdownAssumption ==
  /\ IsFiniteSet(Resources)
  /\ {Front, Teller} \intersect Resources = {}
  /\ Boot \in Seq(Names)
  /\ \A n \in {Front, Teller} : \E i \in 1..Len(Boot) : Boot[i] = n
  /\ \A i, j \in 1..Len(Boot) : Boot[i] = Boot[j] => i = j
  /\ \A i, j \in 1..Len(Boot) : Boot[i] \in Resources /\ Boot[j] \in {Front, Teller} => i < j
  /\ \A n \in DOMAIN Patience : Patience[n] \in Nat
  /\ Idle \notin Resources /\ Busy \notin Resources /\ Idle # Busy
  /\ Total \in Nat /\ MinShare \in Nat \ {0} /\ Floor \in Nat \ {0}

VARIABLES entries,   \* the registry's entries
          phase,     \* "loading", "serving", "shutting", "exited"
          pending,   \* index of the entry whose handler is awaited, 0 for none
          share,     \* perHandlerTimeoutMs() when shutdown began
          spent,     \* ticks since that handler was called
          elapsed,   \* ticks since shutdown began
          calls,     \* how often each handler was called
          late,      \* handlers that ended by a timer, runOne's or their own
          listening, \* signals whose listener is installed
          fatal,     \* ticks since an error nobody caught, -1 for none
          forced,    \* the process ended before its handlers did
          admitting, \* the front admits jobs
          jobs,      \* Idle, Busy, or the resource a job uses
          awaited,   \* jobs the front would wait for
          resource   \* of each resource: "unused", "open", "closing"

registry == <<entries, phase, pending, share, spent, elapsed, calls, late>>
ending == <<listening, fatal, forced>>
work == <<admitting, jobs, awaited, resource>>
vars == <<registry, ending, work>>

TypeOK ==
  /\ entries \in Seq(Names)
  /\ \A i, j \in 1..Len(entries) : entries[i] = entries[j] => i = j
  /\ phase \in {"loading", "serving", "shutting", "exited"}
  /\ pending \in 0..Len(entries)
  /\ share \in Nat /\ spent \in 0..share /\ elapsed \in Nat
  /\ calls \in [Names -> Nat]
  /\ late \subseteq Names
  /\ listening \subseteq Signals
  /\ fatal \in -1..Floor
  /\ forced \in BOOLEAN
  /\ admitting \in BOOLEAN
  /\ jobs \in [Jobs -> Resources \union {Idle, Busy}]
  /\ awaited \subseteq Jobs
  /\ resource \in [Resources -> {"unused", "open", "closing"}]

Init ==
  /\ entries = <<>>
  /\ phase = "loading"
  /\ pending = 0
  /\ share = 0
  /\ spent = 0
  /\ elapsed = 0
  /\ calls = [n \in Names |-> 0]
  /\ late = {}
  /\ listening = Signals
  /\ fatal = -1
  /\ forced = FALSE
  /\ admitting = FALSE
  /\ jobs = [j \in Jobs |-> Idle]
  /\ awaited = {}
  /\ resource = [r \in Resources |-> "unused"]

Alive == phase # "exited"

-----------------------------------------------------------------------------
(* The work of the process.                                                *)

(* Loading is done: the server or the scheduler is created and started in  *)
(* one turn, and registers itself and what it touches.                     *)
Start ==
  /\ phase = "loading"
  /\ phase' = "serving"
  /\ entries' = entries \o Boot
  /\ resource' = [r \in Resources |-> IF r \in Eager THEN "open" ELSE resource[r]]
  /\ admitting' = TRUE
  /\ UNCHANGED <<pending, share, spent, elapsed, calls, late, ending, jobs, awaited>>

Admit(j) ==
  /\ Alive
  /\ admitting
  /\ jobs[j] = Idle
  /\ jobs' = [jobs EXCEPT ![j] = Busy]
  /\ awaited' = awaited \union {j}
  /\ UNCHANGED <<registry, ending, admitting, resource>>

(* The first use of a lazy resource creates and registers it.              *)
Use(j, r) ==
  /\ Alive
  /\ jobs[j] = Busy
  /\ resource[r] # "closing"
  /\ jobs' = [jobs EXCEPT ![j] = r]
  /\ resource' = [resource EXCEPT ![r] = "open"]
  /\ entries' = IF resource[r] = "unused" THEN Append(entries, r) ELSE entries
  /\ UNCHANGED <<phase, pending, share, spent, elapsed, calls, late, ending, admitting, awaited>>

LetGo(j) ==
  /\ Alive
  /\ jobs[j] \in Resources
  /\ jobs' = [jobs EXCEPT ![j] = Busy]
  /\ UNCHANGED <<registry, ending, admitting, awaited, resource>>

(* The job is done, or a resource refused it.                              *)
Finish(j) ==
  /\ Alive
  /\ jobs[j] = Busy
  /\ jobs' = [jobs EXCEPT ![j] = Idle]
  /\ awaited' = awaited \ {j}
  /\ UNCHANGED <<registry, ending, admitting, resource>>

(* The job goes on, but nothing waits for it any more: its client has      *)
(* gone, close() has ended its session, its answer is sent and its usage   *)
(* is still to be recorded; the run's timeout has abandoned its handler.   *)
Detach(j) ==
  /\ Alive
  /\ jobs[j] # Idle
  /\ j \in awaited
  /\ awaited' = awaited \ {j}
  /\ UNCHANGED <<registry, ending, admitting, jobs, resource>>

-----------------------------------------------------------------------------
(* The registry.                                                           *)

(* Mutant: every handler gets the whole budget.                            *)
WholeBudget(n) == Max({Total, MinShare})

PerHandler(n) == IF n = 0 THEN MinShare ELSE Max({Total \div n, MinShare})

(* The handler of entries[i] is called; after the last one the process     *)
(* exits.                                                                  *)
Call(i) ==
  /\ pending' = i
  /\ spent' = 0
  /\ IF i = 0
     THEN /\ phase' = "exited"
          /\ UNCHANGED <<calls, resource>>
     ELSE /\ phase' = "shutting"
          /\ calls' = [calls EXCEPT ![entries[i]] = @ + 1]
          /\ resource' = [r \in Resources |-> IF r = entries[i] THEN "closing" ELSE resource[r]]

(* run(): the second caller gets the first one's promise.                  *)
Run ==
  IF phase = "shutting"
  THEN UNCHANGED <<registry, work>>
  ELSE /\ Call(Len(entries))
       /\ share' = PerHandler(Len(entries))
       /\ UNCHANGED <<entries, elapsed, late, admitting, jobs, awaited>>

Signal(s) ==
  /\ Alive
  /\ s \in listening
  /\ listening' = listening \ {s}
  /\ Run
  /\ UNCHANGED <<fatal, forced>>

(* process.once: the second time a signal ends the process.                *)
Kill(s) ==
  /\ Alive
  /\ s \in Signals \ listening
  /\ phase' = "exited"
  /\ forced' = TRUE
  /\ UNCHANGED <<entries, pending, share, spent, elapsed, calls, late, listening, fatal, work>>

(* unhandledRejection, uncaughtException.                                  *)
Fatal ==
  /\ Alive
  /\ fatal = -1
  /\ fatal' = 0
  /\ Run
  /\ UNCHANGED <<listening, forced>>

FloorExit ==
  /\ Alive
  /\ fatal = Floor
  /\ phase' = "exited"
  /\ forced' = TRUE
  /\ UNCHANGED <<entries, pending, share, spent, elapsed, calls, late, listening, fatal, work>>

(* The front's handler stops admission: the scheduler at once, the server  *)
(* when its sessions are closed, even if its share is over by then, and    *)
(* for connections that are kept alive when the last of them ends.         *)
StopAdmitting ==
  /\ phase = "shutting"
  /\ calls[Front] > 0
  /\ admitting
  /\ admitting' = FALSE
  /\ UNCHANGED <<registry, ending, jobs, awaited, resource>>

(* Mutant: the front returns when admission has stopped.                   *)
CanSettleEarly(n) ==
  /\ n = Front => ~admitting
  /\ n \in Resources => \A j \in Jobs : jobs[j] # n

(* When a handler may return: the front when its connections have ended,   *)
(* or the runs in flight, a resource when nobody holds it.                 *)
CanSettle(n) ==
  /\ n = Front => ~admitting /\ awaited = {}
  /\ n \in Resources => \A j \in Jobs : jobs[j] # n

Settle ==
  /\ phase = "shutting"
  /\ CanSettle(entries[pending])
  /\ Call(pending - 1)
  /\ UNCHANGED <<entries, share, elapsed, late, ending, admitting, jobs, awaited>>

(* The handler's own limit comes first: redis.disconnect() when QUIT is    *)
(* not answered, the grace of the scheduler's stop().                      *)
GiveUp ==
  /\ phase = "shutting"
  /\ entries[pending] \in DOMAIN Patience
  /\ spent >= Patience[entries[pending]]
  /\ entries[pending] = Front => ~admitting
  /\ late' = late \union {entries[pending]}
  /\ Call(pending - 1)
  /\ UNCHANGED <<entries, share, elapsed, ending, admitting, jobs, awaited>>

(* Mutant: a timeout is not caught and ends the loop.                      *)
TimeOutEndsLoop ==
  /\ phase = "shutting"
  /\ spent = share
  /\ late' = late \union {entries[pending]}
  /\ Call(0)
  /\ UNCHANGED <<entries, share, elapsed, ending, admitting, jobs, awaited>>

(* Mutant: the timer is only honoured for a handler that could return.     *)
TimeOutIfSettled ==
  /\ phase = "shutting"
  /\ spent = share
  /\ CanSettle(entries[pending])
  /\ late' = late \union {entries[pending]}
  /\ Call(pending - 1)
  /\ UNCHANGED <<entries, share, elapsed, ending, admitting, jobs, awaited>>

(* Its share is over: log and go on.                                       *)
TimeOut ==
  /\ phase = "shutting"
  /\ spent = share
  /\ late' = late \union {entries[pending]}
  /\ Call(pending - 1)
  /\ UNCHANGED <<entries, share, elapsed, ending, admitting, jobs, awaited>>

(* A tick of the clock; a timer that is due fires before the next one.     *)
Tick ==
  /\ phase = "shutting"
  /\ spent < share
  /\ fatal < Floor
  /\ spent' = spent + 1
  /\ elapsed' = elapsed + 1
  /\ fatal' = IF fatal = -1 THEN -1 ELSE fatal + 1
  /\ UNCHANGED <<entries, phase, pending, share, calls, late, listening, forced, work>>

Next ==
  \/ Start
  \/ \E j \in Jobs :
       \/ Admit(j)
       \/ \E r \in Resources : Use(j, r)
       \/ LetGo(j)
       \/ Finish(j)
       \/ Detach(j)
  \/ \E s \in Signals : Signal(s) \/ Kill(s)
  \/ Fatal
  \/ FloorExit
  \/ StopAdmitting
  \/ Settle
  \/ GiveUp
  \/ TimeOut
  \/ Tick

Spec == Init /\ [][Next]_vars

(* Time passes and the timers of runOne and of the exit floor fire;        *)
(* handlers promise nothing.                                               *)
FairSpec == Spec /\ WF_vars(Tick) /\ WF_vars(TimeOut) /\ WF_vars(FloorExit)

-----------------------------------------------------------------------------
Settled(n) == calls[n] > 0 /\ (phase = "exited" \/ entries[pending] # n)

(* However many signals and errors arrive, no handler runs twice: they     *)
(* share one shutdown.                                                     *)
CalledOnce == \A n \in Names : calls[n] <= 1

(* A process that was not ended by force has called every handler it had   *)
(* registered at start, although some of them ran into their timeouts.     *)
NoHandlerSkipped ==
  phase = "exited" /\ ~forced /\ entries # <<>> =>
    \A i \in 1..Len(Boot) : calls[Boot[i]] = 1

(* A resource that is registered before the front closes behind it: when   *)
(* it begins to close, nothing the front waits for is left, unless the     *)
(* front ran into a timeout; jobs that nothing waits for may still use it, *)
(* but their signal has been aborted.                                      *)
EagerOutlivesAwaited ==
  \A r \in Eager : resource[r] = "closing" =>
    /\ Settled(Front)
    /\ calls[Teller] > 0
    /\ Front \in late \/ awaited = {}

(* Shutdown takes no longer than the budget, or than the least shares of   *)
(* all handlers together where the budget is smaller than that.            *)
WithinBudget == elapsed <= Max({Total, Len(entries) * MinShare})

(* Shutdown ends, whatever handlers and jobs do.                           *)
ShutdownEnds == phase = "shutting" ~> phase = "exited"

(* OPERATIONS.md: consumers of a resource close before it; the worker      *)
(* scheduler stops and drains before the DB pool closes.                   *)
ConsumersCloseFirst ==
  \A r \in Resources : resource[r] = "closing" => Settled(Front)

=============================================================================
