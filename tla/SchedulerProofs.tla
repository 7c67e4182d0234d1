--------------------------- MODULE SchedulerProofs ---------------------------
(***************************************************************************)
(* Proofs about the worker scheduler, for every set of workers and every   *)
(* number of runs: its type invariant, that overlap protection is only     *)
(* lost through a timeout, what the outcome 'drained' of stop() means,     *)
(* that the scheduler implements WorkerSlots, and that no worker stays     *)
(* locked out.                                                             *)
(***************************************************************************)
EXTENDS Scheduler, TLAPS

(* `inFlight` and `running` are set and cleared together, and a worker has *)
(* nothing in flight before start().                                       *)
SlotInv ==
  /\ \A w \in Workers : inFlight[w] <=> running[w] # 0
  /\ \A w \in Workers : running[w] <= fired[w] /\ unhandled[w] <= fired[w]
  /\ ~ticking => \A w \in Workers : ~inFlight[w]

(* Handlers belong to runs that were started; those that are not tracked   *)
(* any more were aborted by their timer.                                   *)
HandlerInv ==
  \A w \in Workers : \A r \in 1..MaxRuns : <<w, r>> \in handlers =>
    /\ r <= fired[w]
    /\ r # running[w] => <<w, r>> \in aborted

(* The promises stop() awaits cover every run in flight since.             *)
DrainInv ==
  /\ stopped <=> outcome # "none"
  /\ stopped => ticking
  /\ outcome = "draining" =>
       \A w \in Workers : running[w] # 0 => <<w, running[w]>> \in awaited
  /\ DrainedMeansIdle

IInv == TypeOK /\ SlotInv /\ HandlerInv /\ DrainInv

-----------------------------------------------------------------------------
LEMMA InitIInv == Init => IInv
<1> SUFFICES ASSUME Init PROVE IInv
  OBVIOUS
<1>1. TypeOK
  <2>1. runsTotal \in [Workers -> [Status -> Nat]]
    BY DEF Init
  <2>2. /\ inFlight \in [Workers -> BOOLEAN]
        /\ running \in [Workers -> 0..MaxRuns]
        /\ fired \in [Workers -> 0..MaxRuns]
        /\ unhandled \in [Workers -> 0..MaxRuns]
    BY SchedulerAssumption DEF Init
  <2>3. QED
    BY <2>1, <2>2 DEF Init, TypeOK
<1>2. SlotInv
  BY SchedulerAssumption DEF Init, SlotInv
<1>3. HandlerInv
  BY DEF Init, HandlerInv
<1>4. DrainInv
  BY DEF Init, DrainInv, DrainedMeansIdle
<1>5. QED
  BY <1>1, <1>2, <1>3, <1>4 DEF IInv

(* Counting keeps the counters' type.                                      *)
LEMMA CountType ==
  ASSUME TypeOK, NEW w \in Workers, NEW status \in Status, Count(w, status)
  PROVE  runsTotal' \in [Workers -> [Status -> Nat]]
<1>1. runsTotal[w] \in [Status -> Nat]
  BY DEF TypeOK
<1>2. [runsTotal[w] EXCEPT ![status] = runsTotal[w][status] + 1] \in [Status -> Nat]
  BY <1>1
<1>3. QED
  BY <1>2 DEF Count, TypeOK

(* Starting idle workers keeps the invariant.                              *)
LEMMA StartRunsInv ==
  ASSUME IInv, NEW W \in SUBSET Workers, NEW T \in SUBSET W, StartRuns(W, T),
         \A w \in W : ~inFlight[w], ~stopped, ticking' = TRUE
  PROVE  IInv'
<1> USE DEF StartRuns
<1>1. TypeOK'
  <2>1. fired' \in [Workers -> 0..MaxRuns]
    BY SchedulerAssumption DEF IInv, TypeOK
  <2>2. running' \in [Workers -> 0..MaxRuns]
    BY SchedulerAssumption DEF IInv, TypeOK
  <2>3. unhandled' \in [Workers -> 0..MaxRuns]
    BY SchedulerAssumption DEF IInv, TypeOK, SlotInv
  <2>4. handlers' \subseteq Run
    BY SchedulerAssumption DEF IInv, TypeOK, Run
  <2>5. QED
    BY <2>1, <2>2, <2>3, <2>4 DEF IInv, TypeOK
<1>2. SlotInv'
  <2>1. ASSUME NEW w \in Workers
        PROVE  /\ inFlight'[w] <=> running'[w] # 0
               /\ running'[w] <= fired'[w]
               /\ unhandled'[w] <= fired'[w]
    <3>1. CASE w \in W \ T
      <4>1. inFlight'[w] = TRUE
        BY <3>1 DEF IInv, TypeOK
      <4>2. running'[w] = fired[w] + 1 /\ fired'[w] = fired[w] + 1
        BY <3>1 DEF IInv, TypeOK
      <4>3. unhandled'[w] = unhandled[w] /\ unhandled[w] <= fired[w]
        BY <3>1 DEF IInv, TypeOK, SlotInv
      <4>4. fired[w] \in Nat /\ unhandled[w] \in Nat
        BY SchedulerAssumption DEF IInv, TypeOK
      <4>5. running'[w] # 0 /\ running'[w] <= fired'[w] /\ unhandled'[w] <= fired'[w]
        BY <4>2, <4>3, <4>4
      <4>6. QED
        BY <4>1, <4>5
    <3>2. CASE w \notin W \ T
      <4>1. inFlight'[w] = inFlight[w] /\ running'[w] = running[w]
        BY <3>2 DEF IInv, TypeOK
      <4>2. inFlight[w] <=> running[w] # 0
        BY DEF IInv, SlotInv
      <4>3. running'[w] <= fired'[w] /\ unhandled'[w] <= fired'[w]
        BY <3>2 DEF IInv, TypeOK, SlotInv
      <4>4. QED
        BY <4>1, <4>2, <4>3
    <3>3. QED
      BY <3>1, <3>2
  <2>2. QED
    BY <2>1 DEF SlotInv
<1>3. HandlerInv'
  BY SchedulerAssumption DEF IInv, TypeOK, SlotInv, HandlerInv
<1>4. DrainInv'
  BY DEF IInv, TypeOK, DrainInv, DrainedMeansIdle
<1>5. QED
  BY <1>1, <1>2, <1>3, <1>4 DEF IInv

(* Freeing the slot of the run in flight keeps SlotInv and DrainInv.       *)
LEMMA ReleaseInv ==
  ASSUME IInv, NEW w \in Workers, Release(w), running[w] # 0,
         UNCHANGED <<ticking, stopped, fired, unhandled, awaited, outcome>>
  PROVE  /\ inFlight' \in [Workers -> BOOLEAN]
         /\ running' \in [Workers -> 0..MaxRuns]
         /\ SlotInv'
         /\ DrainInv'
<1> USE DEF Release
<1>1. inFlight' \in [Workers -> BOOLEAN] /\ running' \in [Workers -> 0..MaxRuns]
  BY SchedulerAssumption DEF IInv, TypeOK
<1>2. ASSUME NEW v \in Workers
      PROVE  /\ inFlight'[v] <=> running'[v] # 0
             /\ running'[v] <= fired'[v] /\ unhandled'[v] <= fired'[v]
             /\ ~inFlight[v] => ~inFlight'[v]
  <2>1. CASE v = w
    <3>1. inFlight'[v] = FALSE /\ running'[v] = 0
      BY <2>1 DEF IInv, TypeOK
    <3>2. unhandled'[v] <= fired'[v] /\ fired'[v] \in Nat
      BY SchedulerAssumption DEF IInv, TypeOK, SlotInv
    <3>3. 0 <= fired'[v]
      BY <3>2
    <3>4. QED
      BY <3>1, <3>2, <3>3
  <2>2. CASE v # w
    <3>1. inFlight'[v] = inFlight[v] /\ running'[v] = running[v]
      BY <2>2 DEF IInv, TypeOK
    <3>2. QED
      BY <3>1 DEF IInv, SlotInv
  <2>3. QED
    BY <2>1, <2>2
<1>3. SlotInv'
  BY <1>2 DEF IInv, SlotInv
<1>4. ASSUME NEW v \in Workers, running'[v] # 0
      PROVE  running'[v] = running[v]
  BY <1>4 DEF IInv, TypeOK
<1>5. DrainInv'
  BY <1>2, <1>4 DEF IInv, DrainInv, DrainedMeansIdle
<1>6. QED
  BY <1>1, <1>3, <1>5

-----------------------------------------------------------------------------
(* Every step keeps the invariant.                                         *)
LEMMA StepIInv == IInv /\ [Next]_vars => IInv'
<1> SUFFICES ASSUME IInv, [Next]_vars PROVE IInv'
  OBVIOUS
<1>1. CASE Start
  <2>1. PICK T \in SUBSET StartupWorkers : StartRuns(StartupWorkers, T)
    BY <1>1 DEF Start
  <2>2. ticking' = TRUE /\ ~ticking
    BY <1>1 DEF Start
  <2>3. ~stopped /\ \A w \in StartupWorkers : ~inFlight[w]
    BY <2>2, SchedulerAssumption DEF IInv, SlotInv, DrainInv
  <2>4. StartupWorkers \in SUBSET Workers
    BY SchedulerAssumption
  <2>5. QED
    BY <2>1, <2>2, <2>3, <2>4, StartRunsInv
<1>2. ASSUME NEW w \in Workers, TickRun(w) PROVE IInv'
  <2>1. PICK T \in SUBSET {w} : StartRuns({w}, T)
    BY <1>2 DEF TickRun
  <2>2. ~stopped /\ ~inFlight[w] /\ ticking' = TRUE
    BY <1>2 DEF TickRun, IInv, TypeOK
  <2>3. {w} \in SUBSET Workers /\ \A v \in {w} : ~inFlight[v]
    BY <2>2
  <2>4. QED
    BY <2>1, <2>2, <2>3, StartRunsInv
<1>3. ASSUME NEW w \in Workers, TickSkip(w) PROVE IInv'
  <2>1. runsTotal' \in [Workers -> [Status -> Nat]]
    BY <1>3, CountType DEF TickSkip, IInv, Status
  <2>2. TypeOK'
    BY <1>3, <2>1 DEF TickSkip, IInv, TypeOK
  <2>3. SlotInv' /\ HandlerInv' /\ DrainInv'
    BY <1>3 DEF TickSkip, IInv, SlotInv, HandlerInv, DrainInv, DrainedMeansIdle
  <2>4. QED
    BY <2>2, <2>3 DEF IInv
<1>4. ASSUME NEW w \in Workers, NEW status \in Settled, SettleInTime(w, status)
      PROVE  IInv'
  <2> USE <1>4 DEF SettleInTime
  <2>1. runsTotal' \in [Workers -> [Status -> Nat]]
    BY CountType DEF IInv, Status
  <2>2. /\ inFlight' \in [Workers -> BOOLEAN] /\ running' \in [Workers -> 0..MaxRuns]
        /\ SlotInv' /\ DrainInv'
    BY ReleaseInv
  <2>3. TypeOK'
    BY <2>1, <2>2 DEF IInv, TypeOK
  <2>4. HandlerInv'
    BY DEF IInv, TypeOK, HandlerInv, Release
  <2>5. QED
    BY <2>2, <2>3, <2>4 DEF IInv
<1>5. ASSUME NEW w \in Workers, NEW r \in 1..MaxRuns, SettleLate(w, r) PROVE IInv'
  <2>1. TypeOK'
    BY <1>5 DEF SettleLate, IInv, TypeOK
  <2>2. SlotInv' /\ HandlerInv' /\ DrainInv'
    BY <1>5 DEF SettleLate, IInv, SlotInv, HandlerInv, DrainInv, DrainedMeansIdle
  <2>3. QED
    BY <2>1, <2>2 DEF IInv
<1>6. ASSUME NEW w \in Workers, TimerFire(w) PROVE IInv'
  <2> USE <1>6
  <2>1. PICK status \in Status : Count(w, status)
    BY DEF TimerFire, Status
  <2>2. runsTotal' \in [Workers -> [Status -> Nat]]
    BY <2>1, CountType DEF IInv
  <2>3. /\ inFlight' \in [Workers -> BOOLEAN] /\ running' \in [Workers -> 0..MaxRuns]
        /\ SlotInv' /\ DrainInv'
    BY ReleaseInv DEF TimerFire
  <2>4. handlers' \subseteq handlers /\ aborted' = aborted \union {<<w, running[w]>>}
    BY DEF TimerFire
  <2>5. aborted' \subseteq Run
    <3>1. running[w] \in 1..MaxRuns
      BY SchedulerAssumption DEF TimerFire, IInv, TypeOK
    <3>2. QED
      BY <2>4, <3>1 DEF IInv, TypeOK, Run
  <2>6. TypeOK'
    BY <2>2, <2>3, <2>4, <2>5 DEF TimerFire, IInv, TypeOK
  <2>7. HandlerInv'
    BY <2>4 DEF TimerFire, IInv, TypeOK, HandlerInv, Release
  <2>8. QED
    BY <2>3, <2>6, <2>7 DEF IInv
<1>7. CASE StopBegin
  <2>1. awaited' \subseteq Run
    BY <1>7, SchedulerAssumption DEF StopBegin, IInv, TypeOK, Run
  <2>2. TypeOK'
    BY <1>7, <2>1 DEF StopBegin, IInv, TypeOK
  <2>3. SlotInv' /\ HandlerInv'
    BY <1>7 DEF StopBegin, IInv, SlotInv, HandlerInv
  <2>4. DrainInv'
    BY <1>7 DEF StopBegin, DrainInv, DrainedMeansIdle
  <2>5. QED
    BY <2>2, <2>3, <2>4 DEF IInv
<1>8. CASE StopDrained
  <2>1. TypeOK' /\ SlotInv' /\ HandlerInv'
    BY <1>8 DEF StopDrained, IInv, TypeOK, SlotInv, HandlerInv
  <2>2. \A w \in Workers : running[w] = 0
    BY <1>8 DEF StopDrained, Drained, IInv, DrainInv
  <2>3. DrainedMeansIdle'
    BY <1>8, <2>2 DEF StopDrained, IInv, SlotInv, DrainedMeansIdle
  <2>4. DrainInv'
    BY <1>8, <2>3 DEF StopDrained, IInv, DrainInv
  <2>5. QED
    BY <2>1, <2>4 DEF IInv
<1>9. CASE StopTimeout
  <2>1. TypeOK' /\ SlotInv' /\ HandlerInv'
    BY <1>9 DEF StopTimeout, IInv, TypeOK, SlotInv, HandlerInv
  <2>2. DrainInv'
    BY <1>9 DEF StopTimeout, IInv, DrainInv, DrainedMeansIdle
  <2>3. QED
    BY <2>1, <2>2 DEF IInv
<1>10. CASE UNCHANGED vars
  BY <1>10 DEF vars, IInv, TypeOK, SlotInv, HandlerInv, DrainInv, DrainedMeansIdle
<1>11. QED
  BY <1>1, <1>2, <1>3, <1>4, <1>5, <1>6, <1>7, <1>8, <1>9, <1>10 DEF Next

LEMMA SpecIInv == Spec => []IInv
  BY InitIInv, StepIInv, PTL DEF Spec

(* The type invariant.                                                     *)
THEOREM SchedulerTypeOK == Spec => []TypeOK
<1>1. IInv => TypeOK
  BY DEF IInv
<1>2. QED
  BY <1>1, SpecIInv, PTL

(* Overlap protection is only lost through a timeout: a handler that runs  *)
(* beside the tracked run of its worker was abandoned by its own timer.    *)
THEOREM OverlapNeedsTimeout == Spec => []OnlyAbandonedHandlersOverlap
<1>1. IInv => OnlyAbandonedHandlersOverlap
  BY DEF IInv, HandlerInv, OnlyAbandonedHandlersOverlap, RunsOf
<1>2. QED
  BY <1>1, SpecIInv, PTL

(* When stop() reports 'drained' nothing is in flight, then or later.      *)
THEOREM DrainedIsIdle == Spec => []DrainedMeansIdle
<1>1. IInv => DrainedMeansIdle
  BY DEF IInv, DrainInv
<1>2. QED
  BY <1>1, SpecIInv, PTL

-----------------------------------------------------------------------------
(* The scheduler implements WorkerSlots.                                   *)

(* The accounted runs of a worker grow by one when one of the outcomes of  *)
(* a run is counted, and not otherwise.                                    *)
LEMMA CountAccounts ==
  ASSUME TypeOK, NEW w \in Workers, NEW status \in Status, Count(w, status)
  PROVE  /\ status # "skipped_overlap" =>
              [v \in Workers |-> Counted(v)]' =
                [[v \in Workers |-> Counted(v)] EXCEPT ![w] = @ + 1]
         /\ status = "skipped_overlap" =>
              [v \in Workers |-> Counted(v)]' = [v \in Workers |-> Counted(v)]
<1>1. \A v \in Workers : v # w => runsTotal'[v] = runsTotal[v]
  BY DEF Count, TypeOK
<1>2. /\ runsTotal'[w][status] = runsTotal[w][status] + 1
      /\ \A s \in Status : s # status => runsTotal'[w][s] = runsTotal[w][s]
  BY DEF Count, TypeOK
<1>3. \A s \in Status : runsTotal[w][s] \in Nat
  BY DEF TypeOK
<1>4. \A v \in Workers : v # w => Counted(v)' = Counted(v)
  BY <1>1 DEF Counted
<1>5. status # "skipped_overlap" => Counted(w)' = Counted(w) + 1
  BY <1>2, <1>3 DEF Counted, Status, Settled
<1>6. status = "skipped_overlap" => Counted(w)' = Counted(w)
  BY <1>2 DEF Counted, Status, Settled
<1>7. QED
  BY <1>4, <1>5, <1>6

(* Starting idle workers admits those whose handler returned a promise.    *)
LEMMA StartRunsAdmits ==
  ASSUME IInv, NEW W \in SUBSET Workers, NEW T \in SUBSET W, StartRuns(W, T),
         \A w \in W : ~inFlight[w], ~stopped
  PROVE  Slots!Admit(W \ T)
<1> USE DEF StartRuns
<1>1. W \ T \subseteq Workers \ {w \in Workers : inFlight[w]}
  OBVIOUS
<1>2. {w \in Workers : inFlight[w]}' = {w \in Workers : inFlight[w]} \union (W \ T)
  OBVIOUS
<1>3. ASSUME NEW w \in Workers
      PROVE  fired'[w] - unhandled'[w] =
               IF w \in W \ T THEN (fired[w] - unhandled[w]) + 1
                             ELSE fired[w] - unhandled[w]
  <2>1. fired[w] \in Nat /\ unhandled[w] \in Nat
    BY SchedulerAssumption DEF IInv, TypeOK
  <2>2. CASE w \in T
    <3>1. fired'[w] = fired[w] + 1 /\ unhandled'[w] = unhandled[w] + 1
      BY <2>2
    <3>2. QED
      BY <2>1, <2>2, <3>1
  <2>3. CASE w \in W \ T
    <3>1. fired'[w] = fired[w] + 1 /\ unhandled'[w] = unhandled[w]
      BY <2>3
    <3>2. QED
      BY <2>1, <2>3, <3>1
  <2>4. CASE w \notin W
    <3>1. fired'[w] = fired[w] /\ unhandled'[w] = unhandled[w]
      BY <2>4
    <3>2. QED
      BY <2>4, <3>1
  <2>5. QED
    BY <2>2, <2>3, <2>4
<1>4. [v \in Workers |-> Counted(v)]' = [v \in Workers |-> Counted(v)]
  BY DEF Counted
<1>5. QED
  BY <1>1, <1>2, <1>3, <1>4 DEF Slots!Admit

(* Freeing a slot and counting the run's outcome accounts for the run.     *)
LEMMA ReleaseAccounts ==
  ASSUME IInv, NEW w \in Workers, Release(w), running[w] # 0,
         NEW status \in Status \ {"skipped_overlap"}, Count(w, status),
         UNCHANGED <<stopped, fired, unhandled>>
  PROVE  Slots!Account(w)
<1>1. w \in {v \in Workers : inFlight[v]}
  BY DEF IInv, SlotInv
<1>2. \A v \in Workers : inFlight'[v] = IF v = w THEN FALSE ELSE inFlight[v]
  BY DEF IInv, TypeOK, Release
<1>3. {v \in Workers : inFlight[v]}' = {v \in Workers : inFlight[v]} \ {w}
  BY <1>2
<1>4. [v \in Workers |-> Counted(v)]' =
        [[v \in Workers |-> Counted(v)] EXCEPT ![w] = @ + 1]
  BY CountAccounts DEF IInv
<1>5. QED
  BY <1>1, <1>3, <1>4 DEF Slots!Account

LEMMA InitSlots == Init => Slots!Init
<1> SUFFICES ASSUME Init PROVE Slots!Init
  OBVIOUS
<1>1. {w \in Workers : inFlight[w]} = {}
  BY DEF Init
<1>2. \A w \in Workers : fired[w] - unhandled[w] = 0 /\ Counted(w) = 0
  BY DEF Init, Counted, Status, Settled
<1>3. QED
  BY <1>1, <1>2 DEF Init, Slots!Init

LEMMA StepSlots == IInv /\ [Next]_vars => [Slots!Next]_(Slots!slots)
<1> SUFFICES ASSUME IInv, [Next]_vars PROVE [Slots!Next]_(Slots!slots)
  OBVIOUS
<1>1. ASSUME UNCHANGED <<stopped, inFlight, fired, unhandled, runsTotal>>
      PROVE  UNCHANGED Slots!slots
  BY <1>1 DEF Slots!slots, Counted
<1>2. CASE Start
  <2>1. PICK T \in SUBSET StartupWorkers : StartRuns(StartupWorkers, T)
    BY <1>2 DEF Start
  <2>2. ~stopped /\ \A w \in StartupWorkers : ~inFlight[w]
    BY <1>2, SchedulerAssumption DEF Start, IInv, SlotInv, DrainInv
  <2>3. Slots!Admit(StartupWorkers \ T)
    BY <2>1, <2>2, SchedulerAssumption, StartRunsAdmits
  <2>4. QED
    BY <2>3, SchedulerAssumption DEF Slots!Next
<1>3. ASSUME NEW w \in Workers, TickRun(w) PROVE Slots!Next
  <2>1. PICK T \in SUBSET {w} : StartRuns({w}, T)
    BY <1>3 DEF TickRun
  <2>2. ~stopped /\ \A v \in {w} : ~inFlight[v]
    BY <1>3 DEF TickRun
  <2>3. Slots!Admit({w} \ T)
    BY <2>1, <2>2, StartRunsAdmits
  <2>4. QED
    BY <2>3 DEF Slots!Next
<1>4. ASSUME NEW w \in Workers, TickSkip(w) PROVE UNCHANGED Slots!slots
  <2>1. [v \in Workers |-> Counted(v)]' = [v \in Workers |-> Counted(v)]
    BY <1>4, CountAccounts DEF TickSkip, IInv, Status
  <2>2. QED
    BY <1>4, <2>1 DEF TickSkip, Slots!slots
<1>5. ASSUME NEW w \in Workers, NEW status \in Settled, SettleInTime(w, status)
      PROVE  Slots!Next
  <2>1. Slots!Account(w)
    BY <1>5, ReleaseAccounts DEF SettleInTime, Status, Settled
  <2>2. QED
    BY <2>1 DEF Slots!Next
<1>6. ASSUME NEW w \in Workers, NEW r \in 1..MaxRuns, SettleLate(w, r)
      PROVE  UNCHANGED Slots!slots
  BY <1>1, <1>6 DEF SettleLate
<1>7. ASSUME NEW w \in Workers, TimerFire(w) PROVE Slots!Next
  <2>1. PICK status \in Status \ {"skipped_overlap"} : Count(w, status)
    BY <1>7 DEF TimerFire, Status, Settled
  <2>2. Slots!Account(w)
    BY <1>7, <2>1, ReleaseAccounts DEF TimerFire
  <2>3. QED
    BY <2>2 DEF Slots!Next
<1>8. CASE StopBegin
  <2>1. Slots!Close
    BY <1>8 DEF StopBegin, Slots!Close, Counted
  <2>2. QED
    BY <2>1 DEF Slots!Next
<1>9. CASE StopDrained
  BY <1>1, <1>9 DEF StopDrained
<1>10. CASE StopTimeout
  BY <1>1, <1>10 DEF StopTimeout
<1>11. CASE UNCHANGED vars
  BY <1>1, <1>11 DEF vars
<1>12. QED
  BY <1>2, <1>3, <1>4, <1>5, <1>6, <1>7, <1>8, <1>9, <1>10, <1>11 DEF Next

(* Every behaviour of the scheduler is one of WorkerSlots: each run whose  *)
(* handler returned a promise is counted exactly once and none starts      *)
(* after stop().                                                           *)
THEOREM SchedulerImplementsSlots == Spec => ImplementsSlots
<1>1. QED
  BY InitSlots, StepSlots, SpecIInv, PTL DEF Spec, ImplementsSlots, Slots!Spec

-----------------------------------------------------------------------------
(* No worker stays locked out.                                             *)

(* The timer of w's run fires, the fairness of FairSpec: the guard takes   *)
(* the place of ENABLED.                                                   *)
TimerRings(w) == []<>~(running[w] # 0) \/ []<><<TimerFire(w)>>_vars

(* A worker's slot is freed again although handlers promise nothing: the   *)
(* timer is enough.                                                        *)
THEOREM SlotIsFreed == Spec /\ (\A w \in Workers : TimerRings(w)) => SlotFreed
<1>. SUFFICES ASSUME NEW w \in Workers
              PROVE  Spec /\ TimerRings(w) => (inFlight[w] ~> ~inFlight[w])
  BY DEF SlotFreed
<1>1. IInv => (inFlight[w] <=> running[w] # 0)
  BY DEF IInv, SlotInv
<1>2. IInv /\ <<TimerFire(w)>>_vars => ~inFlight[w]'
  BY DEF IInv, TimerFire, Release, TypeOK
<1>. QED
  BY <1>1, <1>2, SpecIInv, PTL DEF Spec, TimerRings

=============================================================================
