--------------------------- MODULE NewsCacheProofs ---------------------------
(***************************************************************************)
(* What holds of the news cache for any number of feeds, articles, fetch   *)
(* loops and overlapping runs of fetch-news.  The scheduler's part of the  *)
(* invariant is the one of SchedulerProofs.                                *)
(***************************************************************************)
EXTENDS NewsCache, SchedulerProofs, FiniteSetTheorems, SequenceTheorems

Stages == {"none", "feeds", "articles", "connect", "deleting", "inserting", "ended"}
Job == [stage : Stages, feed : 1..Sources, queue : Seq(Slot), cursor : Nat,
        loop : [1..Loops -> Nat], results : Seq(Nat), seen : SUBSET Row,
        deleted : SUBSET Row, inserted : SUBSET Row]

Precedes(s, t) == s[1] < t[1] \/ (s[1] = t[1] /\ s[2] < t[2])

(* The queue is in the order of source and rank, and what is collected are *)
(* articles of the queue.                                                  *)
Collection(j) ==
  /\ j.cursor \in 1..(Len(j.queue) + 1)
  /\ j.loop \in [1..Loops -> 0..Len(j.queue)]
  /\ j.results \in Seq(1..Len(j.queue))
  /\ \A i, k \in 1..Len(j.queue) : i < k => Precedes(j.queue[i], j.queue[k])
  /\ j.stage = "feeds" => \A i \in 1..Len(j.queue) : j.queue[i][1] < j.feed

(* What a handler holds at each stage.                                     *)
Staged(j) ==
  /\ j.stage # "articles" => j.loop = NoLoop
  /\ j.stage \in {"connect", "deleting", "inserting"} => j.results # <<>>
  /\ j.stage \notin {"deleting", "inserting"} => j.seen = {}
  /\ j.stage # "inserting" => j.deleted = {} /\ j.inserted = {}
  /\ j.deleted \subseteq j.seen

(* The INSERT goes through the queue: what it has reached stands before    *)
(* what it has not.                                                        *)
PendingIn(j, r) ==
  {i \in {j.results[k] : k \in 1..Len(j.results)} :
     [slot |-> j.queue[i], run |-> r] \notin j.inserted}

Ahead(j, r) ==
  \A x \in j.inserted : \E i \in 1..Len(j.queue) :
    x = [slot |-> j.queue[i], run |-> r] /\ \A k \in PendingIn(j, r) : i < k

JobOK(j, r) == j \in Job /\ Collection(j) /\ Staged(j) /\ Ahead(j, r)

JobsInv ==
  /\ job \in [RunIds -> Job]
  /\ rows \subseteq Row
  /\ \A r \in RunIds : JobOK(job[r], r)

(* A handler the scheduler counts as unsettled is between its start and    *)
(* its end, and runs are started in order.                                 *)
HandlersMatch ==
  /\ \A r \in RunIds : job[r].stage \notin {"none", "ended"} <=> <<News, r>> \in handlers
  /\ \A r \in RunIds : fired[News] < r => job[r].stage = "none"
  /\ ~ticking => fired[News] = 0

InTables(r) == job[r].stage \in {"deleting", "inserting"}

(* Nobody has seen a row of a run that has not committed; a snapshot holds *)
(* all rows of a refresh or none, and those of an earlier process.         *)
Snapshots ==
  /\ \A p \in RunIds : job[p].stage # "ended" =>
       /\ \A x \in rows : x.run # p
       /\ \A q \in RunIds : \A x \in job[q].seen : x.run # p
  /\ \A q, r \in RunIds : RowsOf(r) \subseteq job[q].seen \/ RowsOf(r) \intersect job[q].seen = {}
  /\ \A q \in RunIds : InTables(q) => \A x \in rows : x.run = 0 => x \in job[q].seen

(* A DELETE takes every row of its snapshot that is still there, and no    *)
(* two transactions delete the same row.                                   *)
Deletions ==
  /\ \A q \in RunIds : job[q].stage = "inserting" => job[q].seen \intersect rows \subseteq job[q].deleted
  /\ \A q, r \in RunIds : q # r => job[q].deleted \intersect job[r].deleted = {}

(* As long as no run was abandoned, one run at a time is in the tables and *)
(* its snapshot is what is there.                                          *)
ExactSoFar ==
  aborted = {} =>
    /\ \A x, y \in rows : x.run = y.run
    /\ \A r \in RunIds : InTables(r) => job[r].seen = rows

NewsInv == IInv /\ JobsInv /\ HandlersMatch /\ Snapshots /\ Deletions /\ ExactSoFar

-----------------------------------------------------------------------------
(* A nonempty set of numbers has a least one.                              *)
LEMMA SmallestExists ==
  ASSUME NEW S \in SUBSET Nat, S # {}
  PROVE  Smallest(S) \in S /\ \A k \in S : Smallest(S) <= k
<1>. DEFINE Below(n) == 0..(n - 1)
            T == {Below(n) : n \in S}
<1>1. \A n \in Nat : IsFiniteSet(Below(n)) /\ Below(n) \in SUBSET Nat
  BY FS_Interval
<1>2. T \subseteq FiniteSubsetsOf(Nat) /\ T # {}
  BY <1>1 DEF FiniteSubsetsOf
<1>3. PICK x \in T : \A y \in T : ~(<<y, x>> \in StrictSubsetOrdering(Nat))
  <2>. HIDE DEF T
  <2>. QED
    BY <1>2, WFMin, FS_StrictSubsetOrderingWellFounded
<1>4. PICK n \in S : x = Below(n)
  BY <1>3
<1>5. ASSUME NEW m \in S, m < n PROVE FALSE
  <2>1. Below(m) \subseteq Below(n) /\ m \in Below(n) /\ m \notin Below(m)
    BY <1>5
  <2>2. <<Below(m), Below(n)>> \in StrictSubsetOrdering(Nat)
    BY <1>1, <2>1 DEF StrictSubsetOrdering
  <2>. QED
    BY <1>3, <1>4, <2>2
<1>6. \E k \in S : \A m \in S : k <= m
  BY <1>5
<1>. QED
  BY <1>6 DEF Smallest

LEMMA RunIdsNat == MaxRuns \in Nat /\ \A r \in RunIds : r \in Nat /\ r # 0 /\ r <= MaxRuns
BY SchedulerAssumption DEF RunIds

(* A run that is not collecting or writing holds nothing.                  *)
LEMMA RestingOK ==
  ASSUME NEW r, NEW stage \in {"none", "feeds", "ended"}
  PROVE  JobOK(Resting(stage), r)
<1>. DEFINE j == Resting(stage)
<1>1. 0 \in Nat /\ 1 \in 1..Sources /\ Loops \in Nat
  BY NewsAssumption
<1>2. NoLoop \in [1..Loops -> Nat] /\ NoLoop \in [1..Loops -> 0..0]
  BY DEF NoLoop
<1>3. j \in Job
  <2>1. <<>> \in Seq(Slot) /\ <<>> \in Seq(Nat)
    OBVIOUS
  <2>. QED
    BY <1>1, <1>2, <2>1 DEF Resting, Job, Stages
<1>4. Collection(j)
  <2>1. Len(j.queue) = 0 /\ j.queue = <<>> /\ j.results = <<>>
    BY DEF Resting
  <2>2. j.cursor = 1 /\ j.loop = NoLoop
    BY DEF Resting
  <2>. QED
    BY <1>2, <2>1, <2>2 DEF Collection
<1>5. Staged(j) /\ Ahead(j, r)
  BY DEF Resting, Staged, Ahead
<1>. QED
  BY <1>3, <1>4, <1>5 DEF JobOK

(* Changing what one run holds.                                            *)
LEMMA JobChange ==
  ASSUME JobsInv, NEW r \in RunIds, NEW j, JobOK(j, r), job' = [job EXCEPT ![r] = j],
         rows' \subseteq Row
  PROVE  /\ JobsInv'
         /\ job'[r] = j
         /\ \A q \in RunIds : q # r => job'[q] = job[q]
<1>1. job \in [RunIds -> Job] /\ j \in Job
  BY DEF JobsInv, JobOK
<1>2. /\ job' \in [RunIds -> Job]
      /\ job'[r] = j
      /\ \A q \in RunIds : q # r => job'[q] = job[q]
  BY <1>1
<1>3. \A q \in RunIds : JobOK(job'[q], q)
  BY <1>2 DEF JobsInv
<1>. QED
  BY <1>2, <1>3 DEF JobsInv, JobOK, Collection, Staged, Ahead, PendingIn

(* The rows stay, and a run that is not in the tables afterwards forgets   *)
(* its snapshot: what relates rows and runs is kept.                       *)
LEMMA OutOfTables ==
  ASSUME JobsInv, Snapshots, Deletions, ExactSoFar,
         NEW r \in RunIds, NEW j, JobOK(j, r), job' = [job EXCEPT ![r] = j], rows' = rows,
         j.stage \notin {"deleting", "inserting"},
         job[r].stage = "ended" => j.stage = "ended",
         aborted' = {} => aborted = {}
  PROVE  JobsInv' /\ Snapshots' /\ Deletions' /\ ExactSoFar'
<1>1. rows' \subseteq Row
  BY DEF JobsInv
<1>2. /\ JobsInv'
      /\ job'[r] = j
      /\ \A q \in RunIds : q # r => job'[q] = job[q]
  BY <1>1, JobChange
<1>3. j.seen = {} /\ j.deleted = {}
  BY DEF JobOK, Staged
<1>4. Snapshots'
  BY <1>2, <1>3 DEF Snapshots, InTables, RowsOf
<1>5. Deletions'
  BY <1>2, <1>3 DEF Deletions
<1>6. ExactSoFar'
  BY <1>2 DEF ExactSoFar, InTables
<1>. QED
  BY <1>2, <1>4, <1>5, <1>6

-----------------------------------------------------------------------------
(* The scheduler's part of the steps.                                      *)

LEMMA EndSchedules ==
  ASSUME NEW r \in RunIds, NEW status \in Settled, End(r, status)
  PROVE  /\ Next
         /\ handlers' = handlers \ {<<News, r>>} /\ <<News, r>> \in handlers
         /\ UNCHANGED <<fired, aborted, ticking>>
<1>1. News \in Workers
  BY NewsAssumption
<1>2. CASE running[News] = r
  <2>1. SettleInTime(News, status)
    BY <1>2 DEF End
  <2>. QED
    BY <1>1, <1>2, <2>1 DEF SettleInTime, Next
<1>3. CASE running[News] # r
  <2>1. SettleLate(News, r)
    BY <1>3 DEF End
  <2>. QED
    BY <1>1, <2>1 DEF SettleLate, Next, RunIds
<1>. QED
  BY <1>2, <1>3

(* Starting the next run of fetch-news, in the turn of start() or a tick.  *)
LEMMA StartSchedules ==
  ASSUME IInv, NEW W \in SUBSET Workers, NEW T \in SUBSET W, StartRuns(W, T),
         unhandled' = unhandled
  PROVE  /\ UNCHANGED aborted
         /\ News \in W => /\ fired[News] + 1 \in RunIds
                          /\ fired'[News] = fired[News] + 1
                          /\ handlers' = handlers \union {<<News, fired[News] + 1>>}
         /\ News \notin W => UNCHANGED <<fired, handlers>>
<1>1. /\ Workers = {News} /\ fired[News] \in 0..MaxRuns /\ MaxRuns \in Nat
      /\ fired \in [Workers -> 0..MaxRuns] /\ unhandled[News] \in 0..MaxRuns
  BY NewsAssumption, SchedulerAssumption DEF IInv, TypeOK
<1>2. News \notin T
  <2>. SUFFICES ASSUME News \in T PROVE FALSE
    OBVIOUS
  <2>1. unhandled'[News] = unhandled[News] + 1
    BY <1>1 DEF StartRuns
  <2>. QED
    BY <1>1, <2>1
<1>3. /\ fired' = [w \in Workers |-> IF w \in W THEN fired[w] + 1 ELSE fired[w]]
      /\ handlers' = handlers \union {<<w, fired[w] + 1>> : w \in W \ T}
      /\ UNCHANGED aborted
      /\ \A w \in W : fired[w] < MaxRuns
  BY DEF StartRuns
<1>4. CASE News \in W
  <2>1. W \ T = {News}
    BY <1>1, <1>2, <1>4
  <2>2. handlers' = handlers \union {<<News, fired[News] + 1>>}
    BY <1>3, <2>1
  <2>3. fired[News] + 1 \in RunIds /\ fired'[News] = fired[News] + 1
    BY <1>1, <1>3, <1>4 DEF RunIds
  <2>. QED
    BY <1>3, <1>4, <2>2, <2>3
<1>5. CASE News \notin W
  <2>1. W = {} /\ W \ T = {}
    BY <1>1, <1>5
  <2>2. handlers' = handlers /\ \A w \in Workers : fired'[w] = fired[w]
    BY <1>3, <2>1
  <2>3. fired' = fired
    BY <1>1, <1>3, <2>2
  <2>. QED
    BY <1>3, <1>5, <2>2, <2>3
<1>. QED
  BY <1>4, <1>5

LEMMA KeepSchedules == ASSUME NEW r, NEW j, Keep(r, j) PROVE UNCHANGED vars
BY DEF Keep

(* Each step of the news cache is a step of the scheduler or leaves it.    *)
LEMMA StepSchedules == NewsNext => [Next]_vars
<1>. SUFFICES ASSUME NewsNext PROVE [Next]_vars
  OBVIOUS
<1>1. CASE StartNews
  BY <1>1 DEF StartNews, Next
<1>2. CASE TickNews
  BY <1>2, NewsAssumption DEF TickNews, Next
<1>3. CASE TimeOutNews
  BY <1>3, NewsAssumption DEF TimeOutNews, Next
<1>4. CASE OtherSchedulerStep
  BY <1>4, NewsAssumption DEF OtherSchedulerStep, Next
<1>5. ASSUME NEW r \in RunIds, NewsStep(r) PROVE [Next]_vars
  <2>1. (\E j : Keep(r, j)) => [Next]_vars
    BY KeepSchedules
  <2>2. (\E status \in Settled : End(r, status)) => [Next]_vars
    BY EndSchedules
  <2>3. "success" \in Settled /\ "failure" \in Settled
    BY DEF Settled
  <2>4. CASE FeedEnds(r)
    BY <2>1, <2>2, <2>3, <2>4 DEF FeedEnds
  <2>5. ASSUME NEW l \in 1..Loops, ArticleEnds(r, l) PROVE [Next]_vars
    BY <2>1, <2>2, <2>3, <2>5 DEF ArticleEnds, Collected
  <2>6. CASE DeleteBegins(r) \/ DeleteEnds(r) \/ InsertRow(r)
    BY <2>1, <2>6 DEF DeleteBegins, DeleteEnds, InsertRow
  <2>7. CASE Commit(r) \/ Fail(r)
    BY <2>2, <2>3, <2>7 DEF Commit, Fail
  <2>. QED
    BY <1>5, <2>4, <2>5, <2>6, <2>7 DEF NewsStep
<1>. QED
  BY <1>1, <1>2, <1>3, <1>4, <1>5 DEF NewsNext

-----------------------------------------------------------------------------
(* A handler that goes on.                                                 *)
LEMMA HandlerGoesOn ==
  ASSUME JobsInv, HandlersMatch, NEW r \in RunIds, NEW j, Keep(r, j),
         job[r].stage \notin {"none", "ended"}, j.stage \notin {"none", "ended"}
  PROVE  HandlersMatch'
<1>1. job' = [job EXCEPT ![r] = j] /\ UNCHANGED <<handlers, fired, ticking>>
  BY DEF Keep, vars
<1>2. job'[r] = j /\ \A q \in RunIds : q # r => job'[q] = job[q]
  BY <1>1 DEF JobsInv
<1>. QED
  BY <1>1, <1>2 DEF HandlersMatch

(* A handler that settles leaves the tables alone, or has committed.       *)
LEMMA HandlerEnds ==
  ASSUME JobsInv, HandlersMatch, NEW r \in RunIds, NEW status \in Settled, End(r, status)
  PROVE  HandlersMatch'
<1>1. /\ handlers' = handlers \ {<<News, r>>} /\ <<News, r>> \in handlers
      /\ UNCHANGED <<fired, aborted, ticking>>
  BY EndSchedules
<1>2. job' = [job EXCEPT ![r] = Resting("ended")]
  BY DEF End
<1>3. /\ job'[r].stage = "ended"
      /\ \A q \in RunIds : q # r => job'[q] = job[q]
  BY <1>2 DEF JobsInv, Resting
<1>4. \A q \in RunIds : q # r => (<<News, q>> \in handlers' <=> <<News, q>> \in handlers)
  BY <1>1
<1>5. \A q \in RunIds : job'[q].stage \notin {"none", "ended"} <=> <<News, q>> \in handlers'
  BY <1>1, <1>3, <1>4 DEF HandlersMatch
<1>6. ~(fired[News] < r)
  BY <1>1 DEF HandlersMatch
<1>. QED
  BY <1>1, <1>3, <1>5, <1>6 DEF HandlersMatch

(* ... when it ends without COMMIT.                                        *)
LEMMA EndKeeps ==
  ASSUME NewsInv, NEW r \in RunIds, NEW status \in Settled, End(r, status), rows' = rows
  PROVE  JobsInv' /\ HandlersMatch' /\ Snapshots' /\ Deletions' /\ ExactSoFar'
<1>1. job' = [job EXCEPT ![r] = Resting("ended")] /\ aborted' = aborted
  BY EndSchedules DEF End
<1>2. JobOK(Resting("ended"), r) /\ Resting("ended").stage = "ended"
  BY RestingOK DEF Resting
<1>3. HandlersMatch'
  BY HandlerEnds DEF NewsInv
<1>4. JobsInv' /\ Snapshots' /\ Deletions' /\ ExactSoFar'
  BY <1>1, <1>2, OutOfTables DEF NewsInv
<1>. QED
  BY <1>3, <1>4

(* ... and when it goes on outside of the tables.                          *)
LEMMA KeepOutside ==
  ASSUME NewsInv, NEW r \in RunIds, NEW j, Keep(r, j), rows' = rows, JobOK(j, r),
         job[r].stage \notin {"none", "ended"},
         j.stage \in {"feeds", "articles", "connect"}
  PROVE  JobsInv' /\ HandlersMatch' /\ Snapshots' /\ Deletions' /\ ExactSoFar'
<1>1. job' = [job EXCEPT ![r] = j] /\ aborted' = aborted
  BY DEF Keep, vars
<1>2. HandlersMatch'
  BY HandlerGoesOn DEF NewsInv
<1>3. JobsInv' /\ Snapshots' /\ Deletions' /\ ExactSoFar'
  BY <1>1, OutOfTables DEF NewsInv
<1>. QED
  BY <1>2, <1>3

(* The scheduler starts a run: its handler is at the first feed.           *)
LEMMA FetchingKeeps ==
  ASSUME NewsInv, NEW r \in RunIds, job' = Fetching(r), rows' = rows,
         job[r].stage = "none", UNCHANGED aborted
  PROVE  /\ JobsInv' /\ Snapshots' /\ Deletions' /\ ExactSoFar'
         /\ job'[r].stage = "feeds"
         /\ \A q \in RunIds : q # r => job'[q] = job[q]
<1>1. job' = [job EXCEPT ![r] = Resting("feeds")]
  BY DEF Fetching
<1>2. JobOK(Resting("feeds"), r) /\ Resting("feeds").stage = "feeds"
  BY RestingOK DEF Resting
<1>3. JobsInv' /\ Snapshots' /\ Deletions' /\ ExactSoFar'
  BY <1>1, <1>2, OutOfTables DEF NewsInv
<1>4. job'[r].stage = "feeds" /\ \A q \in RunIds : q # r => job'[q] = job[q]
  BY <1>1, <1>2 DEF NewsInv, JobsInv
<1>. QED
  BY <1>3, <1>4

LEMMA StartRunKeeps ==
  ASSUME NewsInv, fired[News] + 1 \in RunIds, rows' = rows,
         job' = Fetching(fired[News] + 1), UNCHANGED aborted,
         fired'[News] = fired[News] + 1, ticking',
         handlers' = handlers \union {<<News, fired[News] + 1>>}
  PROVE  JobsInv' /\ HandlersMatch' /\ Snapshots' /\ Deletions' /\ ExactSoFar'
<1>. DEFINE r == fired[News] + 1
<1>1. fired[News] \in Nat
  BY SchedulerAssumption, NewsAssumption DEF NewsInv, IInv, TypeOK
<1>2. job[r].stage = "none"
  BY <1>1 DEF NewsInv, HandlersMatch
<1>3. /\ JobsInv' /\ Snapshots' /\ Deletions' /\ ExactSoFar'
      /\ job'[r].stage = "feeds"
      /\ \A q \in RunIds : q # r => job'[q] = job[q]
  <2>. HIDE DEF r
  <2>. QED
    BY <1>2, FetchingKeeps DEF r
<1>4. \A q \in RunIds : q # r => (<<News, q>> \in handlers' <=> <<News, q>> \in handlers)
  OBVIOUS
<1>5. \A q \in RunIds : job'[q].stage \notin {"none", "ended"} <=> <<News, q>> \in handlers'
  BY <1>3, <1>4 DEF NewsInv, HandlersMatch
<1>6. \A q \in RunIds : fired'[News] < q => q # r /\ fired[News] < q
  BY <1>1, RunIdsNat
<1>7. HandlersMatch'
  BY <1>3, <1>5, <1>6 DEF NewsInv, HandlersMatch
<1>. QED
  BY <1>3, <1>7

LEMMA StartNewsKeeps == ASSUME NewsInv, StartNews PROVE NewsInv'
<1>1. IInv'
  BY StepSchedules, StepIInv DEF NewsInv, NewsNext
<1>2. PICK T \in SUBSET StartupWorkers : StartRuns(StartupWorkers, T)
  BY DEF StartNews, Start
<1>3. /\ unhandled' = unhandled /\ rows' = rows /\ ticking' /\ fired[News] = 0
      /\ job' = IF News \in StartupWorkers THEN Fetching(1) ELSE job
  BY DEF StartNews, Start, NewsInv, HandlersMatch
<1>4. StartupWorkers \in SUBSET Workers
  BY SchedulerAssumption
<1>5. CASE News \in StartupWorkers
  <2>1. /\ fired[News] + 1 \in RunIds /\ UNCHANGED aborted
        /\ fired'[News] = fired[News] + 1
        /\ handlers' = handlers \union {<<News, fired[News] + 1>>}
    BY <1>2, <1>3, <1>4, <1>5, StartSchedules DEF NewsInv
  <2>2. job' = Fetching(fired[News] + 1)
    BY <1>3, <1>5
  <2>. QED
    BY <1>1, <1>3, <2>1, <2>2, StartRunKeeps DEF NewsInv
<1>6. CASE News \notin StartupWorkers
  <2>1. UNCHANGED <<aborted, fired, handlers, job, rows>>
    BY <1>2, <1>3, <1>4, <1>6, StartSchedules DEF NewsInv
  <2>2. JobsInv' /\ Snapshots' /\ Deletions' /\ ExactSoFar' /\ HandlersMatch'
    BY <1>3, <2>1 DEF NewsInv, JobsInv, Snapshots, InTables, RowsOf, Deletions, ExactSoFar,
                      HandlersMatch
  <2>. QED
    BY <1>1, <2>2 DEF NewsInv
<1>. QED
  BY <1>5, <1>6

LEMMA TickNewsKeeps == ASSUME NewsInv, TickNews PROVE NewsInv'
<1>1. IInv'
  BY StepSchedules, StepIInv DEF NewsInv, NewsNext
<1>2. PICK T \in SUBSET {News} : StartRuns({News}, T)
  BY DEF TickNews, TickRun
<1>3. /\ unhandled' = unhandled /\ rows' = rows /\ ticking'
      /\ job' = Fetching(fired[News] + 1)
  BY DEF TickNews, TickRun
<1>4. {News} \in SUBSET Workers
  BY NewsAssumption
<1>5. /\ fired[News] + 1 \in RunIds /\ UNCHANGED aborted
      /\ fired'[News] = fired[News] + 1
      /\ handlers' = handlers \union {<<News, fired[News] + 1>>}
  BY <1>2, <1>3, <1>4, StartSchedules DEF NewsInv
<1>. QED
  BY <1>1, <1>3, <1>5, StartRunKeeps DEF NewsInv

(* Timeouts, skipped ticks and the shutdown touch no handler.              *)
LEMMA OtherStepKeeps ==
  ASSUME NewsInv, TimeOutNews \/ OtherSchedulerStep
  PROVE  NewsInv'
<1>1. IInv'
  BY StepSchedules, StepIInv DEF NewsInv, NewsNext
<1>2. UNCHANGED <<handlers, fired, job, rows>> /\ (aborted' = {} => aborted = {})
      /\ (~ticking' => ~ticking)
  BY DEF TimeOutNews, TimerFire, OtherSchedulerStep, TickSkip, StopBegin, StopDrained, StopTimeout
<1>3. JobsInv' /\ Snapshots' /\ Deletions' /\ ExactSoFar' /\ HandlersMatch'
  BY <1>2 DEF NewsInv, JobsInv, Snapshots, InTables, RowsOf, Deletions, ExactSoFar,
              HandlersMatch
<1>. QED
  BY <1>1, <1>3 DEF NewsInv

-----------------------------------------------------------------------------
(* Collecting.                                                             *)

(* The articles of a feed go behind those of the feeds before it.          *)
LEMMA FeedQueues ==
  ASSUME NEW queue \in Seq(Slot), NEW s \in 1..Sources, NEW n \in 0..PerSource,
         \A i, k \in 1..Len(queue) : i < k => Precedes(queue[i], queue[k]),
         \A i \in 1..Len(queue) : queue[i][1] < s
  PROVE  LET longer == queue \o [i \in 1..n |-> <<s, i>>]
         IN /\ longer \in Seq(Slot)
            /\ Len(longer) \in Nat /\ Len(longer) >= Len(queue)
            /\ \A i, k \in 1..Len(longer) : i < k => Precedes(longer[i], longer[k])
            /\ \A i \in 1..Len(longer) : longer[i][1] <= s
<1>. DEFINE feed == [i \in 1..n |-> <<s, i>>]
            longer == queue \o feed
            m == Len(queue)
<1>1. n \in Nat /\ m \in Nat /\ s \in Nat
  BY NewsAssumption, LenProperties
<1>2. \A i \in 1..n : <<s, i>> \in Slot
  BY NewsAssumption DEF Slot
<1>3. feed \in [1..n -> Slot] /\ \A i \in 1..n : feed[i] = <<s, i>>
  BY <1>2
<1>4. feed \in Seq(Slot) /\ Len(feed) = n
  <2>. HIDE DEF feed
  <2>. QED
    BY <1>1, <1>3
<1>5. /\ longer \in Seq(Slot)
      /\ Len(longer) = m + n
      /\ \A i \in 1..(m + n) : longer[i] = IF i <= m THEN queue[i] ELSE feed[i - m]
  <2>. HIDE DEF feed
  <2>. QED
    BY <1>4, ConcatProperties
<1>6. \A i \in 1..(m + n) :
        IF i <= m THEN i \in 1..m /\ longer[i] = queue[i]
                  ELSE i - m \in 1..n /\ longer[i] = <<s, i - m>>
  <2>. HIDE DEF longer, feed
  <2>. QED
    BY <1>1, <1>3, <1>5
<1>. HIDE DEF longer, feed
<1>7. \A i \in 1..m : queue[i][1] \in Nat
  BY ElementOfSeq DEF Slot
<1>8. ASSUME NEW i \in 1..(m + n), NEW k \in 1..(m + n), i < k
      PROVE  Precedes(longer[i], longer[k])
  <2>1. CASE k <= m
    BY <1>1, <1>6, <1>8, <2>1
  <2>2. CASE i <= m /\ ~(k <= m)
    BY <1>6, <2>2 DEF Precedes
  <2>3. CASE ~(i <= m)
    BY <1>1, <1>6, <1>8, <2>3 DEF Precedes
  <2>. QED
    BY <1>1, <2>1, <2>2, <2>3
<1>9. \A i \in 1..(m + n) : longer[i][1] <= s
  BY <1>1, <1>6, <1>7
<1>10. Len(longer) = m + n /\ Len(longer) \in Nat /\ Len(longer) >= m
  BY <1>1, <1>5
<1>11. \A i, k \in 1..Len(longer) : i < k => Precedes(longer[i], longer[k])
  BY <1>8, <1>10
<1>12. \A i \in 1..Len(longer) : longer[i][1] <= s
  BY <1>9, <1>10
<1>13. longer \in Seq(Slot)
  BY <1>5
<1>. QED
  BY <1>10, <1>11, <1>12, <1>13 DEF longer, feed

(* The loops begin with the first articles, the cursor behind them.        *)
LEMMA CursorStart ==
  ASSUME NEW n \in Nat
  PROVE  /\ Smallest({n, Loops}) + 1 \in 1..(n + 1)
         /\ \A l \in 1..Loops : l <= n <=> l <= Smallest({n, Loops})
<1>1. Loops \in Nat /\ {n, Loops} \in SUBSET Nat /\ {n, Loops} # {}
  BY NewsAssumption
<1>2. Smallest({n, Loops}) \in {n, Loops} /\ \A k \in {n, Loops} : Smallest({n, Loops}) <= k
  BY <1>1, SmallestExists
<1>. QED
  BY <1>1, <1>2

LEMMA FeedEndsKeeps ==
  ASSUME NewsInv, NEW r \in RunIds, FeedEnds(r)
  PROVE  JobsInv' /\ HandlersMatch' /\ Snapshots' /\ Deletions' /\ ExactSoFar'
<1>1. JobOK(job[r], r) /\ job[r].stage = "feeds" /\ rows' = rows
  BY DEF NewsInv, JobsInv, FeedEnds
<1>. DEFINE s == job[r].feed
<1>2. PICK n \in 0..PerSource :
        LET j == [job[r] EXCEPT !.queue = @ \o [i \in 1..n |-> <<s, i>>]]
        IN \/ ~Aborted(r) /\ s < Sources /\ Keep(r, [j EXCEPT !.feed = s + 1])
           \/ ~Aborted(r) /\ s = Sources /\ j.queue # <<>> /\ Keep(r, LoopsStarted(j))
           \/ Aborted(r) /\ End(r, "success")
           \/ s = Sources /\ j.queue = <<>> /\ End(r, "success")
  BY DEF FeedEnds
<1>. DEFINE old == job[r]
            longer == old.queue \o [i \in 1..n |-> <<s, i>>]
            j == [old EXCEPT !.queue = longer]
<1>3. old \in Job /\ Collection(old) /\ Staged(old)
  BY <1>1 DEF JobOK
<1>4. /\ old.queue \in Seq(Slot) /\ s \in 1..Sources /\ Len(old.queue) \in Nat
      /\ old.loop = NoLoop /\ old.seen = {} /\ old.deleted = {} /\ old.inserted = {}
      /\ old.results \in Seq(1..Len(old.queue)) /\ old.cursor \in 1..(Len(old.queue) + 1)
      /\ Sources \in Nat /\ Loops \in Nat
  BY <1>1, <1>3, LenProperties, NewsAssumption DEF Job, Collection, Staged
<1>5. /\ longer \in Seq(Slot)
      /\ Len(longer) \in Nat /\ Len(longer) >= Len(old.queue)
      /\ \A i, k \in 1..Len(longer) : i < k => Precedes(longer[i], longer[k])
      /\ \A i \in 1..Len(longer) : longer[i][1] <= s
  <2>1. /\ \A i, k \in 1..Len(old.queue) : i < k => Precedes(old.queue[i], old.queue[k])
        /\ \A i \in 1..Len(old.queue) : old.queue[i][1] < s
    BY <1>1, <1>3 DEF Collection
  <2>. HIDE DEF s, old
  <2>. QED
    BY <1>4, <2>1, FeedQueues
<1>. HIDE DEF longer
<1>6. \A i \in 1..Len(longer) : longer[i][1] \in Nat
  BY <1>5, ElementOfSeq DEF Slot
<1>7. old.results \in Seq(1..Len(longer))
  <2>1. 1..Len(old.queue) \subseteq 1..Len(longer)
    BY <1>4, <1>5
  <2>. QED
    BY <1>4, <2>1, SeqMonotonic
<1>8. NoLoop \in [1..Loops -> 0..Len(longer)]
  BY <1>5 DEF NoLoop
<1>9. j \in Job
  BY <1>3, <1>5 DEF Job
<1>10. CASE s < Sources /\ Keep(r, [j EXCEPT !.feed = s + 1])
  <2>. DEFINE next == [j EXCEPT !.feed = s + 1]
  <2>1. /\ next.stage = "feeds" /\ next.feed = s + 1 /\ next.queue = longer
        /\ next.cursor = old.cursor /\ next.loop = NoLoop /\ next.results = old.results
        /\ next.seen = {} /\ next.deleted = {} /\ next.inserted = {}
    BY <1>1, <1>3, <1>4 DEF Job
  <2>2. next \in Job
    <3>1. s + 1 \in 1..Sources
      BY <1>4, <1>10
    <3>. QED
      BY <1>9, <3>1 DEF Job
  <2>. HIDE DEF next
  <2>3. Collection(next)
    <3>1. next.cursor \in 1..(Len(next.queue) + 1)
      BY <1>4, <1>5, <2>1
    <3>2. \A i \in 1..Len(next.queue) : next.queue[i][1] < next.feed
      BY <1>4, <1>5, <1>6, <2>1
    <3>3. \A i, k \in 1..Len(next.queue) : i < k => Precedes(next.queue[i], next.queue[k])
      BY <1>5, <2>1
    <3>. QED
      BY <1>7, <1>8, <2>1, <3>1, <3>2, <3>3 DEF Collection
  <2>4. JobOK(next, r)
    BY <2>1, <2>2, <2>3 DEF JobOK, Staged, Ahead
  <2>. QED
    BY <1>1, <1>10, <2>1, <2>4, KeepOutside DEF next
<1>11. CASE s = Sources /\ Keep(r, LoopsStarted(j))
  <2>. DEFINE next == LoopsStarted(j)
              loop == [l \in 1..Loops |-> IF l <= Len(longer) THEN l ELSE 0]
              cursor == Smallest({Len(longer), Loops}) + 1
  <2>1. /\ next = [j EXCEPT !.stage = "articles", !.loop = loop, !.cursor = cursor]
    BY <1>3 DEF LoopsStarted, Job
  <2>2. cursor \in 1..(Len(longer) + 1)
    BY <1>5, CursorStart
  <2>3. loop \in [1..Loops -> 0..Len(longer)] /\ loop \in [1..Loops -> Nat]
    BY <1>4, <1>5
  <2>. HIDE DEF loop, cursor, next
  <2>4. /\ next.stage = "articles" /\ next.queue = longer /\ next.feed = s
        /\ next.cursor = cursor /\ next.loop = loop /\ next.results = old.results
        /\ next.seen = {} /\ next.deleted = {} /\ next.inserted = {}
    BY <1>3, <1>4, <2>1 DEF Job
  <2>5. next \in Job
    <3>1. cursor \in Nat /\ "articles" \in Stages
      BY <1>5, <2>2 DEF Stages
    <3>. QED
      BY <1>9, <2>1, <2>3, <3>1 DEF Job
  <2>6. Collection(next)
    BY <1>5, <1>7, <2>2, <2>3, <2>4 DEF Collection
  <2>7. JobOK(next, r)
    BY <2>4, <2>5, <2>6 DEF JobOK, Staged, Ahead
  <2>. QED
    BY <1>1, <1>11, <2>4, <2>7, KeepOutside DEF next
<1>12. CASE End(r, "success")
  BY <1>1, <1>12, EndKeeps DEF Settled
<1>. QED
  BY <1>2, <1>10, <1>11, <1>12 DEF longer

(* A loop ends, or takes the article at the cursor.                        *)
LEMMA NextArticleOK ==
  ASSUME NEW j, NEW r, JobOK(j, r), j.stage = "articles", NEW l \in 1..Loops, NEW stop
  PROVE  LET next == NextArticle(j, l, stop)
         IN /\ next \in Job /\ Collection(next)
            /\ next.stage = j.stage /\ next.queue = j.queue /\ next.results = j.results
            /\ next.feed = j.feed
            /\ next.seen = {} /\ next.deleted = {} /\ next.inserted = {}
<1>. DEFINE n == Len(j.queue)
            next == NextArticle(j, l, stop)
<1>1. j \in Job /\ Collection(j) /\ Staged(j)
  BY DEF JobOK
<1>2. /\ n \in Nat /\ j.cursor \in 1..(n + 1)
      /\ j.loop \in [1..Loops -> 0..n] /\ j.loop \in [1..Loops -> Nat]
      /\ j.seen = {} /\ j.deleted = {} /\ j.inserted = {}
  BY <1>1, LenProperties DEF Job, Collection, Staged
<1>3. CASE stop \/ j.cursor > n
  <2>. DEFINE loop == [j.loop EXCEPT ![l] = 0]
  <2>1. next = [j EXCEPT !.loop = loop]
    BY <1>1, <1>3 DEF NextArticle, Job
  <2>2. /\ loop \in [1..Loops -> 0..n] /\ loop \in [1..Loops -> Nat]
        /\ loop[l] = 0 /\ \A m \in 1..Loops : m # l => loop[m] = j.loop[m]
    <3>1. 0 \in 0..n
      BY <1>2
    <3>2. loop \in [1..Loops -> 0..n]
      BY <1>2, <3>1
    <3>3. loop \in [1..Loops -> Nat]
      BY <1>2
    <3>. QED
      BY <1>2, <3>2, <3>3
  <2>. HIDE DEF loop, next
  <2>3. next \in Job /\ next.loop = loop /\ next.cursor = j.cursor
        /\ next.stage = j.stage /\ next.queue = j.queue /\ next.results = j.results
        /\ next.feed = j.feed
        /\ next.seen = j.seen /\ next.deleted = j.deleted /\ next.inserted = j.inserted
    BY <1>1, <2>1, <2>2 DEF Job
  <2>4. Collection(next)
    BY <1>1, <2>2, <2>3 DEF Collection
  <2>. QED
    BY <1>2, <2>2, <2>3, <2>4 DEF next
<1>4. CASE ~(stop \/ j.cursor > n)
  <2>. DEFINE loop == [j.loop EXCEPT ![l] = j.cursor]
  <2>1. next = [j EXCEPT !.loop = loop, !.cursor = j.cursor + 1]
    BY <1>1, <1>4 DEF NextArticle, Job
  <2>2. j.cursor \in 0..n /\ j.cursor + 1 \in 1..(n + 1) /\ j.cursor + 1 \in Nat
    BY <1>2, <1>4
  <2>3. loop \in [1..Loops -> 0..n] /\ loop \in [1..Loops -> Nat]
    BY <1>2, <2>2
  <2>. HIDE DEF loop, next
  <2>4. next \in Job /\ next.loop = loop /\ next.cursor = j.cursor + 1
        /\ next.stage = j.stage /\ next.queue = j.queue /\ next.results = j.results
        /\ next.feed = j.feed
        /\ next.seen = j.seen /\ next.deleted = j.deleted /\ next.inserted = j.inserted
    BY <1>1, <2>1, <2>2, <2>3 DEF Job
  <2>5. Collection(next)
    BY <1>1, <2>2, <2>3, <2>4 DEF Collection
  <2>. QED
    BY <1>2, <1>4, <2>4, <2>5 DEF next
<1>. QED
  BY <1>3, <1>4

(* An article arrives or its fetch fails.                                  *)
LEMMA ArrivalOK ==
  ASSUME NEW j, NEW r, JobOK(j, r), j.stage = "articles", NEW l \in 1..Loops, j.loop[l] # 0,
         NEW results \in {j.results, Append(j.results, j.loop[l])}
  PROVE  LET next == [j EXCEPT !.results = results]
         IN JobOK(next, r) /\ next.stage = "articles" /\ next.loop = j.loop
<1>. DEFINE n == Len(j.queue)
            next == [j EXCEPT !.results = results]
<1>1. j \in Job /\ Collection(j) /\ Staged(j)
  BY DEF JobOK
<1>2. n \in Nat /\ j.loop[l] \in 1..n /\ j.results \in Seq(1..n)
  <2>1. j.queue \in Seq(Slot)
    BY <1>1 DEF Job
  <2>2. n \in Nat
    BY <2>1, LenProperties
  <2>3. j.loop[l] \in 0..n
    BY <1>1 DEF Collection
  <2>. QED
    BY <1>1, <2>2, <2>3 DEF Collection
<1>3. results \in Seq(1..n)
  <2>1. Append(j.results, j.loop[l]) \in Seq(1..n)
    BY <1>2, AppendProperties
  <2>. QED
    BY <1>2, <2>1
<1>4. results \in Seq(Nat)
  <2>1. 1..n \subseteq Nat
    BY <1>2
  <2>. QED
    BY <1>3, <2>1, SeqMonotonic
<1>5. /\ next \in Job /\ next.results = results
      /\ next.stage = j.stage /\ next.feed = j.feed /\ next.queue = j.queue
      /\ next.cursor = j.cursor /\ next.loop = j.loop
      /\ next.seen = j.seen /\ next.deleted = j.deleted /\ next.inserted = j.inserted
  BY <1>1, <1>4 DEF Job
<1>. HIDE DEF next
<1>6. Collection(next)
  BY <1>1, <1>3, <1>5 DEF Collection
<1>7. Staged(next) /\ Ahead(next, r)
  BY <1>1, <1>5 DEF Staged, Ahead
<1>. QED
  BY <1>5, <1>6, <1>7 DEF JobOK, next

LEMMA ArticleEndsKeeps ==
  ASSUME NewsInv, NEW r \in RunIds, NEW l \in 1..Loops, ArticleEnds(r, l)
  PROVE  JobsInv' /\ HandlersMatch' /\ Snapshots' /\ Deletions' /\ ExactSoFar'
<1>1. JobOK(job[r], r) /\ job[r].loop[l] # 0 /\ rows' = rows
  BY DEF NewsInv, JobsInv, ArticleEnds
<1>2. job[r].stage = "articles"
  BY <1>1 DEF JobOK, Staged, NoLoop
<1>3. PICK results \in {job[r].results, Append(job[r].results, job[r].loop[l])} :
        LET j == NextArticle([job[r] EXCEPT !.results = results], l, Aborted(r))
        IN \/ j.loop # NoLoop /\ Keep(r, j)
           \/ j.loop = NoLoop /\ Collected(r, j)
  BY DEF ArticleEnds
<1>. DEFINE old == [job[r] EXCEPT !.results = results]
            j == NextArticle(old, l, Aborted(r))
<1>4. JobOK(old, r) /\ old.stage = "articles"
  BY <1>1, <1>2, ArrivalOK
<1>. HIDE DEF old
<1>5. /\ j \in Job /\ Collection(j)
      /\ j.stage = "articles"
      /\ j.seen = {} /\ j.deleted = {} /\ j.inserted = {}
  BY <1>4, NextArticleOK
<1>. HIDE DEF j
<1>6. CASE Keep(r, j)
  <2>1. JobOK(j, r)
    BY <1>5 DEF JobOK, Staged, Ahead
  <2>. QED
    BY <1>1, <1>2, <1>5, <1>6, <2>1, KeepOutside
<1>7. CASE j.results # <<>> /\ j.loop = NoLoop /\ Keep(r, [j EXCEPT !.stage = "connect"])
  <2>. DEFINE next == [j EXCEPT !.stage = "connect"]
  <2>1. next \in Job /\ next.stage = "connect" /\ next.loop = NoLoop
        /\ next.queue = j.queue /\ next.results = j.results /\ next.cursor = j.cursor
        /\ next.feed = j.feed
        /\ next.seen = {} /\ next.deleted = {} /\ next.inserted = {}
    BY <1>5, <1>7 DEF Job, Stages
  <2>. HIDE DEF next
  <2>2. Collection(next)
    BY <1>5, <1>7, <2>1 DEF Collection
  <2>3. JobOK(next, r)
    BY <1>7, <2>1, <2>2 DEF JobOK, Staged, Ahead
  <2>. QED
    BY <1>1, <1>2, <1>7, <2>1, <2>3, KeepOutside DEF next
<1>8. CASE End(r, "success")
  BY <1>1, <1>8, EndKeeps DEF Settled
<1>. QED
  BY <1>3, <1>6, <1>7, <1>8 DEF Collected, j, old

-----------------------------------------------------------------------------
(* replaceAll.                                                             *)

LEMMA DeleteBeginsKeeps ==
  ASSUME NewsInv, NEW r \in RunIds, DeleteBegins(r)
  PROVE  JobsInv' /\ HandlersMatch' /\ Snapshots' /\ Deletions' /\ ExactSoFar'
<1>. DEFINE old == job[r]
            j == [old EXCEPT !.stage = "deleting", !.seen = rows]
<1>1. /\ old.stage = "connect" /\ Keep(r, j) /\ rows' = rows
      /\ job' = [job EXCEPT ![r] = j] /\ aborted' = aborted
  BY DEF DeleteBegins, Keep, vars
<1>2. JobOK(old, r) /\ old \in Job /\ rows \subseteq Row
  BY DEF NewsInv, JobsInv, JobOK
<1>3. /\ j \in Job
      /\ j.stage = "deleting" /\ j.seen = rows /\ j.deleted = old.deleted
      /\ j.inserted = old.inserted /\ j.loop = old.loop /\ j.results = old.results
      /\ j.queue = old.queue /\ j.cursor = old.cursor
  BY <1>2 DEF Job, Stages
<1>. HIDE DEF j
<1>4. JobOK(j, r)
  BY <1>1, <1>2, <1>3 DEF JobOK, Collection, Staged, Ahead
<1>5. HandlersMatch'
  BY <1>1, <1>3, HandlerGoesOn DEF NewsInv
<1>6. /\ JobsInv'
      /\ job'[r] = j
      /\ \A q \in RunIds : q # r => job'[q] = job[q]
  BY <1>1, <1>2, <1>4, JobChange DEF NewsInv
<1>7. Snapshots'
  BY <1>1, <1>3, <1>6 DEF NewsInv, Snapshots, InTables, RowsOf
<1>8. Deletions'
  BY <1>1, <1>3, <1>6 DEF NewsInv, Deletions
<1>9. ExactSoFar'
  BY <1>1, <1>3, <1>6 DEF NewsInv, ExactSoFar, InTables
<1>. QED
  BY <1>5, <1>6, <1>7, <1>8, <1>9

LEMMA DeleteEndsKeeps ==
  ASSUME NewsInv, NEW r \in RunIds, DeleteEnds(r)
  PROVE  JobsInv' /\ HandlersMatch' /\ Snapshots' /\ Deletions' /\ ExactSoFar'
<1>. DEFINE old == job[r]
            j == [old EXCEPT !.stage = "inserting", !.deleted = @ \union (old.seen \intersect rows)]
<1>1. /\ old.stage = "deleting" /\ Keep(r, j) /\ rows' = rows
      /\ job' = [job EXCEPT ![r] = j] /\ aborted' = aborted
  BY DEF DeleteEnds, Keep, vars
<1>2. JobOK(old, r) /\ old \in Job /\ rows \subseteq Row
  BY DEF NewsInv, JobsInv, JobOK
<1>3. /\ j \in Job
      /\ j.stage = "inserting" /\ j.seen = old.seen
      /\ j.deleted = old.deleted \union (old.seen \intersect rows)
      /\ j.inserted = old.inserted /\ j.loop = old.loop /\ j.results = old.results
      /\ j.queue = old.queue /\ j.cursor = old.cursor
  BY <1>2 DEF Job, Stages
<1>4. old.deleted = {} /\ old.inserted = {}
  BY <1>1, <1>2 DEF JobOK, Staged
<1>. HIDE DEF j
<1>5. JobOK(j, r)
  BY <1>1, <1>2, <1>3, <1>4 DEF JobOK, Collection, Staged, Ahead
<1>6. HandlersMatch'
  BY <1>1, <1>3, HandlerGoesOn DEF NewsInv
<1>7. /\ JobsInv'
      /\ job'[r] = j
      /\ \A q \in RunIds : q # r => job'[q] = job[q]
  BY <1>1, <1>2, <1>5, JobChange DEF NewsInv
<1>8. Snapshots'
  BY <1>1, <1>3, <1>7 DEF NewsInv, Snapshots, InTables, RowsOf
<1>9. \A q \in RunIds : q # r => old.seen \intersect job[q].deleted = {}
  BY <1>1 DEF DeleteEnds, Waiting, WaitsFor
<1>10. Deletions'
  BY <1>1, <1>3, <1>4, <1>7, <1>9 DEF NewsInv, Deletions
<1>11. ExactSoFar'
  BY <1>1, <1>3, <1>7 DEF NewsInv, ExactSoFar, InTables
<1>. QED
  BY <1>6, <1>7, <1>8, <1>10, <1>11

(* The row an INSERT writes next.                                          *)
LEMMA NextRowFacts ==
  ASSUME JobsInv, NEW r \in RunIds, Pending(r) # {}
  PROVE  LET next == Smallest(Pending(r))
         IN /\ Pending(r) = PendingIn(job[r], r)
            /\ next \in Pending(r) /\ \A k \in Pending(r) : next <= k
            /\ Pending(r) \subseteq 1..Len(job[r].queue) /\ Len(job[r].queue) \in Nat
            /\ NextRow(r) = [slot |-> job[r].queue[next], run |-> r]
            /\ NextRow(r) \in Row /\ NextRow(r).slot \in Slot
<1>. DEFINE j == job[r]
            next == Smallest(Pending(r))
<1>1. j \in Job /\ Collection(j)
  BY DEF JobsInv, JobOK
<1>2. j.queue \in Seq(Slot) /\ Len(j.queue) \in Nat /\ j.results \in Seq(1..Len(j.queue))
  BY <1>1, LenProperties DEF Job, Collection
<1>3. Pending(r) \subseteq 1..Len(j.queue)
  BY <1>2, ElementOfSeq DEF Pending
<1>4. Pending(r) = PendingIn(j, r)
  BY DEF Pending, PendingIn
<1>5. next \in Pending(r) /\ \A k \in Pending(r) : next <= k
  <2>1. Pending(r) \in SUBSET Nat
    BY <1>2, <1>3
  <2>. QED
    BY <2>1, SmallestExists
<1>6. NextRow(r) = [slot |-> j.queue[next], run |-> r]
  BY DEF NextRow
<1>7. j.queue[next] \in Slot
  BY <1>2, <1>3, <1>5, ElementOfSeq
<1>8. NextRow(r) \in Row /\ NextRow(r).slot \in Slot
  BY <1>6, <1>7, RunIdsNat DEF Row
<1>. QED
  BY <1>2, <1>3, <1>4, <1>5, <1>6, <1>8

LEMMA InsertRowKeeps ==
  ASSUME NewsInv, NEW r \in RunIds, InsertRow(r)
  PROVE  JobsInv' /\ HandlersMatch' /\ Snapshots' /\ Deletions' /\ ExactSoFar'
<1>. DEFINE old == job[r]
            j == [old EXCEPT !.inserted = @ \union {NextRow(r)}]
            next == Smallest(Pending(r))
<1>1. /\ old.stage = "inserting" /\ Pending(r) # {} /\ Keep(r, j) /\ rows' = rows
      /\ job' = [job EXCEPT ![r] = j] /\ aborted' = aborted
  BY DEF InsertRow, Keep, vars
<1>2. JobOK(old, r) /\ old \in Job /\ rows \subseteq Row
  BY DEF NewsInv, JobsInv, JobOK
<1>3. /\ Pending(r) = PendingIn(old, r)
      /\ next \in Pending(r) /\ \A k \in Pending(r) : next <= k
      /\ Pending(r) \subseteq 1..Len(old.queue) /\ Len(old.queue) \in Nat
      /\ NextRow(r) = [slot |-> old.queue[next], run |-> r]
      /\ NextRow(r) \in Row
  BY <1>1, NextRowFacts DEF NewsInv
<1>4. /\ j \in Job
      /\ j.stage = "inserting" /\ j.seen = old.seen /\ j.deleted = old.deleted
      /\ j.inserted = old.inserted \union {NextRow(r)}
      /\ j.loop = old.loop /\ j.results = old.results
      /\ j.queue = old.queue /\ j.cursor = old.cursor
  BY <1>1, <1>2, <1>3 DEF Job
<1>. HIDE DEF j
<1>5. Collection(j) /\ Staged(j)
  BY <1>1, <1>2, <1>4 DEF JobOK, Collection, Staged
<1>6. Ahead(j, r)
  <2>1. \A k \in PendingIn(j, r) : k \in Pending(r) /\ k # next
    BY <1>3, <1>4 DEF PendingIn
  <2>2. \A k \in PendingIn(j, r) : next < k
    BY <1>3, <2>1
  <2>3. next \in 1..Len(j.queue) /\ NextRow(r) = [slot |-> j.queue[next], run |-> r]
    BY <1>3, <1>4
  <2>4. ASSUME NEW x \in old.inserted
        PROVE  \E i \in 1..Len(j.queue) :
                 x = [slot |-> j.queue[i], run |-> r] /\ \A k \in PendingIn(j, r) : i < k
    BY <1>2, <1>3, <1>4, <2>1 DEF JobOK, Ahead
  <2>. QED
    BY <1>4, <2>2, <2>3, <2>4 DEF Ahead
<1>7. HandlersMatch'
  BY <1>1, <1>4, HandlerGoesOn DEF NewsInv
<1>8. /\ JobsInv'
      /\ job'[r] = j
      /\ \A q \in RunIds : q # r => job'[q] = job[q]
  BY <1>1, <1>2, <1>4, <1>5, <1>6, JobChange DEF NewsInv, JobOK
<1>9. \A q \in RunIds : /\ job'[q].stage = job[q].stage /\ job'[q].seen = job[q].seen
                        /\ job'[q].deleted = job[q].deleted
  BY <1>1, <1>4, <1>8
<1>10. Snapshots' /\ Deletions' /\ ExactSoFar'
  BY <1>1, <1>9 DEF NewsInv, Snapshots, InTables, RowsOf, Deletions, ExactSoFar
<1>. QED
  BY <1>7, <1>8, <1>10

(* COMMIT puts the run's rows in the place of those it deleted.            *)
LEMMA CommitKeeps ==
  ASSUME NewsInv, NEW r \in RunIds, Commit(r)
  PROVE  JobsInv' /\ HandlersMatch' /\ Snapshots' /\ Deletions' /\ ExactSoFar'
<1>. DEFINE old == job[r]
<1>1. old.stage = "inserting" /\ rows' = (rows \ old.deleted) \union old.inserted
  BY DEF Commit
<1>2. PICK status \in Settled : End(r, status)
  BY DEF Commit
<1>3. job' = [job EXCEPT ![r] = Resting("ended")] /\ aborted' = aborted
  BY <1>2, EndSchedules DEF End
<1>4. old \in Job /\ rows \subseteq Row /\ Ahead(old, r) /\ old.deleted \subseteq old.seen
  BY DEF NewsInv, JobsInv, JobOK, Staged
<1>5. \A x \in old.inserted : x.run = r
  BY <1>4 DEF Ahead
<1>6. /\ JobsInv'
      /\ job'[r] = Resting("ended")
      /\ \A q \in RunIds : q # r => job'[q] = job[q]
  <2>1. rows' \subseteq Row
    BY <1>1, <1>4 DEF Job
  <2>. QED
    BY <1>3, <2>1, RestingOK, JobChange DEF NewsInv
<1>7. /\ job'[r].stage = "ended" /\ job'[r].seen = {} /\ job'[r].deleted = {}
  BY <1>6 DEF Resting
<1>8. HandlersMatch'
  BY <1>2, HandlerEnds DEF NewsInv
<1>9. \A x \in rows' : x.run = r \/ x \in rows
  BY <1>1, <1>5
<1>10. (\A x \in rows : x.run # r) /\ \A q \in RunIds : \A x \in job[q].seen : x.run # r
  BY <1>1 DEF NewsInv, Snapshots
<1>11. Snapshots'
  <2>1. \A p \in RunIds : job'[p].stage # "ended" =>
          /\ \A x \in rows' : x.run # p
          /\ \A q \in RunIds : \A x \in job'[q].seen : x.run # p
    BY <1>6, <1>7, <1>9 DEF NewsInv, Snapshots
  <2>2. ASSUME NEW q \in RunIds, NEW c \in RunIds
        PROVE  \/ RowsOf(c)' \subseteq job'[q].seen
               \/ RowsOf(c)' \intersect job'[q].seen = {}
    <3>1. CASE q = r
      BY <1>7, <3>1
    <3>2. CASE q # r /\ c = r
      BY <1>6, <1>10, <3>2 DEF RowsOf
    <3>3. CASE q # r /\ c # r
      <4>1. RowsOf(c)' \subseteq RowsOf(c)
        BY <1>9, <3>3 DEF RowsOf
      <4>. QED
        BY <1>6, <3>3, <4>1 DEF NewsInv, Snapshots
    <3>. QED
      BY <3>1, <3>2, <3>3
  <2>3. \A q \in RunIds : InTables(q)' => \A x \in rows' : x.run = 0 => x \in job'[q].seen
    BY <1>6, <1>7, <1>9, RunIdsNat DEF NewsInv, Snapshots, InTables
  <2>. QED
    BY <2>1, <2>2, <2>3 DEF Snapshots
<1>12. Deletions'
  <2>1. ASSUME NEW q \in RunIds, job'[q].stage = "inserting"
        PROVE  job'[q].seen \intersect rows' \subseteq job'[q].deleted
    <3>1. q # r /\ job'[q] = job[q]
      BY <1>6, <1>7, <2>1
    <3>2. job[q].seen \intersect rows' \subseteq rows
      BY <1>9, <1>10
    <3>. QED
      BY <2>1, <3>1, <3>2 DEF NewsInv, Deletions
  <2>. QED
    BY <1>6, <1>7, <2>1 DEF NewsInv, Deletions
<1>13. ExactSoFar'
  <2>. SUFFICES ASSUME aborted = {}
                PROVE  /\ \A x, y \in rows' : x.run = y.run
                       /\ \A q \in RunIds : InTables(q)' => job'[q].seen = rows'
    BY <1>3 DEF ExactSoFar
  <2>1. rows \subseteq old.deleted
    BY <1>1 DEF NewsInv, ExactSoFar, InTables, Deletions
  <2>2. \A x \in rows' : x.run = r
    BY <1>1, <1>5, <2>1
  <2>3. ASSUME NEW q \in RunIds, InTables(q)' PROVE FALSE
    <3>1. q # r /\ InTables(q)
      BY <1>6, <1>7, <2>3 DEF InTables
    <3>2. <<News, q>> \in handlers /\ <<News, r>> \in handlers
      BY <1>1, <3>1 DEF NewsInv, HandlersMatch, InTables
    <3>3. q = running[News] /\ r = running[News]
      BY <3>2, NewsAssumption DEF NewsInv, IInv, HandlerInv, RunIds
    <3>. QED
      BY <3>1, <3>3
  <2>. QED
    BY <2>2, <2>3
<1>. QED
  BY <1>6, <1>8, <1>11, <1>12, <1>13

-----------------------------------------------------------------------------
LEMMA InitNewsInv == NewsInit => NewsInv
<1>. SUFFICES ASSUME NewsInit PROVE NewsInv
  OBVIOUS
<1>1. IInv
  BY InitIInv DEF NewsInit
<1>2. PICK S \in Earlier : rows = {[slot |-> s, run |-> 0] : s \in S}
  BY DEF NewsInit
<1>3. job = [r \in RunIds |-> Resting("none")]
  BY DEF NewsInit
<1>4. \A r \in RunIds : job[r] = Resting("none") /\ job[r] \in Job
  BY <1>3, RestingOK DEF JobOK
<1>5. \A r \in RunIds : job[r].stage = "none" /\ job[r].seen = {} /\ job[r].deleted = {}
  BY <1>4 DEF Resting
<1>6. rows \subseteq Row /\ \A x \in rows : x.run = 0
  BY <1>2, NewsAssumption, SchedulerAssumption DEF Row, Slot
<1>7. JobsInv
  BY <1>3, <1>4, <1>6, RestingOK DEF JobsInv
<1>8. HandlersMatch
  BY <1>5, NewsAssumption DEF NewsInit, Init, HandlersMatch
<1>9. Snapshots /\ Deletions /\ ExactSoFar
  BY <1>5, <1>6, RunIdsNat DEF Snapshots, InTables, Deletions, ExactSoFar
<1>. QED
  BY <1>1, <1>7, <1>8, <1>9 DEF NewsInv

LEMMA StepNewsInv == NewsInv /\ [NewsNext]_newsVars => NewsInv'
<1>. SUFFICES ASSUME NewsInv, [NewsNext]_newsVars PROVE NewsInv'
  OBVIOUS
<1>1. CASE StartNews
  BY <1>1, StartNewsKeeps
<1>2. CASE TickNews
  BY <1>2, TickNewsKeeps
<1>3. CASE TimeOutNews \/ OtherSchedulerStep
  BY <1>3, OtherStepKeeps
<1>4. ASSUME NEW r \in RunIds, NewsStep(r) PROVE NewsInv'
  <2>1. IInv'
    BY <1>4, StepSchedules, StepIInv DEF NewsInv, NewsNext
  <2>2. Fail(r) => JobsInv' /\ HandlersMatch' /\ Snapshots' /\ Deletions' /\ ExactSoFar'
    BY EndKeeps DEF Fail, Settled
  <2>3. JobsInv' /\ HandlersMatch' /\ Snapshots' /\ Deletions' /\ ExactSoFar'
    BY <1>4, <2>2, FeedEndsKeeps, ArticleEndsKeeps, DeleteBeginsKeeps, DeleteEndsKeeps,
       InsertRowKeeps, CommitKeeps DEF NewsStep
  <2>. QED
    BY <2>1, <2>3 DEF NewsInv
<1>5. CASE UNCHANGED newsVars
  <2>1. IInv'
    BY <1>5, StepIInv DEF newsVars, NewsInv
  <2>2. UNCHANGED <<handlers, fired, ticking, aborted, job, rows>>
    BY <1>5 DEF newsVars, vars
  <2>3. JobsInv' /\ Snapshots' /\ Deletions' /\ ExactSoFar' /\ HandlersMatch'
    BY <2>2 DEF NewsInv, JobsInv, Snapshots, InTables, RowsOf, Deletions, ExactSoFar,
                HandlersMatch
  <2>. QED
    BY <2>1, <2>3 DEF NewsInv
<1>. QED
  BY <1>1, <1>2, <1>3, <1>4, <1>5 DEF NewsNext

LEMMA SpecNewsInv == NewsSpec => []NewsInv
BY InitNewsInv, StepNewsInv, PTL DEF NewsSpec

-----------------------------------------------------------------------------
(* fetch-news is a worker of the scheduler like any other: what is proved  *)
(* of the scheduler holds while the cache is refreshed.                    *)
THEOREM NewsIsScheduled == NewsSpec => Spec
<1>1. NewsInit => Init
  BY DEF NewsInit
<1>2. [NewsNext]_newsVars => [Next]_vars
  BY StepSchedules DEF newsVars
<1>. QED
  BY <1>1, <1>2, PTL DEF NewsSpec, Spec

(* The cursor and the loops stay within the queue, the queue and the rows  *)
(* within the sources and their ARTICLES_PER_SOURCE, and a transaction     *)
(* deletes only what its snapshot holds.                                   *)
THEOREM NewsCacheTypeOK == NewsSpec => []NewsTypeOK
<1>1. NewsInv => NewsTypeOK
  <2>. SUFFICES ASSUME NewsInv PROVE NewsTypeOK
    OBVIOUS
  <2>1. TypeOK /\ rows \subseteq Row
    BY DEF NewsInv, IInv, JobsInv
  <2>2. ASSUME NEW r \in RunIds
        PROVE  job[r] \in Job /\ Collection(job[r]) /\ Staged(job[r])
    BY DEF NewsInv, JobsInv, JobOK
  <2>. QED
    BY <2>1, <2>2 DEF NewsTypeOK, Job, Stages, Collection, Staged
<1>. QED
  BY <1>1, SpecNewsInv, PTL

(* replaceAll keeps the cache to the articles of one refresh until a       *)
(* timeout lets two handlers overlap.                                      *)
THEOREM OneRefreshUntilTimeout == NewsSpec => []MixedOnlyAfterTimeout
<1>1. NewsInv => MixedOnlyAfterTimeout
  BY DEF NewsInv, ExactSoFar, MixedOnlyAfterTimeout
<1>. QED
  BY <1>1, SpecNewsInv, PTL

-----------------------------------------------------------------------------
(* Only COMMIT changes the table.                                          *)
LEMMA RowsChange ==
  ASSUME NewsNext, rows' # rows
  PROVE  \E r \in RunIds : Commit(r)
BY DEF NewsNext, StartNews, TickNews, TimeOutNews, OtherSchedulerStep, NewsStep, FeedEnds,
       ArticleEnds, DeleteBegins, DeleteEnds, InsertRow, Fail

(* A run that commits has collected something and inserted all of it.      *)
LEMMA CommitFacts ==
  ASSUME NewsInv, NEW r \in RunIds, Commit(r)
  PROVE  /\ rows' = (rows \ job[r].deleted) \union job[r].inserted
         /\ job[r].inserted # {}
         /\ \A x \in job[r].inserted : x.run = r
         /\ \A x \in rows : x.run # r
         /\ job[r].seen \intersect rows \subseteq job[r].deleted
         /\ job[r].deleted \subseteq job[r].seen
<1>. DEFINE j == job[r]
<1>1. /\ j.stage = "inserting" /\ Pending(r) = {}
      /\ rows' = (rows \ j.deleted) \union j.inserted
  BY DEF Commit
<1>2. j \in Job /\ Collection(j) /\ Staged(j) /\ Ahead(j, r)
  BY DEF NewsInv, JobsInv, JobOK
<1>3. j.inserted # {}
  <2>1. j.results # <<>> /\ j.results \in Seq(1..Len(j.queue))
    BY <1>1, <1>2 DEF Staged, Collection
  <2>2. 1 \in 1..Len(j.results)
    BY <2>1, EmptySeq, LenProperties
  <2>3. [slot |-> j.queue[j.results[1]], run |-> r] \in j.inserted
    BY <1>1, <2>2 DEF Pending
  <2>. QED
    BY <2>3
<1>4. \A x \in j.inserted : x.run = r
  BY <1>2 DEF Ahead
<1>5. \A x \in rows : x.run # r
  BY <1>1 DEF NewsInv, Snapshots
<1>. QED
  BY <1>1, <1>2, <1>3, <1>4, <1>5 DEF NewsInv, Deletions, Staged

(* get-news finds articles ever after the first refresh: no failure, abort *)
(* or overlap of refreshes, and no empty collection, blanks the table.     *)
THEOREM CacheNeverBlanked == NewsSpec => NeverBlanked
<1>1. ASSUME NewsInv, [NewsNext]_newsVars PROVE [rows # {} => rows' # {}]_newsVars
  <2>1. CASE UNCHANGED newsVars
    BY <2>1
  <2>2. CASE NewsNext
    <3>1. CASE rows' = rows
      BY <3>1
    <3>2. CASE rows' # rows
      BY <1>1, <2>2, <3>2, RowsChange, CommitFacts
    <3>. QED
      BY <3>1, <3>2
  <2>. QED
    BY <1>1, <2>1, <2>2
<1>. QED
  BY <1>1, SpecNewsInv, PTL DEF NewsSpec, NeverBlanked

(* A reader of news_articles sees a refresh whole or not at all: COMMIT    *)
(* shows every article of the run, and another run's COMMIT takes away all *)
(* of a refresh or none of it.                                             *)
THEOREM RefreshesAreWhole == NewsSpec => WholeRefreshes
<1>. DEFINE Whole(r) ==
       \/ RowsOf(r)' \in {RowsOf(r), {}}
       \/ RowsOf(r) = {} /\ Pending(r) = {} /\ RowsOf(r)' = job[r].inserted
<1>1. ASSUME NewsInv, [NewsNext]_newsVars, NEW r \in RunIds PROVE Whole(r)
  <2>1. CASE rows' = rows
    BY <2>1 DEF RowsOf
  <2>2. CASE rows' # rows
    <3>1. PICK q \in RunIds : Commit(q)
      BY <1>1, <2>2, RowsChange DEF newsVars
    <3>2. /\ rows' = (rows \ job[q].deleted) \union job[q].inserted
          /\ \A x \in job[q].inserted : x.run = q
          /\ \A x \in rows : x.run # q
          /\ job[q].seen \intersect rows \subseteq job[q].deleted
          /\ job[q].deleted \subseteq job[q].seen
      BY <1>1, <3>1, CommitFacts
    <3>3. CASE r = q
      <4>1. RowsOf(r) = {} /\ RowsOf(r)' = job[r].inserted
        BY <3>2, <3>3 DEF RowsOf
      <4>. QED
        BY <3>1, <3>3, <4>1 DEF Commit
    <3>4. CASE r # q
      <4>1. RowsOf(r)' = RowsOf(r) \ job[q].deleted
        BY <3>2, <3>4 DEF RowsOf
      <4>2. CASE RowsOf(r) \subseteq job[q].seen
        <5>1. RowsOf(r) \subseteq job[q].deleted
          BY <3>2, <4>2 DEF RowsOf
        <5>. QED
          BY <4>1, <5>1
      <4>3. CASE RowsOf(r) \intersect job[q].seen = {}
        <5>1. RowsOf(r)' = RowsOf(r)
          BY <3>2, <4>1, <4>3
        <5>. QED
          BY <5>1
      <4>. QED
        BY <1>1, <4>2, <4>3 DEF NewsInv, Snapshots
    <3>. QED
      BY <3>3, <3>4
  <2>. QED
    BY <2>1, <2>2
<1>2. NewsInv /\ [NewsNext]_newsVars => [\A r \in RunIds : Whole(r)]_newsVars
  BY <1>1
<1>. QED
  BY <1>2, SpecNewsInv, PTL DEF NewsSpec, WholeRefreshes

-----------------------------------------------------------------------------
(* A step of one run's handler changes what that run holds.                *)
LEMMA StepOfRun ==
  ASSUME NewsInv, NEW q \in RunIds, NewsStep(q), NEW r \in RunIds, r # q
  PROVE  job'[r] = job[r]
<1>1. \E j : job' = [job EXCEPT ![q] = j]
  <2>1. \A j : Keep(q, j) => job' = [job EXCEPT ![q] = j]
    BY DEF Keep
  <2>2. \A status : End(q, status) => job' = [job EXCEPT ![q] = Resting("ended")]
    BY DEF End
  <2>3. CASE FeedEnds(q)
    BY <2>1, <2>2, <2>3 DEF FeedEnds
  <2>4. ASSUME NEW l \in 1..Loops, ArticleEnds(q, l) PROVE \E j : job' = [job EXCEPT ![q] = j]
    BY <2>1, <2>2, <2>4 DEF ArticleEnds, Collected
  <2>5. CASE DeleteBegins(q) \/ DeleteEnds(q) \/ InsertRow(q)
    BY <2>1, <2>5 DEF DeleteBegins, DeleteEnds, InsertRow
  <2>6. CASE Commit(q) \/ Fail(q)
    BY <2>2, <2>6 DEF Commit, Fail
  <2>. QED
    BY <2>3, <2>4, <2>5, <2>6 DEF NewsStep
<1>. QED
  BY <1>1 DEF NewsInv, JobsInv

(* A run the scheduler starts was not started before.                      *)
LEMMA StartOfRun ==
  ASSUME NewsInv, StartNews \/ TickNews, NEW r \in RunIds, Collects(r)
  PROVE  job'[r] = job[r]
<1>1. r # fired[News] + 1
  <2>1. fired[News] \in Nat
    BY SchedulerAssumption, NewsAssumption DEF NewsInv, IInv, TypeOK
  <2>2. ~(fired[News] < r)
    BY DEF Collects, NewsInv, HandlersMatch
  <2>. QED
    BY <2>1, <2>2
<1>2. job' = job \/ job' = [job EXCEPT ![fired[News] + 1] = Resting("feeds")]
  <2>1. StartNews => fired[News] + 1 = 1
    BY DEF NewsInv, HandlersMatch, StartNews, Start
  <2>. QED
    BY <2>1 DEF StartNews, TickNews, Fetching
<1>. QED
  BY <1>1, <1>2 DEF NewsInv, JobsInv

(* What a run does while it collects and its signal is aborted.            *)
LEMMA AbortedStep ==
  ASSUME NewsInv, NEW r \in RunIds, Collects(r), Aborted(r), NewsStep(r)
  PROVE  /\ job'[r].stage \in {job[r].stage, "ended"}
         /\ \A l \in 1..Loops : job'[r].loop[l] \in {job[r].loop[l], 0}
<1>1. JobOK(job[r], r) /\ job \in [RunIds -> Job]
  BY DEF NewsInv, JobsInv
<1>2. ASSUME NEW status, End(r, status)
      PROVE  job'[r].stage = "ended" /\ \A l \in 1..Loops : job'[r].loop[l] = 0
  <2>1. job'[r] = Resting("ended")
    BY <1>1, <1>2 DEF End
  <2>. QED
    BY <2>1 DEF Resting, NoLoop
<1>3. CASE FeedEnds(r)
  BY <1>2, <1>3 DEF FeedEnds
<1>4. ASSUME NEW l \in 1..Loops, ArticleEnds(r, l)
      PROVE  /\ job'[r].stage \in {job[r].stage, "ended"}
             /\ \A m \in 1..Loops : job'[r].loop[m] \in {job[r].loop[m], 0}
  <2>1. job[r].stage = "articles" /\ job[r].loop[l] # 0
    BY <1>1, <1>4 DEF ArticleEnds, JobOK, Staged, NoLoop
  <2>2. PICK results \in {job[r].results, Append(job[r].results, job[r].loop[l])} :
          LET j == NextArticle([job[r] EXCEPT !.results = results], l, Aborted(r))
          IN \/ j.loop # NoLoop /\ Keep(r, j)
             \/ j.loop = NoLoop /\ Collected(r, j)
    BY <1>4 DEF ArticleEnds
  <2>. DEFINE old == [job[r] EXCEPT !.results = results]
              j == NextArticle(old, l, TRUE)
  <2>3. JobOK(old, r) /\ old.stage = "articles" /\ old.loop = job[r].loop
    <3>1. job[r] \in Job /\ JobOK(job[r], r)
      BY <1>1 DEF JobOK
    <3>2. JobOK(old, r) /\ old.stage = "articles"
      BY <2>1, <3>1, ArrivalOK
    <3>. QED
      BY <3>1, <3>2 DEF Job
  <2>. HIDE DEF old
  <2>4. /\ j.stage = "articles" /\ j.loop[l] = 0
        /\ \A m \in 1..Loops : m # l => j.loop[m] = job[r].loop[m]
    <3>1. j = [old EXCEPT !.loop = [@ EXCEPT ![l] = 0]]
      BY <2>3 DEF NextArticle, JobOK, Job
    <3>2. old \in Job /\ old.loop \in [1..Loops -> Nat]
      BY <2>3 DEF JobOK, Job
    <3>. HIDE DEF j
    <3>3. j.stage = old.stage /\ j.loop = [old.loop EXCEPT ![l] = 0]
      BY <3>1, <3>2 DEF Job
    <3>. QED
      BY <2>3, <3>2, <3>3
  <2>. HIDE DEF j
  <2>5. CASE Keep(r, j)
    <3>1. job'[r] = j
      BY <1>1, <2>5 DEF Keep
    <3>. QED
      BY <2>1, <2>4, <3>1
  <2>6. CASE Collected(r, j)
    BY <1>2, <2>6 DEF Collected
  <2>. QED
    <3>1. Aborted(r) = TRUE
      BY DEF Aborted
    <3>. QED
      BY <2>2, <2>5, <2>6, <3>1 DEF j, old
<1>. QED
  BY <1>2, <1>3, <1>4 DEF NewsStep, Collects, DeleteBegins, DeleteEnds, InsertRow, Commit, Fail

(* The signal of a timeout or of the shutdown, at whichever await of the   *)
(* collection it comes: no loop takes another article and the run ends     *)
(* without a connection.                                                   *)
THEOREM AbortEndsCollecting == NewsSpec => AbortStopsCollecting
<1>. DEFINE Stops(r) ==
       Collects(r) /\ Aborted(r) =>
         /\ job[r].stage' \in {job[r].stage, "ended"}
         /\ \A l \in 1..Loops : job[r].loop[l]' \in {job[r].loop[l], 0}
<1>1. ASSUME NewsInv, [NewsNext]_newsVars, NEW r \in RunIds, Collects(r), Aborted(r)
      PROVE  /\ job'[r].stage \in {job[r].stage, "ended"}
             /\ \A l \in 1..Loops : job'[r].loop[l] \in {job[r].loop[l], 0}
  <2>1. CASE job'[r] = job[r]
    BY <2>1
  <2>2. CASE job'[r] # job[r]
    <3>1. NewsNext /\ job' # job
      BY <1>1, <2>2 DEF newsVars
    <3>2. PICK q \in RunIds : NewsStep(q)
      BY <1>1, <2>2, <3>1, StartOfRun DEF NewsNext, TimeOutNews, OtherSchedulerStep
    <3>3. q = r
      BY <1>1, <2>2, <3>2, StepOfRun
    <3>. QED
      BY <1>1, <3>2, <3>3, AbortedStep
  <2>. QED
    BY <2>1, <2>2
<1>2. NewsInv /\ [NewsNext]_newsVars => [\A r \in RunIds : Stops(r)]_newsVars
  BY <1>1
<1>. QED
  BY <1>2, SpecNewsInv, PTL DEF NewsSpec, AbortStopsCollecting

-----------------------------------------------------------------------------
(* Not every one of finitely many sources and ranks has one behind it.     *)
LEMMA LastSlot ==
  ASSUME NEW I, I # {}, NEW slot, \A r \in I : slot[r] \in Slot
  PROVE  \E r \in I : \A q \in I : ~Precedes(slot[r], slot[q])
<1>1. \A r \in I : /\ slot[r][1] \in 1..Sources /\ slot[r][2] \in 1..PerSource
                   /\ Sources - slot[r][1] \in Nat /\ PerSource - slot[r][2] \in Nat
  BY NewsAssumption DEF Slot
<1>. DEFINE A == {Sources - slot[r][1] : r \in I}
            a == Smallest(A)
            J == {r \in I : Sources - slot[r][1] = a}
            B == {PerSource - slot[r][2] : r \in J}
            b == Smallest(B)
<1>2. A \in SUBSET Nat /\ A # {}
  BY <1>1
<1>3. a \in A /\ \A k \in A : a <= k
  <2>. HIDE DEF A
  <2>. QED
    BY <1>2, SmallestExists
<1>. HIDE DEF a
<1>4. B \in SUBSET Nat /\ B # {}
  BY <1>1, <1>3
<1>5. b \in B /\ \A k \in B : b <= k
  <2>. HIDE DEF B
  <2>. QED
    BY <1>4, SmallestExists
<1>. HIDE DEF b
<1>6. PICK r \in J : PerSource - slot[r][2] = b
  BY <1>5
<1>7. ASSUME NEW q \in I, Precedes(slot[r], slot[q]) PROVE FALSE
  <2>1. Sources - slot[r][1] <= Sources - slot[q][1]
    BY <1>3, <1>6, <1>7
  <2>2. slot[q][1] = slot[r][1] /\ slot[r][2] < slot[q][2]
    BY <1>1, <1>6, <1>7, <2>1, NewsAssumption DEF Precedes
  <2>3. PerSource - slot[r][2] <= PerSource - slot[q][2]
    BY <1>5, <1>6, <1>7, <2>2
  <2>. QED
    BY <1>1, <1>6, <1>7, <2>2, <2>3, NewsAssumption
<1>. QED
  BY <1>6, <1>7

(* A refresh whose INSERT waits for one that waits as well: unless a third *)
(* one has committed the article, the other is further down the queue.     *)
LEMMA WaitsForLater ==
  ASSUME NewsInv, NEW r \in RunIds, NEW q \in RunIds, q # r, job[r].stage = "inserting", Pending(r) # {},
         Clash(r, job[q].inserted \union (rows \intersect job[q].deleted)),
         job[q].stage = "inserting" => Pending(q) # {},
         \A x \in rows \ job[r].seen : x.slot = NextRow(r).slot =>
            x.run \notin RunIds \/ job[x.run].stage \in {"deleting", "inserting"}
  PROVE  job[q].stage = "inserting" /\ Precedes(NextRow(r).slot, NextRow(q).slot)
<1>1. PICK x \in job[q].inserted \union (rows \intersect job[q].deleted) : x.slot = NextRow(r).slot
  BY DEF Clash
<1>2. x \notin rows \intersect job[q].deleted
  <2>. SUFFICES ASSUME x \in rows, x \in job[q].deleted PROVE FALSE
    OBVIOUS
  <2>1. x \notin job[r].seen
    BY DEF NewsInv, Deletions
  <2>2. x.run # 0 /\ x.run \in RunIds
    BY <2>1 DEF NewsInv, Snapshots, InTables, JobsInv, Row, RunIds
  <2>3. job[x.run].stage = "ended"
    BY <2>2 DEF NewsInv, Snapshots
  <2>. QED
    BY <1>1, <2>1, <2>2, <2>3
<1>3. x \in job[q].inserted
  BY <1>1, <1>2
<1>4. job[q] \in Job /\ Collection(job[q]) /\ Staged(job[q]) /\ Ahead(job[q], q)
  BY DEF NewsInv, JobsInv, JobOK
<1>5. job[q].stage = "inserting"
  BY <1>3, <1>4 DEF Staged
<1>6. PICK i \in 1..Len(job[q].queue) :
        x.slot = job[q].queue[i] /\ \A k \in PendingIn(job[q], q) : i < k
  BY <1>3, <1>4 DEF Ahead
<1>. DEFINE k == Smallest(Pending(q))
<1>7. /\ k \in PendingIn(job[q], q) /\ k \in 1..Len(job[q].queue)
      /\ NextRow(q).slot = job[q].queue[k]
  BY <1>5, NextRowFacts DEF NewsInv
<1>. HIDE DEF k
<1>8. Precedes(job[q].queue[i], job[q].queue[k])
  BY <1>4, <1>6, <1>7 DEF Collection
<1>. QED
  BY <1>1, <1>5, <1>6, <1>7, <1>8

(* Refreshes wait for each other in a circle only around an article that   *)
(* one more refresh committed since one of them took its snapshot: they    *)
(* all insert in the order of the sources and ranks.                       *)
THEOREM NoCircleOfTwo == NewsSpec => []NoWaitCycle
<1>1. ASSUME NewsInv PROVE NoWaitCycle
  <2>. SUFFICES ASSUME NEW S \in (SUBSET RunIds) \ {{}},
                       \A r \in S : \E q \in S : WaitsFor(r, q),
                       \A r \in S : \A x \in rows \ job[r].seen :
                         ~(x.run \in RunIds \ S /\ x.slot = NextRow(r).slot)
                PROVE  FALSE
    BY DEF NoWaitCycle
  <2>. DEFINE I == {r \in S : job[r].stage = "inserting"}
  <2>1. \A r \in S : r \in RunIds /\ job[r].stage \in {"deleting", "inserting"}
    BY DEF WaitsFor
  <2>2. \A r \in I : Pending(r) # {}
    BY DEF WaitsFor
  <2>3. I # {}
    <3>1. PICK r \in S : TRUE
      OBVIOUS
    <3>2. PICK q \in S : WaitsFor(r, q)
      BY <3>1
    <3>3. job[r].stage = "deleting" => job[q].deleted # {}
      BY <3>2 DEF WaitsFor
    <3>4. job[q].deleted # {} => job[q].stage = "inserting"
      BY <1>1, <2>1, <3>2 DEF NewsInv, JobsInv, JobOK, Staged
    <3>. QED
      BY <2>1, <3>1, <3>2, <3>3, <3>4
  <2>4. ASSUME NEW r \in I
        PROVE  \E q \in I : Precedes(NextRow(r).slot, NextRow(q).slot)
    <3>1. PICK q \in S : WaitsFor(r, q)
      OBVIOUS
    <3>2. /\ q # r /\ job[r].stage = "inserting" /\ Pending(r) # {}
          /\ Clash(r, job[q].inserted \union (rows \intersect job[q].deleted))
      BY <2>4, <3>1 DEF WaitsFor
    <3>3. \A x \in rows \ job[r].seen : x.slot = NextRow(r).slot =>
            x.run \notin RunIds \/ job[x.run].stage \in {"deleting", "inserting"}
      BY <2>1, <2>4
    <3>4. job[q].stage = "inserting" => Pending(q) # {}
      BY <2>2, <3>1
    <3>5. job[q].stage = "inserting" /\ Precedes(NextRow(r).slot, NextRow(q).slot)
      BY <1>1, <2>1, <2>4, <3>1, <3>2, <3>3, <3>4, WaitsForLater
    <3>. QED
      BY <3>1, <3>5
  <2>5. \A r \in I : NextRow(r).slot \in Slot
    BY <1>1, <2>1, <2>2, NextRowFacts DEF NewsInv
  <2>. DEFINE slot == [r \in I |-> NextRow(r).slot]
  <2>6. \A r \in I : slot[r] = NextRow(r).slot
    OBVIOUS
  <2>. HIDE DEF I, slot
  <2>7. \E r \in I : \A q \in I : ~Precedes(slot[r], slot[q])
    BY <2>3, <2>5, <2>6, LastSlot
  <2>. QED
    BY <2>4, <2>6, <2>7
<1>. QED
  BY <1>1, SpecNewsInv, PTL

-----------------------------------------------------------------------------
(* The strengthening of EachArticleOnce: what the loops have taken and     *)
(* delivered is behind the cursor.                                         *)
Once(j) ==
  /\ j.stage = "feeds" => j.results = <<>>
  /\ \A l \in 1..Loops : j.loop[l] < j.cursor
  /\ \A k \in 1..Len(j.results) : j.results[k] < j.cursor
  /\ \A l, m \in 1..Loops : l # m /\ j.loop[l] # 0 => j.loop[l] # j.loop[m]
  /\ \A l \in 1..Loops, k \in 1..Len(j.results) : j.loop[l] # 0 => j.loop[l] # j.results[k]
  /\ \A k, m \in 1..Len(j.results) : k # m => j.results[k] # j.results[m]

AllOnce == \A r \in RunIds : Once(job[r])

LEMMA RestingOnce == ASSUME NEW stage PROVE Once(Resting(stage))
BY DEF Once, Resting, NoLoop

(* Only the collection matters.                                            *)
LEMMA SameOnce ==
  ASSUME NEW j, NEW k, Once(j), k.stage = "feeds" => j.stage = "feeds",
         k.loop = j.loop, k.cursor = j.cursor, k.results = j.results
  PROVE  Once(k)
BY DEF Once

LEMMA LoopsStartedOnce ==
  ASSUME NEW j \in Job, j.stage = "feeds", Once(j)
  PROVE  Once(LoopsStarted(j))
<1>. DEFINE n == Len(j.queue)
            least == Smallest({n, Loops})
            loop == [l \in 1..Loops |-> IF l <= n THEN l ELSE 0]
            cursor == least + 1
            next == LoopsStarted(j)
<1>1. n \in Nat /\ j.results = <<>>
  BY LenProperties DEF Job, Once
<1>2. next = [j EXCEPT !.stage = "articles", !.loop = loop, !.cursor = cursor]
  BY <1>1 DEF LoopsStarted, Job
<1>3. cursor \in 1..(n + 1) /\ \A l \in 1..Loops : (l <= n <=> l <= least)
  BY <1>1, CursorStart
<1>4. least \in Nat
  <2>1. {n, Loops} \in SUBSET Nat /\ {n, Loops} # {}
    BY <1>1, NewsAssumption
  <2>2. Smallest({n, Loops}) \in {n, Loops}
    BY <2>1, SmallestExists
  <2>. QED
    BY <2>1, <2>2
<1>5. \A l \in 1..Loops : /\ loop[l] \in {l, 0} /\ loop[l] < cursor
                          /\ loop[l] # 0 => loop[l] = l
  <2>1. Loops \in Nat
    BY NewsAssumption
  <2>2. \A l \in 1..Loops : loop[l] = IF l <= n THEN l ELSE 0
    OBVIOUS
  <2>. HIDE DEF n, least, loop
  <2>. QED
    BY <1>1, <1>3, <1>4, <2>1, <2>2
<1>. HIDE DEF loop, cursor, next
<1>6. next.stage = "articles" /\ next.loop = loop /\ next.cursor = cursor /\ next.results = <<>>
  BY <1>1, <1>2 DEF Job
<1>7. \A l, m \in 1..Loops : l # m /\ loop[l] # 0 => loop[l] # loop[m]
  BY <1>5, NewsAssumption
<1>8. Len(next.results) = 0
  BY <1>6
<1>. QED
  BY <1>5, <1>6, <1>7, <1>8 DEF Once, next

(* A turn of a loop: its article is delivered or lost, the next one taken  *)
(* from the cursor.                                                        *)
LEMMA NextArticleOnce ==
  ASSUME NEW j, NEW r, JobOK(j, r), j.stage = "articles", Once(j),
         NEW l \in 1..Loops, j.loop[l] # 0,
         NEW results \in {j.results, Append(j.results, j.loop[l])}, NEW stop
  PROVE  LET next == NextArticle([j EXCEPT !.results = results], l, stop)
         IN Once(next) /\ next.stage = "articles"
<1>. DEFINE old == [j EXCEPT !.results = results]
            next == NextArticle(old, l, stop)
            n == Len(j.results)
<1>1. /\ j \in Job /\ j.loop \in [1..Loops -> Nat] /\ j.cursor \in Nat
      /\ j.results \in Seq(Nat) /\ n \in Nat /\ j.queue \in Seq(Slot)
      /\ j.cursor # 0
  <2>1. j \in Job /\ j.loop[l] < j.cursor
    BY DEF JobOK, Once
  <2>2. /\ j.loop \in [1..Loops -> Nat] /\ j.cursor \in Nat
        /\ j.results \in Seq(Nat) /\ j.queue \in Seq(Slot)
    BY <2>1 DEF Job
  <2>3. j.loop[l] \in Nat
    BY <2>2
  <2>. QED
    BY <2>1, <2>2, <2>3, LenProperties
<1>2. /\ results \in Seq(Nat) /\ Len(results) \in Nat
      /\ \A k \in 1..Len(results) : results[k] \in Nat /\ results[k] < j.cursor
      /\ \A m \in 1..Loops, k \in 1..Len(results) :
           m # l /\ j.loop[m] # 0 => j.loop[m] # results[k]
      /\ \A k, m \in 1..Len(results) : k # m => results[k] # results[m]
  <2>1. CASE results = j.results
    <3>1. \A k \in 1..n : j.results[k] \in Nat
      BY <1>1, ElementOfSeq
    <3>2. /\ \A k \in 1..n : j.results[k] < j.cursor
          /\ \A m \in 1..Loops, k \in 1..n : j.loop[m] # 0 => j.loop[m] # j.results[k]
          /\ \A k, m \in 1..n : k # m => j.results[k] # j.results[m]
      BY DEF Once
    <3>. QED
      BY <1>1, <2>1, <3>1, <3>2
  <2>2. CASE results = Append(j.results, j.loop[l])
    <3>1. /\ results \in Seq(Nat) /\ Len(results) = n + 1
          /\ \A k \in 1..n : results[k] = j.results[k]
          /\ results[n + 1] = j.loop[l]
      <4>1. j.loop[l] \in Nat
        BY <1>1
      <4>. QED
        BY <1>1, <2>2, <4>1, AppendProperties
    <3>2. \A k \in 1..(n + 1) : k \in 1..n \/ k = n + 1
      BY <1>1
    <3>3. \A k \in 1..n : j.results[k] \in Nat
      BY <1>1, ElementOfSeq
    <3>. HIDE DEF n
    <3>4. \A k \in 1..(n + 1) : results[k] \in Nat /\ results[k] < j.cursor
      BY <1>1, <3>1, <3>2, <3>3 DEF Once, n
    <3>5. \A m \in 1..Loops, k \in 1..(n + 1) :
            m # l /\ j.loop[m] # 0 => j.loop[m] # results[k]
      BY <3>1, <3>2 DEF Once, n
    <3>6. ASSUME NEW k \in 1..(n + 1), NEW m \in 1..(n + 1), k # m
          PROVE  results[k] # results[m]
      <4>1. /\ \A x \in 1..n : j.loop[l] # j.results[x]
            /\ \A x, y \in 1..n : x # y => j.results[x] # j.results[y]
        BY DEF Once, n
      <4>2. k \in 1..n \/ m \in 1..n
        BY <3>2, <3>6
      <4>. QED
        BY <3>1, <3>2, <3>6, <4>1, <4>2
    <3>. QED
      BY <1>1, <3>1, <3>4, <3>5, <3>6
  <2>. QED
    BY <2>1, <2>2
<1>3. old \in Job /\ old.stage = "articles" /\ old.loop = j.loop /\ old.cursor = j.cursor
      /\ old.results = results /\ old.queue = j.queue
  BY <1>1, <1>2 DEF Job
<1>. HIDE DEF old
<1>4. CASE stop \/ j.cursor > Len(j.queue)
  <2>. DEFINE loop == [j.loop EXCEPT ![l] = 0]
  <2>1. next = [old EXCEPT !.loop = loop]
    BY <1>3, <1>4 DEF NextArticle, Job
  <2>2. \A m \in 1..Loops : loop[m] = IF m = l THEN 0 ELSE j.loop[m]
    BY <1>1
  <2>. HIDE DEF loop, next
  <2>3. next.stage = "articles" /\ next.loop = loop /\ next.cursor = j.cursor /\ next.results = results
    BY <1>3, <2>1 DEF Job
  <2>4. \A m \in 1..Loops : j.loop[m] \in Nat /\ j.loop[m] < j.cursor
    BY <1>1 DEF Once
  <2>5. \A m \in 1..Loops : loop[m] < j.cursor
    BY <1>1, <2>2, <2>4
  <2>6. \A k, m \in 1..Loops : k # m /\ loop[k] # 0 => loop[k] # loop[m]
    BY <1>1, <2>2, <2>4 DEF Once
  <2>7. \A m \in 1..Loops, k \in 1..Len(results) : loop[m] # 0 => loop[m] # results[k]
    BY <1>1, <1>2, <2>2
  <2>8. \A k \in 1..Len(results) : results[k] < j.cursor
    BY <1>1, <1>2
  <2>9. Once(next)
    BY <1>2, <2>3, <2>5, <2>6, <2>7, <2>8 DEF Once
  <2>. QED
    BY <2>3, <2>9 DEF next, old
<1>5. CASE ~(stop \/ j.cursor > Len(j.queue))
  <2>. DEFINE loop == [j.loop EXCEPT ![l] = j.cursor]
  <2>1. next = [old EXCEPT !.loop = loop, !.cursor = j.cursor + 1]
    BY <1>3, <1>5 DEF NextArticle, Job
  <2>2. \A m \in 1..Loops : loop[m] = IF m = l THEN j.cursor ELSE j.loop[m]
    BY <1>1
  <2>. HIDE DEF loop, next
  <2>3. next.stage = "articles" /\ next.loop = loop /\ next.cursor = j.cursor + 1 /\ next.results = results
    BY <1>3, <2>1 DEF Job
  <2>4. \A m \in 1..Loops : j.loop[m] \in Nat /\ j.loop[m] < j.cursor
    BY <1>1 DEF Once
  <2>5. \A m \in 1..Loops : loop[m] < j.cursor + 1
    BY <1>1, <2>2, <2>4
  <2>6. \A k, m \in 1..Loops : k # m /\ loop[k] # 0 => loop[k] # loop[m]
    BY <1>1, <2>2, <2>4 DEF Once
  <2>7. \A m \in 1..Loops, k \in 1..Len(results) : loop[m] # 0 => loop[m] # results[k]
    BY <1>1, <1>2, <2>2
  <2>8. \A k \in 1..Len(results) : results[k] < j.cursor + 1
    BY <1>1, <1>2
  <2>9. Once(next)
    BY <1>2, <2>3, <2>5, <2>6, <2>7, <2>8 DEF Once
  <2>. QED
    BY <2>3, <2>9 DEF next, old
<1>. QED
  BY <1>4, <1>5 DEF old

(* A handler's step, for what its run has collected.                       *)
LEMMA StepOnce ==
  ASSUME NewsInv, NEW r \in RunIds, Once(job[r]), NewsStep(r)
  PROVE  Once(job'[r])
<1>. DEFINE old == job[r]
<1>1. job \in [RunIds -> Job] /\ JobOK(old, r) /\ old \in Job
  BY DEF NewsInv, JobsInv, JobOK
<1>2. ASSUME NEW status, End(r, status) PROVE Once(job'[r])
  <2>1. job'[r] = Resting("ended")
    BY <1>1, <1>2 DEF End
  <2>. QED
    BY <2>1, RestingOnce
<1>3. ASSUME NEW j, Keep(r, j) PROVE job'[r] = j
  BY <1>1, <1>3 DEF Keep
<1>4. CASE FeedEnds(r)
  <2>. DEFINE s == old.feed
  <2>1. PICK n \in 0..PerSource :
          LET j == [old EXCEPT !.queue = @ \o [i \in 1..n |-> <<s, i>>]]
          IN \/ ~Aborted(r) /\ s < Sources /\ Keep(r, [j EXCEPT !.feed = s + 1])
             \/ ~Aborted(r) /\ s = Sources /\ j.queue # <<>> /\ Keep(r, LoopsStarted(j))
             \/ Aborted(r) /\ End(r, "success")
             \/ s = Sources /\ j.queue = <<>> /\ End(r, "success")
    BY <1>4 DEF FeedEnds
  <2>. DEFINE longer == old.queue \o [i \in 1..n |-> <<s, i>>]
              j == [old EXCEPT !.queue = longer]
  <2>2. /\ old.stage = "feeds" /\ Collection(old) /\ Staged(old) /\ Ahead(old, r)
        /\ old.queue \in Seq(Slot) /\ s \in 1..Sources /\ Len(old.queue) \in Nat
    BY <1>1, <1>4, LenProperties DEF FeedEnds, JobOK, Job
  <2>3. /\ longer \in Seq(Slot)
        /\ Len(longer) \in Nat /\ Len(longer) >= Len(old.queue)
    BY <2>2, FeedQueues DEF Collection
  <2>. HIDE DEF longer
  <2>4. CASE Keep(r, [j EXCEPT !.feed = s + 1])
    <3>. DEFINE next == [j EXCEPT !.feed = s + 1]
    <3>1. /\ next.stage = "feeds" /\ next.loop = old.loop /\ next.cursor = old.cursor
          /\ next.results = old.results
      BY <1>1, <2>2 DEF Job
    <3>. HIDE DEF next
    <3>2. Once(next)
      BY <2>2, <3>1, SameOnce
    <3>. QED
      BY <1>3, <2>4, <3>2 DEF next
  <2>5. CASE Keep(r, LoopsStarted(j))
    <3>. DEFINE next == LoopsStarted(j)
    <3>1. /\ j \in Job /\ j.stage = "feeds" /\ j.loop = old.loop /\ j.cursor = old.cursor
          /\ j.results = old.results /\ j.queue = longer
      BY <1>1, <2>2, <2>3 DEF Job
    <3>. HIDE DEF j
    <3>2. Once(j)
      BY <2>2, <3>1, SameOnce
    <3>3. Once(next)
      BY <3>1, <3>2, LoopsStartedOnce
    <3>. QED
      BY <1>3, <2>5, <3>3 DEF j
  <2>. QED
    BY <1>2, <2>1, <2>4, <2>5 DEF longer
<1>5. ASSUME NEW l \in 1..Loops, ArticleEnds(r, l) PROVE Once(job'[r])
  <2>1. old.loop[l] # 0 /\ old.stage = "articles"
    BY <1>1, <1>5 DEF ArticleEnds, JobOK, Staged, NoLoop
  <2>2. PICK results \in {old.results, Append(old.results, old.loop[l])} :
          LET j == NextArticle([old EXCEPT !.results = results], l, Aborted(r))
          IN \/ j.loop # NoLoop /\ Keep(r, j)
             \/ j.loop = NoLoop /\ Collected(r, j)
    BY <1>5 DEF ArticleEnds
  <2>. DEFINE j == NextArticle([old EXCEPT !.results = results], l, Aborted(r))
              next == [j EXCEPT !.stage = "connect"]
  <2>3. Once(j) /\ j.stage = "articles" /\ j \in Job
    <3>1. Once(j) /\ j.stage = "articles"
      BY <1>1, <2>1, NextArticleOnce
    <3>2. JobOK([old EXCEPT !.results = results], r) /\ [old EXCEPT !.results = results].stage = "articles"
      BY <1>1, <2>1, ArrivalOK
    <3>3. j \in Job
      <4>. DEFINE arrived == [old EXCEPT !.results = results]
      <4>. HIDE DEF arrived
      <4>. QED
        BY <3>2, NextArticleOK DEF arrived
    <3>. QED
      BY <3>1, <3>3
  <2>. HIDE DEF j
  <2>4. Once(next)
    <3>1. next.stage = "connect" /\ next.loop = j.loop /\ next.cursor = j.cursor
          /\ next.results = j.results
      BY <2>3 DEF Job
    <3>. HIDE DEF next
    <3>. QED
      BY <2>3, <3>1, SameOnce
  <2>. QED
    BY <1>2, <1>3, <2>2, <2>3, <2>4 DEF Collected, j
<1>6. CASE DeleteBegins(r) \/ DeleteEnds(r) \/ InsertRow(r)
  <2>1. ASSUME NEW j, Keep(r, j), j.stage \in {"deleting", "inserting"}, j.loop = old.loop,
               j.cursor = old.cursor, j.results = old.results
        PROVE  Once(job'[r])
    BY <1>3, <2>1, SameOnce
  <2>2. CASE DeleteBegins(r)
    <3>. DEFINE j == [old EXCEPT !.stage = "deleting", !.seen = rows]
    <3>1. Keep(r, j) /\ j.stage = "deleting" /\ j.loop = old.loop /\ j.cursor = old.cursor
          /\ j.results = old.results
      BY <1>1, <2>2 DEF DeleteBegins, Job
    <3>. HIDE DEF j
    <3>. QED
      BY <2>1, <3>1
  <2>3. CASE DeleteEnds(r)
    <3>. DEFINE j == [old EXCEPT !.stage = "inserting", !.deleted = @ \union (old.seen \intersect rows)]
    <3>1. Keep(r, j) /\ j.stage = "inserting" /\ j.loop = old.loop /\ j.cursor = old.cursor
          /\ j.results = old.results
      BY <1>1, <2>3 DEF DeleteEnds, Job
    <3>. HIDE DEF j
    <3>. QED
      BY <2>1, <3>1
  <2>4. CASE InsertRow(r)
    <3>. DEFINE j == [old EXCEPT !.inserted = @ \union {NextRow(r)}]
    <3>1. Keep(r, j) /\ j.stage = "inserting" /\ j.loop = old.loop /\ j.cursor = old.cursor
          /\ j.results = old.results
      BY <1>1, <2>4 DEF InsertRow, Job
    <3>. HIDE DEF j
    <3>. QED
      BY <2>1, <3>1
  <2>. QED
    BY <1>6, <2>2, <2>3, <2>4
<1>7. Commit(r) \/ Fail(r) => Once(job'[r])
  BY <1>2 DEF Commit, Fail
<1>. QED
  BY <1>4, <1>5, <1>6, <1>7 DEF NewsStep

(* No article is fetched by two loops of a run or delivered twice, for any *)
(* number of loops, articles and feeds.                                    *)
THEOREM ArticlesAreFetchedOnce == NewsSpec => []EachArticleOnce
<1>1. NewsInit => AllOnce
  <2>. SUFFICES ASSUME NewsInit, NEW r \in RunIds PROVE Once(job[r])
    BY DEF AllOnce
  <2>. QED
    BY RestingOnce DEF NewsInit
<1>2. NewsInv /\ AllOnce /\ [NewsNext]_newsVars => AllOnce'
  <2>. SUFFICES ASSUME NewsInv, AllOnce, [NewsNext]_newsVars, NEW r \in RunIds PROVE Once(job'[r])
    BY DEF AllOnce, Once
  <2>1. Once(job[r])
    BY DEF AllOnce
  <2>2. CASE StartNews \/ TickNews
    <3>1. job' = job \/ \E q : job' = [job EXCEPT ![q] = Resting("feeds")]
      BY <2>2 DEF StartNews, TickNews, Fetching
    <3>2. job'[r] = job[r] \/ job'[r] = Resting("feeds")
      BY <3>1 DEF NewsInv, JobsInv
    <3>. QED
      BY <2>1, <3>2, RestingOnce
  <2>3. CASE TimeOutNews \/ OtherSchedulerStep \/ UNCHANGED newsVars
    BY <2>1, <2>3 DEF TimeOutNews, OtherSchedulerStep, newsVars
  <2>4. ASSUME NEW q \in RunIds, NewsStep(q) PROVE Once(job'[r])
    <3>1. CASE q = r
      BY <2>1, <2>4, <3>1, StepOnce
    <3>2. CASE q # r
      BY <2>1, <2>4, <3>2, StepOfRun
    <3>. QED
      BY <3>1, <3>2
  <2>. QED
    BY <2>2, <2>3, <2>4 DEF NewsNext
<1>3. AllOnce => EachArticleOnce
  BY DEF AllOnce, Once, EachArticleOnce
<1>. QED
  BY <1>1, <1>2, <1>3, SpecNewsInv, PTL DEF NewsSpec

=============================================================================
