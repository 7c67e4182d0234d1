------------------------------ MODULE NewsCache ------------------------------
(***************************************************************************)
(* The fetch-news worker under the scheduler: each handler run collects    *)
(* the feeds, then the articles with a few concurrent loops, and replaces  *)
(* the table news_articles in one transaction.  A run abandoned by its     *)
(* timeout keeps executing, so two runs can be in the database together:   *)
(* PostgreSQL at READ COMMITTED is modelled as far as those two statements *)
(* need it (statement snapshots, row locks, the UNIQUE constraint).        *)
(***************************************************************************)
EXTENDS Scheduler, Sequences

CONSTANTS News,       \* the worker definition, the only one scheduled here
          Sources,    \* number of feeds
          PerSource,  \* ARTICLES_PER_SOURCE
          Loops,      \* DEFAULT_CONCURRENCY
          Earlier     \* refreshes an earlier process may have left in the table

ASSUME NewsAssumption ==
  /\ Workers = {News}
  /\ Sources \in Nat \ {0}
  /\ PerSource \in Nat \ {0}
  /\ Loops \in Nat \ {0}
  /\ Earlier \subseteq SUBSET ((1..Sources) \X (1..PerSource))

VARIABLES job,  \* per run: what its handler holds, and its transaction
          rows  \* committed rows of news_articles: <<source, rank>> and the run it is from

newsVars == <<vars, job, rows>>

RunIds == 1..MaxRuns
Slot == (1..Sources) \X (1..PerSource)
Row == [slot : Slot, run : 0..MaxRuns]

NoLoop == [l \in 1..Loops |-> 0]

Resting(stage) ==
  [stage |-> stage, feed |-> 1, queue |-> <<>>, cursor |-> 1, loop |-> NoLoop,
   results |-> <<>>, seen |-> {}, deleted |-> {}, inserted |-> {}]

NewsTypeOK ==
  /\ TypeOK
  /\ rows \subseteq Row
  /\ \A r \in RunIds :
       /\ job[r].stage \in {"none", "feeds", "articles", "connect", "deleting",
                            "inserting", "ended"}
       /\ job[r].feed \in 1..Sources
       /\ job[r].queue \in Seq(Slot)
       /\ job[r].cursor \in 1..(Len(job[r].queue) + 1)
       /\ job[r].loop \in [1..Loops -> 0..Len(job[r].queue)]
       /\ job[r].results \in Seq(1..Len(job[r].queue))
       /\ job[r].seen \subseteq Row
       /\ job[r].deleted \subseteq job[r].seen
       /\ job[r].inserted \subseteq Row

NewsInit ==
  /\ Init
  /\ job = [r \in RunIds |-> Resting("none")]
  /\ \E S \in Earlier : rows = {[slot |-> s, run |-> 0] : s \in S}

-----------------------------------------------------------------------------
Keep(r, j) ==
  /\ job' = [job EXCEPT ![r] = j]
  /\ UNCHANGED vars

(* ctx.signal: the run's timeout or the scheduler's shutdown.              *)
Aborted(r) == stopped \/ <<News, r>> \in aborted

(* The handler's promise settles, for the run that waits for it if any.    *)
End(r, status) ==
  /\ job' = [job EXCEPT ![r] = Resting("ended")]
  /\ IF running[News] = r THEN SettleInTime(News, status) ELSE SettleLate(News, r)

-----------------------------------------------------------------------------
(* Scheduler steps.  The handler runs to its first await, the request for  *)
(* the first feed, in the turn that starts it, and it is async: it never   *)
(* throws before it has returned its promise.                              *)
Fetching(r) == [job EXCEPT ![r] = Resting("feeds")]

StartNews ==
  /\ Start
  /\ unhandled' = unhandled
  /\ UNCHANGED rows
  /\ job' = IF News \in StartupWorkers THEN Fetching(1) ELSE job

TickNews ==
  /\ TickRun(News)
  /\ unhandled' = unhandled
  /\ UNCHANGED rows
  /\ job' = Fetching(fired[News] + 1)

(* The handler is more awaits away from its aborted fetch than the race's  *)
(* continuation: a run whose timer fires has not settled when classified.  *)
TimeOutNews ==
  /\ TimerFire(News)
  /\ handlers' = handlers
  /\ UNCHANGED <<job, rows>>

OtherSchedulerStep ==
  /\ TickSkip(News) \/ StopBegin \/ StopDrained \/ StopTimeout
  /\ UNCHANGED <<job, rows>>

-----------------------------------------------------------------------------
(* collectArticles.  What follows a fetch is one turn: the next fetch, or  *)
(* the end of the collection and the handler's tests on what it returned.  *)
Smallest(S) == CHOOSE i \in S : \A k \in S : i <= k

(* Mutant: the cursor ends up behind the loops, not behind the queue.      *)
LoopsStartedPast(j) ==
  [j EXCEPT !.stage = "articles",
            !.loop = [l \in 1..Loops |-> IF l <= Len(j.queue) THEN l ELSE 0],
            !.cursor = Loops + 1]

(* The loops start together when the feeds are done; none of them fetches  *)
(* once the signal is aborted.                                             *)
LoopsStarted(j) ==
  LET n == Len(j.queue)
  IN [j EXCEPT !.stage = "articles",
               !.loop = [l \in 1..Loops |-> IF l <= n THEN l ELSE 0],
               !.cursor = Smallest({n, Loops}) + 1]

(* The feed in flight yields n articles: none when it failed, was not 2xx, *)
(* was empty or was aborted.                                               *)
FeedEnds(r) ==
  /\ job[r].stage = "feeds"
  /\ UNCHANGED rows
  /\ \E n \in 0..PerSource :
       LET s == job[r].feed
           j == [job[r] EXCEPT !.queue = @ \o [i \in 1..n |-> <<s, i>>]]
       IN \/ ~Aborted(r) /\ s < Sources /\ Keep(r, [j EXCEPT !.feed = s + 1])
          \/ ~Aborted(r) /\ s = Sources /\ j.queue # <<>> /\ Keep(r, LoopsStarted(j))
          \/ Aborted(r) /\ End(r, "success")
          \/ s = Sources /\ j.queue = <<>> /\ End(r, "success")

(* Mutant: a loop does not look at the signal.                             *)
NextArticleRegardless(j, l, stop) ==
  IF j.cursor > Len(j.queue)
  THEN [j EXCEPT !.loop[l] = 0]
  ELSE [j EXCEPT !.loop[l] = j.cursor, !.cursor = @ + 1]

(* One turn of worker(): the loop ends or takes the article at the cursor. *)
NextArticle(j, l, stop) ==
  IF stop \/ j.cursor > Len(j.queue)
  THEN [j EXCEPT !.loop[l] = 0]
  ELSE [j EXCEPT !.loop[l] = j.cursor, !.cursor = @ + 1]

(* Mutant: an empty collection replaces the cache.                         *)
CollectedEvenNothing(r, j) ==
  \/ Aborted(r) /\ End(r, "success")
  \/ ~Aborted(r) /\ Keep(r, [j EXCEPT !.stage = "connect"])

(* The handler with what collectArticles returned: zero articles leave the *)
(* cache intact, and an aborted run does not start to write.               *)
Collected(r, j) ==
  \/ (j.results = <<>> \/ Aborted(r)) /\ End(r, "success")
  \/ j.results # <<>> /\ ~Aborted(r) /\ Keep(r, [j EXCEPT !.stage = "connect"])

(* A loop's article arrives, or its fetch fails; the collection is over    *)
(* when every loop is.                                                     *)
ArticleEnds(r, l) ==
  /\ job[r].loop[l] # 0
  /\ UNCHANGED rows
  /\ \E results \in {job[r].results, Append(job[r].results, job[r].loop[l])} :
       LET j == NextArticle([job[r] EXCEPT !.results = results], l, Aborted(r))
       IN \/ j.loop # NoLoop /\ Keep(r, j)
          \/ j.loop = NoLoop /\ Collected(r, j)

-----------------------------------------------------------------------------
(* replaceAll.                                                             *)

(* Articles of the run that its INSERT has not reached.                    *)
Pending(r) ==
  {i \in {job[r].results[k] : k \in 1..Len(job[r].results)} :
     [slot |-> job[r].queue[i], run |-> r] \notin job[r].inserted}

(* Mutant: the articles are inserted as they came.                         *)
NextRowArrived(r) ==
  LET k == Smallest({k \in 1..Len(job[r].results) : job[r].results[k] \in Pending(r)})
  IN [slot |-> job[r].queue[job[r].results[k]], run |-> r]

(* Results stand in queue order, whatever order they came in.              *)
NextRow(r) == [slot |-> job[r].queue[Smallest(Pending(r))], run |-> r]

Clash(r, S) == \E row \in S : row.slot = NextRow(r).slot

(* r's statement waits for q's transaction: DELETE for a row q deleted,    *)
(* INSERT for a row of the same source and rank that q inserted or         *)
(* deleted.                                                                *)
WaitsFor(r, q) ==
  /\ q # r
  /\ \/ job[r].stage = "deleting" /\ job[r].seen \intersect job[q].deleted # {}
     \/ /\ job[r].stage = "inserting"
        /\ Pending(r) # {}
        /\ Clash(r, job[q].inserted \union (rows \intersect job[q].deleted))

Waiting(r) == \E q \in RunIds : WaitsFor(r, q)

(* pool.connect(), BEGIN, and the DELETE takes its snapshot.               *)
DeleteBegins(r) ==
  /\ job[r].stage = "connect"
  /\ Keep(r, [job[r] EXCEPT !.stage = "deleting", !.seen = rows])
  /\ UNCHANGED rows

(* A row that another transaction has deleted in the meantime is skipped;  *)
(* one inserted in the meantime was never seen.                            *)
DeleteEnds(r) ==
  /\ job[r].stage = "deleting"
  /\ ~Waiting(r)
  /\ Keep(r, [job[r] EXCEPT !.stage = "inserting", !.deleted = @ \union (job[r].seen \intersect rows)])
  /\ UNCHANGED rows

(* Mutant: no transaction, each row is committed as it is inserted.        *)
InsertRowCommitted(r) ==
  /\ job[r].stage = "inserting"
  /\ Pending(r) # {}
  /\ ~Waiting(r)
  /\ ~Clash(r, rows \ job[r].deleted)
  /\ Keep(r, [job[r] EXCEPT !.inserted = @ \union {NextRow(r)}])
  /\ rows' = (rows \ job[r].deleted) \union {NextRow(r)}

InsertRow(r) ==
  /\ job[r].stage = "inserting"
  /\ Pending(r) # {}
  /\ ~Waiting(r)
  /\ ~Clash(r, rows \ job[r].deleted)
  /\ Keep(r, [job[r] EXCEPT !.inserted = @ \union {NextRow(r)}])
  /\ UNCHANGED rows

(* COMMIT.  Its answer may be lost: the handler fails, the rows are there. *)
Commit(r) ==
  /\ job[r].stage = "inserting"
  /\ Pending(r) = {}
  /\ rows' = (rows \ job[r].deleted) \union job[r].inserted
  /\ \E status \in Settled : End(r, status)

(* No connection within its timeout, a statement that fails, the UNIQUE    *)
(* constraint among the reasons: ROLLBACK, and the error is the run's.     *)
Fail(r) ==
  /\ job[r].stage \in {"connect", "deleting", "inserting"}
  /\ End(r, "failure")
  /\ UNCHANGED rows

NewsStep(r) ==
  \/ FeedEnds(r)
  \/ \E l \in 1..Loops : ArticleEnds(r, l)
  \/ DeleteBegins(r)
  \/ DeleteEnds(r)
  \/ InsertRow(r)
  \/ Commit(r)
  \/ Fail(r)

NewsNext ==
  \/ StartNews
  \/ TickNews
  \/ TimeOutNews
  \/ OtherSchedulerStep
  \/ \E r \in RunIds : NewsStep(r)

NewsSpec == NewsInit /\ [][NewsNext]_newsVars

-----------------------------------------------------------------------------
RowsOf(r) == {row \in rows : row.run = r}
Collects(r) == job[r].stage \in {"feeds", "articles"}

(* The cache holds articles of two refreshes only after a run was          *)
(* abandoned by its timeout: the scheduler's overlap protection is all     *)
(* that keeps replaceAll (articles-repo.ts) exact at READ COMMITTED.       *)
MixedOnlyAfterTimeout ==
  (\E x, y \in rows : x.run # y.run) => aborted # {}

(* get-news never finds the cache blank again once it was filled, however  *)
(* refreshes fail, are aborted or overlap.                                 *)
NeverBlanked == [][rows # {} => rows' # {}]_newsVars

(* What a reader sees of a refresh is all of it or nothing, also while     *)
(* another one deletes it.                                                 *)
WholeRefreshes ==
  [][\A r \in RunIds :
       \/ RowsOf(r)' \in {RowsOf(r), {}}
       \/ RowsOf(r) = {} /\ Pending(r) = {} /\ RowsOf(r)' = job[r].inserted]_newsVars

(* Two overlapping refreshes never wait for each other: both insert in the *)
(* order of source and rank, not in the order the articles arrived.  A     *)
(* circle takes one more refresh, outside of it, that has committed the    *)
(* article one of them inserts next after that one took its snapshot.      *)
NoWaitCycle ==
  \A S \in (SUBSET RunIds) \ {{}} :
    (\A r \in S : \E q \in S : WaitsFor(r, q)) =>
      \E r \in S : \E x \in rows \ job[r].seen :
        x.run \in RunIds \ S /\ x.slot = NextRow(r).slot

(* The concurrent loops of fetch-news share a cursor and never work on or  *)
(* deliver the same article twice.                                         *)
EachArticleOnce ==
  \A r \in RunIds :
    LET taken == {l \in 1..Loops : job[r].loop[l] # 0}
        done == 1..Len(job[r].results)
    IN /\ \A l, m \in taken : l # m => job[r].loop[l] # job[r].loop[m]
       /\ \A l \in taken, k \in done : job[r].loop[l] # job[r].results[k]
       /\ \A k, m \in done : k # m => job[r].results[k] # job[r].results[m]

(* A run whose timeout or whose shutdown comes while it collects fetches   *)
(* nothing more and never gets to the database, whatever its other loops   *)
(* still deliver.                                                          *)
AbortStopsCollecting ==
  [][\A r \in RunIds : Collects(r) /\ Aborted(r) =>
       /\ job[r].stage' \in {job[r].stage, "ended"}
       /\ \A l \in 1..Loops : job[r].loop[l]' \in {job[r].loop[l], 0}]_newsVars

=============================================================================
