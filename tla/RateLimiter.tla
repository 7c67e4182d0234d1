----------------------------- MODULE RateLimiter -----------------------------
(***************************************************************************)
(* The sliding-window rate limiter (core/rate-limiter.ts) for one scope:   *)
(* check() reads the clock and sends the Lua script; Redis executes the    *)
(* scripts of the one connection in the order sent, each atomically; the   *)
(* reply comes back later.  When the connection drops, ioredis sends every *)
(* command that has no reply again.  Redis and the client library are      *)
(* external and modelled from how the limiter uses them.                   *)
(***************************************************************************)
EXTENDS Naturals, Sequences, FiniteSets, FiniteSetsExt

CONSTANTS Window,      \* windowMs, in ticks
          Limits,      \* limits the key is given (keys set-rate-limit)
          Draws,       \* outcomes of math.random in the script
          MaxClock,    \* bound: Date.now()
          MaxPipeline, \* bound: checks waiting for Redis
          MaxLag,      \* bound: ticks from Date.now() to the reply
          MaxDrops     \* bound: lost connections

ASSUME RateLimiterAssumption ==
  /\ Window \in Nat \ {0}
  /\ Limits # {} /\ Limits \subseteq Nat \ {0}
  /\ \E most \in Limits : \A l \in Limits : l <= most
  /\ MaxClock \in Nat /\ MaxPipeline \in Nat /\ MaxLag \in Nat /\ MaxDrops \in Nat

VARIABLES clock,    \* Date.now()
          limit,    \* the limit a check is called with now
          zset,     \* the sorted set: members <<score, draw>>
          expireAt, \* when PEXPIRE deletes it, 0 for never
          wire,     \* scripts sent and not executed
          replies,  \* scripts executed, the reply on its way
          drops,    \* connections lost so far
          ever,     \* history: every member added
          promised  \* history: resetAt of the first rejection by `limit` members since the
                     \* last addition or change of the limit, 0 for none

vars == <<clock, limit, zset, expireAt, wire, replies, drops, ever, promised>>

Time == 0..MaxClock
Member == Time \X Draws
Command == [now : Time, limit : Limits]
Reply == [cmd : Command, allowed : BOOLEAN, resetAt : Nat]

TypeOK ==
  /\ clock \in Time
  /\ limit \in Limits
  /\ zset \subseteq Member
  /\ expireAt \in Nat
  /\ wire \in Seq(Command)
  /\ replies \in Seq(Reply)
  /\ drops \in 0..MaxDrops
  /\ ever \subseteq Member
  /\ promised \in Nat

Init ==
  /\ clock = 0
  /\ limit \in Limits
  /\ zset = {}
  /\ expireAt = 0
  /\ wire = <<>>
  /\ replies = <<>>
  /\ drops = 0
  /\ ever = {}
  /\ promised = 0

-----------------------------------------------------------------------------
Score(m) == m[1]

(* Mutant: a member stays for one tick more.                               *)
PrunedLate(now) == {m \in zset : Score(m) + Window >= now}

(* ZREMRANGEBYSCORE key -inf now - window                                  *)
Pruned(now) == {m \in zset : Score(m) + Window > now}

(* ZRANGE key 0 0 WITHSCORES                                               *)
OldestScore(S) == Min({Score(m) : m \in S})

(* check(): sample the clock, send the script.                             *)
Check ==
  /\ Len(wire) + Len(replies) < MaxPipeline
  /\ wire' = Append(wire, [now |-> clock, limit |-> limit])
  /\ UNCHANGED <<clock, limit, zset, expireAt, replies, drops, ever, promised>>

(* Mutant: one member more than the limit is let in.                       *)
AdmitOneMore(cmd) ==
  /\ Cardinality(Pruned(cmd.now)) <= cmd.limit
  /\ \E x \in Draws :
       /\ zset' = Pruned(cmd.now) \union {<<cmd.now, x>>}
       /\ ever' = ever \union {<<cmd.now, x>>}
  /\ expireAt' = clock + Window
  /\ promised' = 0
  /\ replies' = Append(replies, [cmd |-> cmd, allowed |-> TRUE, resetAt |-> cmd.now + Window])

(* The script finds room: ZADD, PEXPIRE.  A member that exists is          *)
(* overwritten.                                                            *)
Admit(cmd) ==
  /\ Cardinality(Pruned(cmd.now)) < cmd.limit
  /\ \E x \in Draws :
       /\ zset' = Pruned(cmd.now) \union {<<cmd.now, x>>}
       /\ ever' = ever \union {<<cmd.now, x>>}
  /\ expireAt' = clock + Window
  /\ promised' = 0
  /\ replies' = Append(replies, [cmd |-> cmd, allowed |-> TRUE, resetAt |-> cmd.now + Window])

(* The script finds the window full.                                       *)
Reject(cmd) ==
  /\ Cardinality(Pruned(cmd.now)) >= cmd.limit
  /\ zset' = Pruned(cmd.now)
  /\ LET resetAt == OldestScore(Pruned(cmd.now)) + Window
     IN /\ replies' = Append(replies, [cmd |-> cmd, allowed |-> FALSE, resetAt |-> resetAt])
        /\ promised' = IF promised = 0 /\ Cardinality(Pruned(cmd.now)) = limit
                         THEN resetAt ELSE promised
  /\ UNCHANGED <<expireAt, ever>>

Execute ==
  /\ wire # <<>>
  /\ Admit(Head(wire)) \/ Reject(Head(wire))
  /\ wire' = Tail(wire)
  /\ UNCHANGED <<clock, limit, drops>>

(* The caller of check() goes on with the oldest reply.                    *)
Receive ==
  /\ replies # <<>>
  /\ replies' = Tail(replies)
  /\ UNCHANGED <<clock, limit, zset, expireAt, wire, drops, ever, promised>>

(* The connection is lost and re-established: replies on their way are     *)
(* gone, their commands are sent again ahead of those not executed.        *)
Drop ==
  /\ drops < MaxDrops
  /\ wire # <<>> \/ replies # <<>>
  /\ drops' = drops + 1
  /\ wire' = [i \in 1..Len(replies) |-> replies[i].cmd] \o wire
  /\ replies' = <<>>
  /\ UNCHANGED <<clock, limit, zset, expireAt, ever, promised>>

(* Mutant: the key's life is one tick shorter than the window.             *)
ExpireEarly ==
  /\ expireAt # 0
  /\ clock + 1 >= expireAt
  /\ zset' = {}
  /\ expireAt' = 0
  /\ UNCHANGED <<clock, limit, wire, replies, drops, ever, promised>>

Expire ==
  /\ expireAt # 0
  /\ clock >= expireAt
  /\ zset' = {}
  /\ expireAt' = 0
  /\ UNCHANGED <<clock, limit, wire, replies, drops, ever, promised>>

SetRateLimit(l) ==
  /\ l # limit
  /\ limit' = l
  /\ promised' = 0
  /\ UNCHANGED <<clock, zset, expireAt, wire, replies, drops, ever>>

(* MaxLag bounds how long a check may take.                                *)
Tick ==
  /\ clock < MaxClock
  /\ \A i \in 1..Len(wire) : clock < wire[i].now + MaxLag
  /\ \A i \in 1..Len(replies) : clock < replies[i].cmd.now + MaxLag
  /\ clock' = clock + 1
  /\ UNCHANGED <<limit, zset, expireAt, wire, replies, drops, ever, promised>>

Next ==
  \/ Check
  \/ Execute
  \/ Receive
  \/ Drop
  \/ Expire
  \/ \E l \in Limits : SetRateLimit(l)
  \/ Tick

Spec == Init /\ [][Next]_vars

-----------------------------------------------------------------------------
InWindow(S, t, w) == {m \in S : Score(m) <= t /\ t < Score(m) + w}

(* No window, shortened by the time a check may take, holds more members   *)
(* than the limit, although scripts may be executed twice and late:        *)
(* pruning, the cardinality test and the key's expiry together never       *)
(* forget a member too early.                                              *)
MembersPerWindow ==
  \A t \in Time : Cardinality(InWindow(ever, t, Window - MaxLag)) <= Max(Limits)

RejectStep ==
  /\ Len(replies') > Len(replies)
  /\ ~replies'[Len(replies')].allowed

(* A check is rejected only when, at its own timestamp, at least `limit`   *)
(* members are younger than the window: nothing lingers too long.          *)
RejectedOnlyWhenFull ==
  [][RejectStep =>
       LET cmd == replies'[Len(replies')].cmd
       IN Cardinality({m \in ever : cmd.now < Score(m) + Window}) >= cmd.limit]_vars

(* Retry-After is honest unless the limit was lowered below what the       *)
(* window holds: once the reset time of a rejection has come, and nobody   *)
(* was admitted in between, the window has room for one more.              *)
RetryAfterHonest ==
  promised # 0 /\ clock >= promised => Cardinality(Pruned(clock)) < limit

=============================================================================
