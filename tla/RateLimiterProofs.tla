-------------------------- MODULE RateLimiterProofs --------------------------
(***************************************************************************)
(* What holds of the sliding window for any window, limits, number of      *)
(* waiting checks, delay and number of lost connections.                   *)
(***************************************************************************)
EXTENDS RateLimiter, FiniteSetTheorems, SequenceTheorems, TLAPS

(* A check is answered within MaxLag of its timestamp.                     *)
Current(cmd) == cmd.now <= clock /\ clock <= cmd.now + MaxLag

ChecksCurrent ==
  /\ \A i \in 1..Len(wire) : Current(wire[i])
  /\ \A i \in 1..Len(replies) : Current(replies[i].cmd)

(* The set holds members that were added, none from the future.            *)
History ==
  /\ IsFiniteSet(ever)
  /\ zset \subseteq ever
  /\ \A m \in ever : Score(m) <= clock

(* A member that is gone is older than the window, and the key outlives    *)
(* each of its members.                                                    *)
NoneLostEarly ==
  /\ \A m \in ever \ zset : Score(m) + Window <= clock
  /\ \A m \in zset : Score(m) + Window <= expireAt

(* The members that will still be there when the promised time has come.   *)
StillThere(at) == {m \in zset : at < Score(m) + Window}

PromiseKept == promised # 0 => Cardinality(StillThere(promised)) < limit

RateInv ==
  TypeOK /\ ChecksCurrent /\ History /\ NoneLostEarly /\ PromiseKept /\ MembersPerWindow

-----------------------------------------------------------------------------
(* The greatest limit.                                                     *)
LEMMA MaxLimit ==
  /\ Max(Limits) \in Nat
  /\ \A l \in Limits : l <= Max(Limits)
<1>1. PICK most \in Limits : \A l \in Limits : l <= most
  BY RateLimiterAssumption
<1>2. \E x \in Limits : \A y \in Limits : x >= y
  BY <1>1, RateLimiterAssumption
<1>3. Max(Limits) \in Limits /\ \A y \in Limits : Max(Limits) >= y
  BY <1>2 DEF Max
<1>. QED
  BY <1>3, RateLimiterAssumption

(* A nonempty set of numbers has a least one.                              *)
LEMMA MinExists ==
  ASSUME NEW S \in SUBSET Nat, S # {}
  PROVE  Min(S) \in S /\ \A x \in S : Min(S) <= x
<1>. DEFINE Below(n) == 0..(n - 1)
            T == {Below(n) : n \in S}
<1>1. \A n \in Nat : IsFiniteSet(Below(n)) /\ Below(n) \in SUBSET Nat
  BY FS_Interval
<1>2. T \subseteq FiniteSubsetsOf(Nat) /\ T # {}
  BY <1>1 DEF FiniteSubsetsOf
<1>3. PICK x \in T : \A y \in T : ~(<<y, x>> \in StrictSubsetOrdering(Nat))
  <2>. HIDE DEF T
  <2>. QED
    BY <1>2, WFMin, FS_StrictSubsetOrderingWellFounded
<1>4. PICK n \in S : x = Below(n)
  BY <1>3
<1>5. ASSUME NEW m \in S, m < n PROVE FALSE
  <2>1. Below(m) \subseteq Below(n) /\ m \in Below(n) /\ m \notin Below(m)
    BY <1>5
  <2>2. <<Below(m), Below(n)>> \in StrictSubsetOrdering(Nat)
    BY <1>1, <2>1 DEF StrictSubsetOrdering
  <2>. QED
    BY <1>3, <1>4, <2>2
<1>6. \E k \in S : \A m \in S : k <= m
  BY <1>5
<1>. QED
  BY <1>6 DEF Min

LEMMA MemberType ==
  ASSUME NEW m \in Member
  PROVE  Score(m) \in Nat
BY RateLimiterAssumption DEF Member, Time, Score

(* Pruning keeps a finite set of members, and what it removes is older     *)
(* than the window.                                                        *)
LEMMA PrunedFacts ==
  ASSUME TypeOK, History, NEW now
  PROVE  /\ Pruned(now) \subseteq zset
         /\ IsFiniteSet(zset) /\ IsFiniteSet(Pruned(now))
         /\ Cardinality(Pruned(now)) \in Nat
<1>1. IsFiniteSet(zset)
  BY FS_Subset DEF History
<1>2. Pruned(now) \subseteq zset
  BY DEF Pruned
<1>3. IsFiniteSet(Pruned(now))
  BY <1>1, <1>2, FS_Subset
<1>. QED
  BY <1>1, <1>2, <1>3, FS_CardinalityType

LEMMA CommandsWaiting ==
  ASSUME TypeOK
  PROVE  /\ \A i \in 1..Len(wire) : wire[i] \in Command /\ wire[i].now \in Nat
         /\ \A i \in 1..Len(replies) :
              replies[i].cmd \in Command /\ replies[i].cmd.now \in Nat
<1>1. \A cmd \in Command : cmd.now \in Nat
  BY RateLimiterAssumption DEF Command, Time
<1>2. ASSUME NEW i \in 1..Len(wire) PROVE wire[i] \in Command
  BY ElementOfSeq DEF TypeOK
<1>3. ASSUME NEW i \in 1..Len(replies) PROVE replies[i].cmd \in Command
  <2>1. replies[i] \in Reply
    BY ElementOfSeq DEF TypeOK
  <2>. QED
    BY <2>1 DEF Reply
<1>. QED
  BY <1>1, <1>2, <1>3

(* The command at the head of the wire.                                    *)
LEMMA HeadCommand ==
  ASSUME TypeOK, ChecksCurrent, wire # <<>>
  PROVE  /\ Head(wire) \in Command
         /\ Head(wire).now \in Nat /\ Head(wire).limit \in Limits
         /\ Current(Head(wire))
<1>1. Len(wire) \in Nat \ {0}
  BY EmptySeq DEF TypeOK
<1>2. Head(wire) = wire[1] /\ wire[1] \in Command
  BY <1>1, ElementOfSeq DEF TypeOK
<1>. QED
  BY <1>1, <1>2, RateLimiterAssumption DEF Command, Time, ChecksCurrent

-----------------------------------------------------------------------------
LEMMA InitRateInv == Init => RateInv
<1>. SUFFICES ASSUME Init PROVE RateInv
  OBVIOUS
<1>1. TypeOK
  BY RateLimiterAssumption DEF Init, TypeOK, Time
<1>2. ChecksCurrent
  BY DEF Init, ChecksCurrent
<1>3. History /\ NoneLostEarly /\ PromiseKept
  BY FS_EmptySet DEF Init, History, NoneLostEarly, PromiseKept
<1>4. MembersPerWindow
  <2>1. \A t, w : InWindow(ever, t, w) = {}
    BY DEF Init, InWindow
  <2>2. 0 <= Max(Limits)
    BY MaxLimit
  <2>. QED
    BY <2>1, <2>2, FS_EmptySet DEF MembersPerWindow
<1>. QED
  BY <1>1, <1>2, <1>3, <1>4 DEF RateInv

(* Sending and receiving leave the set alone.                              *)
LEMMA SetUntouched ==
  ASSUME RateInv, UNCHANGED <<clock, limit, zset, expireAt, ever, promised>>
  PROVE  History' /\ NoneLostEarly' /\ PromiseKept' /\ MembersPerWindow'
<1>1. History' /\ NoneLostEarly'
  BY DEF RateInv, History, NoneLostEarly
<1>2. PromiseKept'
  BY DEF RateInv, PromiseKept, StillThere
<1>3. MembersPerWindow'
  BY DEF RateInv, MembersPerWindow, InWindow
<1>. QED
  BY <1>1, <1>2, <1>3

(* check(): the new command carries the present time.                      *)
LEMMA CheckStep == ASSUME RateInv, Check PROVE RateInv'
<1>. DEFINE cmd == [now |-> clock, limit |-> limit]
<1>1. cmd \in Command /\ wire \in Seq(Command) /\ wire' = Append(wire, cmd)
  BY DEF RateInv, TypeOK, Command, Check
<1>2. /\ wire' \in Seq(Command)
      /\ Len(wire') = Len(wire) + 1
      /\ \A i \in 1..Len(wire) : wire'[i] = wire[i]
      /\ wire'[Len(wire) + 1] = cmd
  <2>. HIDE DEF cmd
  <2>. QED
    BY <1>1, AppendProperties
<1>3. TypeOK'
  BY <1>2 DEF RateInv, TypeOK, Check
<1>4. ChecksCurrent'
  <2>1. clock \in Nat /\ MaxLag \in Nat /\ Len(wire) \in Nat
    BY <1>1, RateLimiterAssumption, LenProperties DEF RateInv, TypeOK, Time
  <2>2. cmd.now <= clock /\ clock <= cmd.now + MaxLag
    BY <2>1
  <2>3. \A i \in 1..Len(wire') : i \in 1..Len(wire) \/ i = Len(wire) + 1
    BY <1>2, <2>1
  <2>4. \A i \in 1..Len(wire') : Current(wire'[i])
    BY <1>2, <2>2, <2>3 DEF RateInv, ChecksCurrent, Current
  <2>. QED
    BY <2>4 DEF RateInv, ChecksCurrent, Current, Check
<1>. QED
  BY <1>3, <1>4, SetUntouched DEF RateInv, Check

LEMMA ReceiveStep == ASSUME RateInv, Receive PROVE RateInv'
<1>1. /\ replies' \in Seq(Reply)
      /\ Len(replies') = Len(replies) - 1
      /\ \A i \in 1..Len(replies') : replies'[i] = replies[i + 1]
  BY HeadTailProperties DEF RateInv, TypeOK, Receive
<1>2. TypeOK'
  BY <1>1 DEF RateInv, TypeOK, Receive
<1>3. ChecksCurrent'
  <2>1. Len(replies) \in Nat
    BY LenProperties DEF RateInv, TypeOK
  <2>2. \A i \in 1..Len(replies') : i + 1 \in 1..Len(replies)
    BY <1>1, <2>1
  <2>3. \A i \in 1..Len(replies') : Current(replies'[i].cmd)
    BY <1>1, <2>2 DEF RateInv, ChecksCurrent
  <2>. QED
    BY <2>3 DEF RateInv, ChecksCurrent, Current, Receive
<1>. QED
  BY <1>2, <1>3, SetUntouched DEF RateInv, Receive

(* The commands sent again are those of the lost replies.                  *)
LEMMA DropStep == ASSUME RateInv, Drop PROVE RateInv'
<1>. DEFINE again == [i \in 1..Len(replies) |-> replies[i].cmd]
<1>1. wire \in Seq(Command) /\ replies \in Seq(Reply) /\ Len(wire) \in Nat /\ Len(replies) \in Nat
  BY LenProperties DEF RateInv, TypeOK
<1>2. /\ again \in Seq(Command)
      /\ Len(again) = Len(replies)
      /\ \A i \in 1..Len(replies) : again[i] = replies[i].cmd
  <2>1. \A i \in 1..Len(replies) : replies[i].cmd \in Command
    BY CommandsWaiting DEF RateInv
  <2>2. again \in [1..Len(replies) -> Command]
    BY <2>1
  <2>. HIDE DEF again
  <2>3. again \in Seq(Command) /\ Len(again) = Len(replies)
    BY <1>1, <2>2
  <2>. QED
    BY <2>3 DEF again
<1>3. wire' = again \o wire /\ replies' = <<>>
  BY DEF Drop
<1>4. /\ wire' \in Seq(Command)
      /\ Len(wire') = Len(replies) + Len(wire)
      /\ \A i \in 1..Len(wire') :
           wire'[i] = IF i <= Len(replies) THEN again[i] ELSE wire[i - Len(replies)]
  <2>. HIDE DEF again
  <2>1. /\ again \o wire \in Seq(Command)
        /\ Len(again \o wire) = Len(again) + Len(wire)
        /\ \A i \in 1..Len(again) + Len(wire) :
             (again \o wire)[i] = IF i <= Len(again) THEN again[i] ELSE wire[i - Len(again)]
    BY <1>1, <1>2, ConcatProperties
  <2>. QED
    BY <1>2, <1>3, <2>1
<1>5. TypeOK'
  BY <1>4, RateLimiterAssumption DEF RateInv, TypeOK, Drop
<1>6. ChecksCurrent'
  <2>1. ASSUME NEW i \in 1..Len(wire') PROVE Current(wire'[i])
    <3>1. CASE i <= Len(replies)
      BY <1>1, <1>4, <3>1 DEF RateInv, ChecksCurrent
    <3>2. CASE i > Len(replies)
      <4>1. i - Len(replies) \in 1..Len(wire)
        BY <1>1, <1>4, <3>2
      <4>. QED
        BY <1>1, <1>4, <3>2, <4>1 DEF RateInv, ChecksCurrent
    <3>. QED
      BY <1>1, <1>4, <3>1, <3>2
  <2>2. UNCHANGED clock /\ Len(replies') = 0
    BY <1>3 DEF Drop
  <2>. QED
    BY <2>1, <2>2 DEF ChecksCurrent, Current
<1>. QED
  BY <1>5, <1>6, SetUntouched DEF RateInv, Drop

LEMMA ExpireStep == ASSUME RateInv, Expire PROVE RateInv'
<1>1. TypeOK' /\ ChecksCurrent'
  BY DEF RateInv, TypeOK, ChecksCurrent, Current, Expire
<1>2. zset' = {} /\ UNCHANGED <<ever, clock, limit, promised>>
  BY DEF Expire
<1>3. History'
  BY <1>2 DEF RateInv, History
<1>4. NoneLostEarly'
  <2>1. \A m \in ever : m \in Member /\ Score(m) \in Nat
    BY MemberType DEF RateInv, TypeOK
  <2>2. /\ \A m \in zset : Score(m) + Window <= expireAt
        /\ expireAt <= clock /\ expireAt \in Nat /\ clock \in Nat /\ Window \in Nat
    BY RateLimiterAssumption DEF RateInv, TypeOK, Time, NoneLostEarly, Expire
  <2>3. \A m \in ever : Score(m) + Window <= clock
    BY <2>1, <2>2 DEF RateInv, NoneLostEarly
  <2>. QED
    BY <1>2, <2>3 DEF NoneLostEarly
<1>5. PromiseKept'
  <2>1. StillThere(promised)' = {}
    BY <1>2 DEF StillThere
  <2>2. limit \in Nat \ {0}
    BY RateLimiterAssumption DEF RateInv, TypeOK
  <2>. QED
    BY <1>2, <2>1, <2>2, FS_EmptySet DEF PromiseKept
<1>6. MembersPerWindow'
  BY <1>2 DEF RateInv, MembersPerWindow, InWindow
<1>. QED
  BY <1>1, <1>3, <1>4, <1>5, <1>6 DEF RateInv

LEMMA SetRateLimitStep ==
  ASSUME RateInv, NEW l \in Limits, SetRateLimit(l)
  PROVE  RateInv'
<1>1. TypeOK' /\ ChecksCurrent' /\ History' /\ NoneLostEarly' /\ PromiseKept'
  BY DEF RateInv, TypeOK, ChecksCurrent, Current, History, NoneLostEarly, PromiseKept,
         SetRateLimit
<1>2. MembersPerWindow'
  BY DEF RateInv, MembersPerWindow, InWindow, SetRateLimit
<1>. QED
  BY <1>1, <1>2 DEF RateInv

LEMMA TickStep == ASSUME RateInv, Tick PROVE RateInv'
<1>1. clock \in Nat /\ clock' = clock + 1 /\ MaxLag \in Nat /\ Window \in Nat
  BY RateLimiterAssumption DEF RateInv, TypeOK, Time, Tick
<1>2. TypeOK'
  BY <1>1, RateLimiterAssumption DEF RateInv, TypeOK, Time, Tick
<1>3. ChecksCurrent'
  <2>1. ASSUME NEW i \in 1..Len(wire) PROVE Current(wire[i])'
    <3>1. wire[i].now \in Nat
      BY CommandsWaiting DEF RateInv
    <3>. QED
      BY <1>1, <3>1 DEF RateInv, ChecksCurrent, Current, Tick
  <2>2. ASSUME NEW i \in 1..Len(replies) PROVE Current(replies[i].cmd)'
    <3>1. replies[i].cmd.now \in Nat
      BY CommandsWaiting DEF RateInv
    <3>. QED
      BY <1>1, <3>1 DEF RateInv, ChecksCurrent, Current, Tick
  <2>. QED
    BY <2>1, <2>2 DEF ChecksCurrent, Tick
<1>4. History' /\ NoneLostEarly'
  <2>1. \A m \in ever : Score(m) \in Nat
    BY MemberType DEF RateInv, TypeOK
  <2>2. /\ \A m \in ever : Score(m) <= clock'
        /\ \A m \in ever \ zset : Score(m) + Window <= clock'
    BY <1>1, <2>1 DEF RateInv, History, NoneLostEarly
  <2>. QED
    BY <2>2 DEF RateInv, History, NoneLostEarly, Tick
<1>5. PromiseKept'
  BY DEF RateInv, PromiseKept, StillThere, Tick
<1>6. MembersPerWindow'
  BY DEF RateInv, MembersPerWindow, InWindow, Tick
<1>. QED
  BY <1>2, <1>3, <1>4, <1>5, <1>6 DEF RateInv

-----------------------------------------------------------------------------
(* The script takes the oldest command and appends its reply.              *)
LEMMA ExecuteMoves ==
  ASSUME RateInv, Execute, NEW reply \in Reply,
         reply.cmd = Head(wire), replies' = Append(replies, reply)
  PROVE  /\ wire' \in Seq(Command)
         /\ replies' \in Seq(Reply)
         /\ Len(replies') = Len(replies) + 1
         /\ replies'[Len(replies')] = reply
         /\ ChecksCurrent'
<1>1. wire \in Seq(Command) /\ replies \in Seq(Reply) /\ wire # <<>>
      /\ wire' = Tail(wire) /\ clock' = clock
  BY DEF RateInv, TypeOK, Execute
<1>2. Len(wire) \in Nat /\ Len(replies) \in Nat
  BY <1>1, LenProperties
<1>3. /\ wire' \in Seq(Command)
      /\ Len(wire') = Len(wire) - 1
      /\ \A i \in 1..Len(wire') : wire'[i] = wire[i + 1]
  BY <1>1, HeadTailProperties
<1>4. /\ replies' \in Seq(Reply)
      /\ Len(replies') = Len(replies) + 1
      /\ \A i \in 1..Len(replies) : replies'[i] = replies[i]
      /\ replies'[Len(replies) + 1] = reply
  BY <1>1, AppendProperties
<1>5. ChecksCurrent'
  <2>1. \A i \in 1..Len(wire') : i + 1 \in 1..Len(wire)
    BY <1>2, <1>3
  <2>2. \A i \in 1..Len(wire') : Current(wire'[i])
    BY <1>3, <2>1 DEF RateInv, ChecksCurrent
  <2>3. Current(reply.cmd)
    BY <1>1, HeadCommand DEF RateInv
  <2>4. \A i \in 1..Len(replies') : i \in 1..Len(replies) \/ i = Len(replies) + 1
    BY <1>2, <1>4
  <2>5. \A i \in 1..Len(replies') : Current(replies'[i].cmd)
    BY <1>4, <2>3, <2>4 DEF RateInv, ChecksCurrent
  <2>. QED
    BY <1>1, <2>2, <2>5 DEF ChecksCurrent, Current
<1>. QED
  BY <1>2, <1>3, <1>4, <1>5

(* What pruning removes is older than the window: no member is lost early. *)
LEMMA PruningLosesNone ==
  ASSUME RateInv, wire # <<>>
  PROVE  \A m \in ever \ Pruned(Head(wire).now) : Score(m) + Window <= clock
<1>1. /\ Head(wire).now \in Nat /\ Head(wire).now <= clock
      /\ clock \in Nat /\ Window \in Nat
  BY HeadCommand, RateLimiterAssumption DEF RateInv, Current, TypeOK, Time
<1>2. \A m \in ever : Score(m) \in Nat
  BY MemberType DEF RateInv, TypeOK
<1>. QED
  BY <1>1, <1>2 DEF RateInv, NoneLostEarly, Pruned

(* A member enters a window that has fewer than the greatest limit.        *)
LEMMA AdmitStep ==
  ASSUME RateInv, Execute, Admit(Head(wire))
  PROVE  RateInv'
<1>. DEFINE now == Head(wire).now
            reply == [cmd |-> Head(wire), allowed |-> TRUE, resetAt |-> now + Window]
<1>1. /\ Head(wire) \in Command /\ now \in Time /\ now \in Nat /\ Head(wire).limit \in Limits
      /\ now <= clock /\ clock <= now + MaxLag
  BY HeadCommand DEF RateInv, Execute, Current, Command
<1>2. clock \in Nat /\ Window \in Nat \ {0} /\ MaxLag \in Nat /\ MaxClock \in Nat
  BY RateLimiterAssumption DEF RateInv, TypeOK, Time
<1>3. PICK x \in Draws :
        zset' = Pruned(now) \union {<<now, x>>} /\ ever' = ever \union {<<now, x>>}
  BY DEF Admit
<1>4. <<now, x>> \in Member /\ Score(<<now, x>>) = now
  BY <1>1 DEF Member, Score
<1>5. expireAt' = clock + Window /\ promised' = 0 /\ replies' = Append(replies, reply)
      /\ UNCHANGED <<clock, limit, drops>>
  BY DEF Admit, Execute
<1>6. reply \in Reply /\ reply.cmd = Head(wire)
  BY <1>1, <1>2 DEF Reply
<1>7. wire' \in Seq(Command) /\ replies' \in Seq(Reply) /\ ChecksCurrent'
  <2>. HIDE DEF reply
  <2>. QED
    BY <1>5, <1>6, ExecuteMoves
<1>8. Pruned(now) \subseteq zset /\ zset \subseteq ever /\ ever \subseteq Member
  BY PrunedFacts DEF RateInv, History, TypeOK
<1>9. TypeOK'
  <2>1. zset' \subseteq Member /\ ever' \subseteq Member
    BY <1>3, <1>4, <1>8
  <2>2. expireAt' \in Nat /\ promised' \in Nat
    BY <1>2, <1>5
  <2>. QED
    BY <1>5, <1>7, <2>1, <2>2 DEF RateInv, TypeOK
<1>10. History'
  <2>1. IsFiniteSet(ever')
    BY <1>3, FS_AddElement DEF RateInv, History
  <2>2. \A m \in ever' : Score(m) <= clock
    BY <1>1, <1>3, <1>4 DEF RateInv, History
  <2>. QED
    BY <1>3, <1>5, <1>8, <2>1, <2>2 DEF History
<1>11. \A m \in ever \ Pruned(now) : Score(m) + Window <= clock
  BY PruningLosesNone DEF RateInv, Execute
<1>12. NoneLostEarly'
  <2>1. \A m \in ever' \ zset' : Score(m) + Window <= clock
    BY <1>3, <1>11
  <2>2. \A m \in zset' : Score(m) \in Nat /\ Score(m) <= clock
    BY <1>3, <1>8, <1>10, <1>9, <1>5, MemberType DEF History, TypeOK
  <2>. QED
    BY <1>2, <1>5, <2>1, <2>2 DEF NoneLostEarly
<1>13. PromiseKept'
  BY <1>5 DEF PromiseKept
<1>14. MembersPerWindow'
  <2>. DEFINE w == Window - MaxLag
  <2>1. SUFFICES ASSUME NEW t \in Time
                 PROVE  Cardinality(InWindow(ever', t, w)) <= Max(Limits)
    BY <1>5 DEF MembersPerWindow
  <2>2. t \in Nat
    BY <1>2 DEF Time
  <2>3. CASE <<now, x>> \notin InWindow(ever', t, w)
    <3>1. InWindow(ever', t, w) = InWindow(ever, t, w)
      BY <1>3, <2>3 DEF InWindow
    <3>. QED
      BY <3>1 DEF RateInv, MembersPerWindow
  <2>4. CASE <<now, x>> \in InWindow(ever', t, w)
    <3>1. now <= t
      BY <1>4, <2>4 DEF InWindow
    <3>2. ASSUME NEW m \in InWindow(ever', t, w), m # <<now, x>> PROVE m \in Pruned(now)
      <4>1. m \in ever /\ t < Score(m) + w /\ Score(m) \in Nat
        BY <1>3, <1>8, <3>2, MemberType DEF InWindow
      <4>2. clock < Score(m) + Window
        BY <1>1, <1>2, <2>2, <3>1, <4>1
      <4>. QED
        BY <1>2, <1>11, <4>1, <4>2
    <3>3. InWindow(ever', t, w) \subseteq Pruned(now) \union {<<now, x>>}
      BY <3>2
    <3>4. IsFiniteSet(Pruned(now)) /\ Cardinality(Pruned(now)) \in Nat
      BY PrunedFacts DEF RateInv
    <3>5. /\ IsFiniteSet(Pruned(now) \union {<<now, x>>})
          /\ Cardinality(Pruned(now) \union {<<now, x>>}) \in Nat
          /\ Cardinality(Pruned(now) \union {<<now, x>>}) <= Cardinality(Pruned(now)) + 1
      <4>. DEFINE P == Pruned(now)
      <4>1. /\ IsFiniteSet(P \union {<<now, x>>})
            /\ Cardinality(P \union {<<now, x>>}) =
                 IF <<now, x>> \in P THEN Cardinality(P) ELSE Cardinality(P) + 1
        BY <3>4, FS_AddElement
      <4>. QED
        BY <3>4, <4>1
    <3>6. /\ Cardinality(InWindow(ever', t, w)) \in Nat
          /\ Cardinality(InWindow(ever', t, w)) <= Cardinality(Pruned(now) \union {<<now, x>>})
      BY <3>3, <3>5, FS_Subset, FS_CardinalityType
    <3>7. Cardinality(Pruned(now)) < Head(wire).limit
      BY DEF Admit
    <3>8. Head(wire).limit \in Nat /\ Head(wire).limit <= Max(Limits) /\ Max(Limits) \in Nat
      BY <1>1, MaxLimit, RateLimiterAssumption
    <3>. QED
      BY <3>4, <3>5, <3>6, <3>7, <3>8
  <2>. QED
    BY <2>3, <2>4
<1>. QED
  BY <1>7, <1>9, <1>10, <1>12, <1>13, <1>14 DEF RateInv

(* The oldest member of a full window: a time it leaves room at.           *)
LEMMA OldestLeaves ==
  ASSUME RateInv, NEW now, Pruned(now) # {}
  PROVE  LET resetAt == OldestScore(Pruned(now)) + Window
         IN  /\ resetAt \in Nat
             /\ Cardinality({m \in Pruned(now) : resetAt < Score(m) + Window})
                  < Cardinality(Pruned(now))
<1>. DEFINE P == Pruned(now)
            Scores == {Score(m) : m \in P}
            resetAt == OldestScore(P) + Window
            Younger == {m \in P : resetAt < Score(m) + Window}
<1>1. P \subseteq zset /\ IsFiniteSet(P) /\ Cardinality(P) \in Nat
  BY PrunedFacts DEF RateInv
<1>2. \A m \in P : Score(m) \in Nat
  BY <1>1, MemberType DEF RateInv, TypeOK
<1>3. Scores \in SUBSET Nat /\ Scores # {}
  BY <1>2
<1>4. Min(Scores) \in Scores
  <2>. HIDE DEF Scores
  <2>. QED
    BY <1>3, MinExists
<1>5. PICK oldest \in P : OldestScore(P) = Score(oldest)
  BY <1>4 DEF OldestScore
<1>6. Window \in Nat /\ Score(oldest) \in Nat /\ resetAt = Score(oldest) + Window
  BY <1>2, <1>5, RateLimiterAssumption
<1>7. oldest \notin Younger
  BY <1>6
<1>8. Younger \in SUBSET P /\ Younger # P
  BY <1>5, <1>7
<1>9. Cardinality(Younger) \in Nat /\ Cardinality(Younger) < Cardinality(P)
  <2>. HIDE DEF P, Younger
  <2>1. /\ IsFiniteSet(Younger)
        /\ Cardinality(Younger) <= Cardinality(P)
        /\ Cardinality(P) # Cardinality(Younger)
    BY <1>1, <1>8, FS_Subset
  <2>. QED
    BY <1>1, <2>1, FS_CardinalityType
<1>. QED
  BY <1>6, <1>9

(* A rejection is promised room at the time its oldest member leaves.      *)
LEMMA RejectKeeps ==
  ASSUME RateInv, Execute, Reject(Head(wire))
  PROVE  RateInv'
<1>. DEFINE now == Head(wire).now
            P == Pruned(now)
            resetAt == OldestScore(P) + Window
            reply == [cmd |-> Head(wire), allowed |-> FALSE, resetAt |-> resetAt]
<1>1. /\ Head(wire) \in Command /\ now \in Nat
      /\ Head(wire).limit \in Nat \ {0} /\ limit \in Nat \ {0}
  BY HeadCommand, RateLimiterAssumption DEF RateInv, Execute, TypeOK
<1>2. /\ Cardinality(P) >= Head(wire).limit
      /\ zset' = P
      /\ replies' = Append(replies, reply)
      /\ promised' = IF promised = 0 /\ Cardinality(P) = limit THEN resetAt ELSE promised
      /\ UNCHANGED <<expireAt, ever, clock, limit, drops>>
  BY DEF Reject, Execute
<1>3. P \subseteq zset /\ IsFiniteSet(zset) /\ IsFiniteSet(P) /\ Cardinality(P) \in Nat
  BY PrunedFacts DEF RateInv
<1>4. P # {}
  <2>1. Cardinality(P) # 0
    BY <1>1, <1>2, <1>3
  <2>. HIDE DEF P
  <2>. QED
    BY <2>1, FS_EmptySet
<1>5. /\ resetAt \in Nat
      /\ Cardinality({m \in P : resetAt < Score(m) + Window}) < Cardinality(P)
  BY <1>4, OldestLeaves
<1>6. reply \in Reply /\ reply.cmd = Head(wire)
  BY <1>1, <1>5 DEF Reply
<1>7. wire' \in Seq(Command) /\ replies' \in Seq(Reply) /\ ChecksCurrent'
  <2>. HIDE DEF reply
  <2>. QED
    BY <1>2, <1>6, ExecuteMoves
<1>8. TypeOK'
  <2>1. promised' \in Nat
    BY <1>2, <1>5 DEF RateInv, TypeOK
  <2>. QED
    BY <1>2, <1>3, <1>7, <2>1 DEF RateInv, TypeOK
<1>9. History'
  BY <1>2, <1>3 DEF RateInv, History
<1>10. NoneLostEarly'
  <2>1. \A m \in ever \ P : Score(m) + Window <= clock
    BY PruningLosesNone DEF Execute
  <2>. QED
    BY <1>2, <1>3, <2>1 DEF RateInv, NoneLostEarly
<1>11. PromiseKept'
  <2>1. CASE promised = 0 /\ Cardinality(P) = limit
    <3>1. StillThere(promised)' = {m \in P : resetAt < Score(m) + Window}
      BY <1>2, <2>1 DEF StillThere
    <3>. QED
      BY <1>2, <1>5, <2>1, <3>1 DEF PromiseKept
  <2>2. CASE ~(promised = 0 /\ Cardinality(P) = limit)
    <3>1. promised' = promised /\ limit' = limit
      BY <1>2, <2>2
    <3>2. StillThere(promised)' \subseteq StillThere(promised)
      BY <1>2, <1>3, <3>1 DEF StillThere
    <3>3. StillThere(promised) \subseteq zset
      BY DEF StillThere
    <3>4. IsFiniteSet(StillThere(promised)) /\ Cardinality(StillThere(promised)) \in Nat
      BY <1>3, <3>3, FS_Subset, FS_CardinalityType
    <3>5. /\ Cardinality(StillThere(promised)') <= Cardinality(StillThere(promised))
          /\ Cardinality(StillThere(promised)') \in Nat
      BY <3>2, <3>4, FS_Subset, FS_CardinalityType
    <3>. QED
      BY <1>1, <3>1, <3>4, <3>5 DEF RateInv, PromiseKept
  <2>. QED
    BY <2>1, <2>2
<1>12. MembersPerWindow'
  BY <1>2 DEF RateInv, MembersPerWindow, InWindow
<1>. QED
  BY <1>7, <1>8, <1>9, <1>10, <1>11, <1>12 DEF RateInv

LEMMA StepRateInv == RateInv /\ [Next]_vars => RateInv'
<1>. SUFFICES ASSUME RateInv, [Next]_vars PROVE RateInv'
  OBVIOUS
<1>1. CASE Check
  BY <1>1, CheckStep
<1>2. CASE Execute
  BY <1>2, AdmitStep, RejectKeeps DEF Execute
<1>3. CASE Receive
  BY <1>3, ReceiveStep
<1>4. CASE Drop
  BY <1>4, DropStep
<1>5. CASE Expire
  BY <1>5, ExpireStep
<1>6. ASSUME NEW l \in Limits, SetRateLimit(l) PROVE RateInv'
  BY <1>6, SetRateLimitStep
<1>7. CASE Tick
  BY <1>7, TickStep
<1>8. CASE UNCHANGED vars
  <2>1. TypeOK' /\ ChecksCurrent'
    BY <1>8 DEF vars, RateInv, TypeOK, ChecksCurrent, Current
  <2>. QED
    BY <1>8, <2>1, SetUntouched DEF vars, RateInv
<1>. QED
  BY <1>1, <1>2, <1>3, <1>4, <1>5, <1>6, <1>7, <1>8 DEF Next

LEMMA SpecRateInv == Spec => []RateInv
BY InitRateInv, StepRateInv, PTL DEF Spec

-----------------------------------------------------------------------------
(* The type invariant of limiter, connection and sorted set.               *)
THEOREM RateLimiterTypeOK == Spec => []TypeOK
<1>1. RateInv => TypeOK
  BY DEF RateInv
<1>. QED
  BY <1>1, SpecRateInv, PTL

(* No window, shortened by the time a check may take, ever holds more      *)
(* members than the greatest limit, whatever is sent twice, delayed or     *)
(* expired: for any window, any limits and any number of lost connections. *)
THEOREM WindowNeverOverfull == Spec => []MembersPerWindow
<1>1. RateInv => MembersPerWindow
  BY DEF RateInv
<1>. QED
  BY <1>1, SpecRateInv, PTL

(* Retry-After is honest: the window has room once the reset time of a     *)
(* rejection has come, if nobody was admitted and the limit is unchanged.  *)
THEOREM PromisedRoomIsThere == Spec => []RetryAfterHonest
<1>1. RateInv => RetryAfterHonest
  <2>. SUFFICES ASSUME RateInv, promised # 0, clock >= promised
                PROVE  Cardinality(Pruned(clock)) < limit
    BY DEF RetryAfterHonest
  <2>1. clock \in Nat /\ promised \in Nat /\ limit \in Nat /\ Window \in Nat
    BY RateLimiterAssumption DEF RateInv, TypeOK, Time
  <2>2. \A m \in zset : Score(m) \in Nat
    BY MemberType DEF RateInv, TypeOK
  <2>3. Pruned(clock) \subseteq StillThere(promised)
    BY <2>1, <2>2 DEF Pruned, StillThere
  <2>4. IsFiniteSet(zset) /\ StillThere(promised) \subseteq zset
    BY PrunedFacts DEF RateInv, StillThere
  <2>5. IsFiniteSet(StillThere(promised)) /\ Cardinality(StillThere(promised)) \in Nat
    BY <2>4, FS_Subset, FS_CardinalityType
  <2>6. /\ Cardinality(Pruned(clock)) <= Cardinality(StillThere(promised))
        /\ Cardinality(Pruned(clock)) \in Nat
    BY <2>3, <2>5, FS_Subset, FS_CardinalityType
  <2>. QED
    BY <2>1, <2>5, <2>6 DEF RateInv, PromiseKept
<1>. QED
  BY <1>1, SpecRateInv, PTL

(* Only the script that finds the window full sends a rejection.           *)
LEMMA RejectionsAreRight ==
  ASSUME RateInv, Next, RejectStep
  PROVE  LET cmd == replies'[Len(replies')].cmd
         IN Cardinality({m \in ever : cmd.now < Score(m) + Window}) >= cmd.limit
<1>1. Len(replies) \in Nat
  BY LenProperties DEF RateInv, TypeOK
<1>2. ~Receive /\ ~Drop
  <2>1. ~Receive
    BY <1>1, HeadTailProperties DEF RateInv, TypeOK, Receive, RejectStep
  <2>2. ~Drop
    BY <1>1 DEF Drop, RejectStep
  <2>. QED
    BY <2>1, <2>2
<1>3. replies' # replies
  BY <1>1 DEF RejectStep
<1>4. Execute
  BY <1>2, <1>3 DEF Next, Check, Expire, SetRateLimit, Tick
<1>. DEFINE cmd == Head(wire)
<1>5. cmd \in Command /\ cmd.now \in Nat /\ cmd.limit \in Nat
  BY <1>4, HeadCommand, RateLimiterAssumption DEF RateInv, Execute
<1>6. ~Admit(cmd)
  <2>. SUFFICES ASSUME Admit(cmd) PROVE FALSE
    OBVIOUS
  <2>. DEFINE reply == [cmd |-> cmd, allowed |-> TRUE, resetAt |-> cmd.now + Window]
  <2>1. reply \in Reply /\ reply.cmd = Head(wire) /\ reply.allowed
    BY <1>5, RateLimiterAssumption DEF Reply
  <2>2. replies' = Append(replies, reply)
    BY DEF Admit
  <2>. HIDE DEF reply
  <2>3. replies'[Len(replies')] = reply
    BY <1>4, <2>1, <2>2, ExecuteMoves
  <2>. QED
    BY <2>1, <2>3 DEF RejectStep
<1>7. Reject(cmd)
  BY <1>4, <1>6 DEF Execute
<1>8. Cardinality(Pruned(cmd.now)) >= cmd.limit
  BY <1>7 DEF Reject
<1>9. replies'[Len(replies')].cmd = cmd
  <2>. DEFINE resetAt == OldestScore(Pruned(cmd.now)) + Window
              reply == [cmd |-> cmd, allowed |-> FALSE, resetAt |-> resetAt]
  <2>1. Pruned(cmd.now) # {}
    <3>1. cmd.limit # 0
      BY <1>4, HeadCommand, RateLimiterAssumption DEF RateInv, Execute
    <3>. QED
      BY <1>5, <1>8, <3>1, FS_EmptySet
  <2>2. resetAt \in Nat
    BY <2>1, OldestLeaves
  <2>3. reply \in Reply /\ reply.cmd = Head(wire)
    BY <1>5, <2>2 DEF Reply
  <2>4. replies' = Append(replies, reply)
    BY <1>7 DEF Reject
  <2>. HIDE DEF reply
  <2>. QED
    BY <1>4, <2>3, <2>4, ExecuteMoves
<1>10. Cardinality(Pruned(cmd.now)) <= Cardinality({m \in ever : cmd.now < Score(m) + Window})
  <2>. DEFINE Young == {m \in ever : cmd.now < Score(m) + Window}
  <2>1. Young \subseteq ever /\ IsFiniteSet(ever)
    BY DEF RateInv, History
  <2>2. IsFiniteSet(Young)
    BY <2>1, FS_Subset
  <2>3. \A m \in zset : m \in ever /\ Score(m) \in Nat
    BY MemberType DEF RateInv, History, TypeOK
  <2>4. Pruned(cmd.now) \subseteq Young
    BY <1>5, <2>3, RateLimiterAssumption DEF Pruned
  <2>. HIDE DEF Young
  <2>5. Cardinality(Pruned(cmd.now)) <= Cardinality(Young)
    BY <2>2, <2>4, FS_Subset
  <2>. QED
    BY <2>5 DEF Young
<1>11. /\ Cardinality(Pruned(cmd.now)) \in Nat
       /\ Cardinality({m \in ever : cmd.now < Score(m) + Window}) \in Nat
  <2>1. IsFiniteSet({m \in ever : cmd.now < Score(m) + Window})
    BY FS_Subset DEF RateInv, History
  <2>. QED
    BY <2>1, PrunedFacts, FS_CardinalityType DEF RateInv
<1>. QED
  BY <1>5, <1>8, <1>9, <1>10, <1>11

(* A check is rejected only when at least `limit` members are younger than *)
(* the window at the check's own timestamp.                                *)
THEOREM RejectedRightly == Spec => RejectedOnlyWhenFull
<1>1. RateInv /\ [Next]_vars =>
        [RejectStep =>
           LET cmd == replies'[Len(replies')].cmd
           IN Cardinality({m \in ever : cmd.now < Score(m) + Window}) >= cmd.limit]_vars
  BY RejectionsAreRight
<1>. QED
  BY <1>1, SpecRateInv, PTL DEF Spec, RejectedOnlyWhenFull

=============================================================================
